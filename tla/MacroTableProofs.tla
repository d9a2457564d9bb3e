-------------------------- MODULE MacroTableProofs --------------------------
(***************************************************************************)
(* Proofs about MacroTable, for every set of names, replacement lists and  *)
(* definition sites, every configuration and every byte limit.             *)
(***************************************************************************)
EXTENDS MacroTable, SequenceTheorems, FiniteSetTheorems, TLAPS

\* A non-empty stack without its top.
LEMMA DropLast ==
    ASSUME NEW S, NEW s \in Seq(S), s # <<>>
    PROVE  /\ SubSeq(s, 1, Len(s) - 1) \in Seq(S)
           /\ Len(SubSeq(s, 1, Len(s) - 1)) = Len(s) - 1
           /\ \A i \in 1..(Len(s) - 1) : SubSeq(s, 1, Len(s) - 1)[i] = s[i]
  <1>1. Len(s) \in Nat \ {0} OBVIOUS
  <1>2. \A i \in 1..(Len(s) - 1) : s[i] \in S BY <1>1
  <1>3. SubSeq(s, 1, Len(s) - 1) \in Seq(S)
    BY <1>1
  <1>4. \A i \in 1..(Len(s) - 1) : SubSeq(s, 1, Len(s) - 1)[i] = s[i]
    BY <1>1
  <1>5. Len(SubSeq(s, 1, Len(s) - 1)) = Len(s) - 1
    <2>1. CASE Len(s) = 1
      BY <2>1, SubSeqEmpty
    <2>2. CASE Len(s) > 1
      BY <1>1, <2>2
    <2> QED BY <1>1, <2>1, <2>2
  <1> QED BY <1>3, <1>4, <1>5

\* A definition record is never the absent value, and its fields are typed.
LEMMA DefinitionFacts ==
    ASSUME NEW v \in Values, NEW s \in Sites \cup {Predefined}
    PROVE  /\ [value |-> v, site |-> s] \in Definition
           /\ [value |-> v, site |-> s] # None
  BY NoneAssumption DEF Definition

\* What a pushed snapshot of a consistent table contains (push_macro).
LEMMA SnapshotOfSound ==
    ASSUME MacroInv, NEW n \in Names
    PROVE  SnapshotOf(n) \in Snapshot /\ SnapshotSound(n, SnapshotOf(n))
  <1>1. macros[n] \in Definition \cup {None} /\ macro_origins[n] \in Sites \cup {None}
    BY DEF MacroInv, MacroTypeOK
  <1>2. SnapshotBytes(n) \in Nat
    <2>1. (IF macros[n] = None THEN 0 ELSE ValueBytes[macros[n].value]) \in Nat
      BY <1>1, MacroAssumption DEF Definition
    <2>2. (IF macro_origins[n] = None THEN 0 ELSE OriginBytes) \in Nat
      BY MacroAssumption
    <2> QED BY <2>1, <2>2, MacroAssumption DEF SnapshotBytes
  <1>3. SnapshotOf(n) \in Snapshot
    BY <1>1, <1>2 DEF SnapshotOf, Snapshot
  <1>4. SnapshotSound(n, SnapshotOf(n))
    BY <1>1 DEF MacroInv, MacroTypeOK, OneMeaning, OriginMatchesDefinition, SnapshotOf,
                SnapshotSound
  <1> QED BY <1>3, <1>4

\* What the top of a name's stack contains (pop_macro).
LEMMA TopSnapshot ==
    ASSUME MacroInv, NEW n \in Names, macro_stacks[n] # <<>>
    PROVE  LET stack == macro_stacks[n]
           IN  /\ Len(stack) \in Nat \ {0}
               /\ stack \in Seq(Snapshot)
               /\ stack[Len(stack)] \in Snapshot
               /\ SnapshotSound(n, stack[Len(stack)])
  <1>1. macro_stacks[n] \in Seq(Snapshot) BY DEF MacroInv, MacroTypeOK
  <1>2. Len(macro_stacks[n]) \in Nat \ {0} BY <1>1
  <1>3. Len(macro_stacks[n]) \in 1..Len(macro_stacks[n]) BY <1>2
  <1> QED BY <1>1, <1>2, <1>3 DEF MacroInv, SnapshotsSound

\* The environment that reset() builds is consistent.
LEMMA ResetSound ==
    /\ ResetMacros \in [Names -> Definition \cup {None}]
    /\ ResetQueries \subseteq QueryNames
    /\ ResetPragma \in BOOLEAN
    /\ \A n \in Names : /\ OriginOf(ResetMacros[n]) = None
                        /\ ResetMacros[n] # None =>
                             n \notin ResetQueries /\ ~(n = PragmaName /\ ResetPragma)
  <1>1. \A n \in DOMAIN Defines : [value |-> Defines[n], site |-> Predefined] \in Definition
    BY MacroAssumption, DefinitionFacts
  <1>2. ResetMacros \in [Names -> Definition \cup {None}]
    BY <1>1 DEF ResetMacros
  <1>3. ResetQueries \subseteq QueryNames /\ ResetPragma \in BOOLEAN
    BY MacroAssumption DEF ResetQueries, ResetPragma
  <1>4. ASSUME NEW n \in Names
        PROVE  /\ OriginOf(ResetMacros[n]) = None
               /\ ResetMacros[n] # None =>
                    n \notin ResetQueries /\ ~(n = PragmaName /\ ResetPragma)
    BY <1>1 DEF ResetMacros, ResetQueries, ResetPragma, OriginOf
  <1> QED BY <1>2, <1>3, <1>4

\* Empty stacks hold no snapshot.
LEMMA EmptyStacks ==
    /\ [n \in Names |-> <<>>] \in [Names -> Seq(Snapshot)]
    /\ \A n \in Names : \A i \in 1..Len([m \in Names |-> <<>>][n]) : FALSE
  OBVIOUS

LEMMA InitInv == MacroInit => MacroInv
  <1> SUFFICES ASSUME MacroInit PROVE MacroInv OBVIOUS
  <1>1. MacroTypeOK
    BY ResetSound, EmptyStacks DEF MacroInit, MacroTypeOK
  <1>2. OneMeaning /\ OriginMatchesDefinition
    BY ResetSound DEF MacroInit, OneMeaning, OriginMatchesDefinition
  <1>3. SnapshotsSound
    BY EmptyStacks DEF MacroInit, SnapshotsSound
  <1> QED BY <1>1, <1>2, <1>3 DEF MacroInv

LEMMA ResetInv == ResetMacroTable => MacroInv'
  <1> SUFFICES ASSUME ResetMacroTable PROVE MacroInv' OBVIOUS
  <1>1. MacroTypeOK'
    BY ResetSound, EmptyStacks DEF ResetMacroTable, MacroTypeOK
  <1>2. OneMeaning' /\ OriginMatchesDefinition'
    BY ResetSound DEF ResetMacroTable, OneMeaning, OriginMatchesDefinition
  <1>3. SnapshotsSound'
    BY EmptyStacks DEF ResetMacroTable, SnapshotsSound
  <1> QED BY <1>1, <1>2, <1>3 DEF MacroInv

\* #define keeps the tables in step.
LEMMA DefineInv ==
    ASSUME MacroInv, NEW n \in Names, NEW v \in Values, NEW s \in Sites, Define(n, v, s)
    PROVE  MacroInv'
  <1>1. MacroTypeOK'
    <2>1. macros' \in [Names -> Definition \cup {None}] /\ macro_origins' \in [Names -> Sites \cup {None}]
      BY DefinitionFacts DEF Define, Replace, MacroInv, MacroTypeOK
    <2>2. active_queries' \subseteq QueryNames /\ ms_pragma_active' \in BOOLEAN
      BY DEF Define, Replace, MacroInv, MacroTypeOK
    <2>3. definition_bytes' \in Nat /\ redefinition_bytes' \in Nat
      BY MacroAssumption DEF Define, RecordRedefinition, DefinitionRecordBytes, MacroInv, MacroTypeOK
    <2> QED BY <2>1, <2>2, <2>3 DEF Define, stackVars, MacroInv, MacroTypeOK
  <1>2. OneMeaning'
    BY DEF Define, Replace, MacroInv, MacroTypeOK, OneMeaning
  <1>3. OriginMatchesDefinition'
    <2>1. OriginOf([value |-> v, site |-> s]) = s
      BY DefinitionFacts, MacroAssumption DEF OriginOf
    <2> QED BY <2>1 DEF Define, Replace, MacroInv, MacroTypeOK, OriginMatchesDefinition
  <1>4. SnapshotsSound'
    BY DEF Define, stackVars, MacroInv, SnapshotsSound
  <1> QED BY <1>1, <1>2, <1>3, <1>4 DEF MacroInv

LEMMA UndefInv ==
    ASSUME MacroInv, NEW n \in Names, Undef(n)
    PROVE  MacroInv'
  <1>1. MacroTypeOK'
    BY DEF Undef, MacroInv, MacroTypeOK, stackVars, recordVars
  <1>2. OneMeaning' /\ OriginMatchesDefinition'
    BY DEF Undef, MacroInv, MacroTypeOK, OneMeaning, OriginMatchesDefinition, OriginOf
  <1>3. SnapshotsSound'
    BY DEF Undef, stackVars, MacroInv, SnapshotsSound
  <1> QED BY <1>1, <1>2, <1>3 DEF MacroInv

\* #pragma push_macro adds a consistent snapshot.
LEMMA PushInv ==
    ASSUME MacroInv, NEW n \in Names, push_macro(n)
    PROVE  MacroInv'
  <1>1. SnapshotOf(n) \in Snapshot /\ SnapshotSound(n, SnapshotOf(n))
    BY SnapshotOfSound
  <1>2. SnapshotBytes(n) \in Nat
    BY <1>1 DEF SnapshotOf, Snapshot
  <1>3. MacroTypeOK'
    BY <1>1, <1>2 DEF push_macro, MacroInv, MacroTypeOK, envVars, recordVars
  <1>4. OneMeaning' /\ OriginMatchesDefinition'
    BY DEF push_macro, envVars, MacroInv, OneMeaning, OriginMatchesDefinition
  <1>5. ASSUME NEW m \in Names, NEW i \in 1..Len(macro_stacks'[m])
        PROVE  SnapshotSound(m, macro_stacks'[m][i])
    <2>1. macro_stacks \in [Names -> Seq(Snapshot)] BY DEF MacroInv, MacroTypeOK
    <2>2. CASE m # n
      BY <2>1, <2>2 DEF push_macro, MacroInv, SnapshotsSound
    <2>3. CASE m = n
      <3>1. macro_stacks'[n] = Append(macro_stacks[n], SnapshotOf(n))
        BY <2>1 DEF push_macro
      <3>2. CASE i = Len(macro_stacks[n]) + 1
        BY <1>1, <2>1, <2>3, <3>1, <3>2
      <3>3. CASE i # Len(macro_stacks[n]) + 1
        <4>1. i \in 1..Len(macro_stacks[n]) /\ macro_stacks'[n][i] = macro_stacks[n][i]
          BY <2>1, <2>3, <3>1, <3>3
        <4> QED BY <4>1, <2>3 DEF MacroInv, SnapshotsSound
      <3> QED BY <3>2, <3>3
    <2> QED BY <2>2, <2>3
  <1> QED BY <1>3, <1>4, <1>5 DEF MacroInv, SnapshotsSound, SnapshotSound

\* #pragma pop_macro puts a consistent snapshot back.
LEMMA PopInv ==
    ASSUME MacroInv, NEW n \in Names, pop_macro(n)
    PROVE  MacroInv'
  <1> DEFINE stack == macro_stacks[n]
             top == stack[Len(stack)]
  <1>1. /\ Len(stack) \in Nat \ {0} /\ stack \in Seq(Snapshot)
        /\ top \in Snapshot /\ SnapshotSound(n, top)
    BY TopSnapshot DEF pop_macro, PopRejected
  <1>2. SubSeq(stack, 1, Len(stack) - 1) \in Seq(Snapshot)
    BY <1>1
  <1>3. /\ macro_stacks' = [macro_stacks EXCEPT ![n] = SubSeq(stack, 1, Len(stack) - 1)]
        /\ macro_stack_bytes' = macro_stack_bytes - top.bytes
        /\ macros' = [macros EXCEPT ![n] = top.definition]
        /\ macro_origins' = [macro_origins EXCEPT ![n] = top.origin]
        /\ active_queries' = IF n \in QueryNames /\ top.query THEN active_queries \cup {n}
                                                              ELSE active_queries \ {n}
        /\ ms_pragma_active' = IF n = PragmaName THEN top.pragma ELSE ms_pragma_active
        /\ UNCHANGED recordVars
    BY DEF pop_macro
  <1> HIDE DEF stack, top
  <1>4. MacroTypeOK'
    <2>1. /\ top.definition \in Definition \cup {None} /\ top.origin \in Sites \cup {None}
          /\ top.pragma \in BOOLEAN /\ top.bytes \in Nat
      BY <1>1 DEF Snapshot
    <2> QED BY <1>2, <1>3, <2>1 DEF MacroInv, MacroTypeOK, recordVars
  <1>5. OneMeaning'
    <2> SUFFICES ASSUME NEW m \in Names, macros'[m] # None
                 PROVE  m \notin active_queries' /\ ~(m = PragmaName /\ ms_pragma_active')
      BY DEF OneMeaning
    <2>1. CASE m = n
      BY <1>1, <1>3, <2>1 DEF SnapshotSound, MacroInv, MacroTypeOK
    <2>2. CASE m # n
      BY <1>3, <2>2 DEF MacroInv, MacroTypeOK, OneMeaning
    <2> QED BY <2>1, <2>2
  <1>6. OriginMatchesDefinition'
    BY <1>1, <1>3 DEF SnapshotSound, MacroInv, MacroTypeOK, OriginMatchesDefinition
  <1>7. ASSUME NEW m \in Names, NEW i \in 1..Len(macro_stacks'[m])
        PROVE  SnapshotSound(m, macro_stacks'[m][i])
    <2>1. macro_stacks \in [Names -> Seq(Snapshot)] BY DEF MacroInv, MacroTypeOK
    <2>2. CASE m # n
      BY <1>3, <2>1, <2>2 DEF MacroInv, SnapshotsSound
    <2>3. CASE m = n
      <3>1. i \in 1..Len(stack) /\ macro_stacks'[n][i] = stack[i]
        BY <1>1, <1>3, <2>1, <2>3
      <3> QED BY <3>1, <2>3 DEF MacroInv, SnapshotsSound, stack
    <2> QED BY <2>2, <2>3
  <1> QED BY <1>4, <1>5, <1>6, <1>7 DEF MacroInv, SnapshotsSound, SnapshotSound

\* The tables stay in step through every sequence of #define, #undef,
\* push_macro, pop_macro and restarts: MacroInv is inductive.
THEOREM MacroInvariant == MacroSpec => []MacroInv
  <1>1. MacroInit => MacroInv
    BY InitInv
  <1>2. MacroInv /\ [EnvironmentNext]_macroVars => MacroInv'
    <2> SUFFICES ASSUME MacroInv, [EnvironmentNext]_macroVars PROVE MacroInv' OBVIOUS
    <2>1. ASSUME NEW n \in Names, NEW v \in Values, NEW s \in Sites, Define(n, v, s)
          PROVE  MacroInv'
      BY <2>1, DefineInv
    <2>2. ASSUME NEW n \in Names, Undef(n) PROVE MacroInv' BY <2>2, UndefInv
    <2>3. ASSUME NEW n \in Names, push_macro(n) PROVE MacroInv' BY <2>3, PushInv
    <2>4. ASSUME NEW n \in Names, pop_macro(n) PROVE MacroInv' BY <2>4, PopInv
    <2>5. ASSUME ResetMacroTable PROVE MacroInv' BY <2>5, ResetInv
    <2>6. CASE UNCHANGED macroVars
      BY <2>6 DEF macroVars, envVars, stackVars, recordVars, MacroInv, MacroTypeOK, OneMeaning,
                  OriginMatchesDefinition, SnapshotsSound
    <2> QED BY <2>1, <2>2, <2>3, <2>4, <2>5, <2>6 DEF EnvironmentNext
  <1> QED BY <1>1, <1>2, PTL DEF MacroSpec

\* A name is never both a macro and an operator.
THEOREM OneMeaningHolds == MacroSpec => []OneMeaning
  <1>1. MacroInv => OneMeaning BY DEF MacroInv
  <1> QED BY <1>1, MacroInvariant, PTL

\* The recorded origin always names the active definition.
THEOREM OriginHolds == MacroSpec => []OriginMatchesDefinition
  <1>1. MacroInv => OriginMatchesDefinition BY DEF MacroInv
  <1> QED BY <1>1, MacroInvariant, PTL

-----------------------------------------------------------------------------
(* The bytes of the stacks *)

LEMMA SlotBytesHeld ==
    ASSUME NEW slot, NEW b \in Nat
    PROVE  IsFiniteSet({slot} \X (1 .. b)) /\ Cardinality({slot} \X (1 .. b)) = b
  <1> DEFINE T == {slot} \X (1 .. b)
             f == [k \in 1 .. b |-> <<slot, k>>]
  <1>1. IsFiniteSet(1 .. b) /\ Cardinality(1 .. b) = b BY FS_Interval
  <1>2. f \in [1 .. b -> T] OBVIOUS
  <1>3. \A t \in T : \E k \in 1 .. b : f[k] = t OBVIOUS
  <1>4. \A j, k \in 1 .. b : f[j] = f[k] => j = k OBVIOUS
  <1> HIDE DEF f
  <1>5. f \in Surjection(1 .. b, T) BY <1>2, <1>3 DEF Surjection
  <1>6. f \in Injection(1 .. b, T) BY <1>2, <1>4 DEF Injection, IsInjective
  <1> QED BY <1>1, <1>5, <1>6, FS_Surjection

\* The byte b of the i-th snapshot of n is on the stacks.
Holds(stacks, n, i, b) == n \in Names /\ i \in 1 .. Len(stacks[n]) /\ b \in 1 .. stacks[n][i].bytes

LEMMA HeldMember ==
    ASSUME NEW stacks \in [Names -> Seq(Snapshot)], NEW x
    PROVE  x \in Held(stacks) <=> \E n, i, b : x = <<<<n, i>>, b>> /\ Holds(stacks, n, i, b)
  <1>1. \A n \in Names : DOMAIN stacks[n] = 1 .. Len(stacks[n]) OBVIOUS
  <1>2. ASSUME NEW s
        PROVE  s \in Slots(stacks) <=> \E n \in Names : \E i \in 1 .. Len(stacks[n]) : s = <<n, i>>
    BY <1>1 DEF Slots
  <1>3. ASSUME NEW n, NEW i, NEW b, Holds(stacks, n, i, b)
        PROVE  <<<<n, i>>, b>> \in Held(stacks)
    <2>1. <<n, i>> \in Slots(stacks) BY <1>2, <1>3 DEF Holds
    <2>2. <<<<n, i>>, b>> \in {<<n, i>>} \X (1 .. stacks[<<n, i>>[1]][<<n, i>>[2]].bytes)
      BY <1>3 DEF Holds
    <2> QED BY <2>1, <2>2 DEF Held
  <1>4. ASSUME x \in Held(stacks)
        PROVE  \E n, i, b : x = <<<<n, i>>, b>> /\ Holds(stacks, n, i, b)
    <2>1. PICK s \in Slots(stacks) : x \in {s} \X (1 .. stacks[s[1]][s[2]].bytes) BY <1>4 DEF Held
    <2>2. PICK n \in Names : \E i \in 1 .. Len(stacks[n]) : s = <<n, i>> BY <1>2
    <2>3. PICK i \in 1 .. Len(stacks[n]) : s = <<n, i>> BY <2>2
    <2>4. PICK b \in 1 .. stacks[n][i].bytes : x = <<<<n, i>>, b>> BY <2>1, <2>3
    <2>5. Holds(stacks, n, i, b) BY DEF Holds
    <2> QED BY <2>4, <2>5
  <1> QED BY <1>3, <1>4

\* A snapshot more holds its own bytes and no others.
LEMMA HeldGrows ==
    ASSUME NEW stacks \in [Names -> Seq(Snapshot)], NEW n \in Names, NEW snapshot \in Snapshot,
           NEW more \in [Names -> Seq(Snapshot)],
           more[n] = Append(stacks[n], snapshot), \A m \in Names \ {n} : more[m] = stacks[m]
    PROVE  /\ Held(stacks) \subseteq Held(more)
           /\ IsFiniteSet(Held(stacks)) =>
                /\ IsFiniteSet(Held(more))
                /\ Cardinality(Held(more)) = Cardinality(Held(stacks)) + snapshot.bytes
  <1> DEFINE top == Len(stacks[n]) + 1
             added == {<<n, top>>} \X (1 .. snapshot.bytes)
  <1>1. snapshot.bytes \in Nat BY DEF Snapshot
  <1>2. stacks[n] \in Seq(Snapshot) /\ Len(stacks[n]) \in Nat OBVIOUS
  <1>3. /\ Len(more[n]) = top /\ more[n][top] = snapshot
        /\ \A i \in 1 .. Len(stacks[n]) : more[n][i] = stacks[n][i]
    BY <1>2
  <1>4. IsFiniteSet(added) /\ Cardinality(added) = snapshot.bytes BY <1>1, SlotBytesHeld
  <1>5. ASSUME NEW m, NEW i, NEW b
        PROVE  Holds(more, m, i, b) <=>
                 Holds(stacks, m, i, b) \/ (m = n /\ i = top /\ b \in 1 .. snapshot.bytes)
    <2>1. CASE m # n BY <2>1 DEF Holds
    <2>2. CASE m = n
      <3>1. CASE i = top BY <1>2, <1>3, <2>2, <3>1 DEF Holds
      <3>2. CASE i # top
        <4>1. i \in 1 .. Len(more[n]) <=> i \in 1 .. Len(stacks[n]) BY <1>2, <1>3, <3>2
        <4> QED BY <1>3, <2>2, <3>2, <4>1 DEF Holds
      <3> QED BY <3>1, <3>2
    <2> QED BY <2>1, <2>2
  <1>6. ~\E b : Holds(stacks, n, top, b) BY <1>2 DEF Holds
  <1> HIDE DEF top
  <1>7. \A x : x \in Held(stacks) <=> \E m, i, b : x = <<<<m, i>>, b>> /\ Holds(stacks, m, i, b)
    BY HeldMember
  <1>8. \A x : x \in Held(more) <=> \E m, i, b : x = <<<<m, i>>, b>> /\ Holds(more, m, i, b)
    BY HeldMember
  <1>9. \A x : x \in added <=> \E b \in 1 .. snapshot.bytes : x = <<<<n, top>>, b>> OBVIOUS
  <1>10. Held(more) = Held(stacks) \cup added
    <2>1. ASSUME NEW x \in Held(more) PROVE x \in Held(stacks) \cup added BY <1>5, <1>7, <1>8, <1>9
    <2>2. ASSUME NEW x \in Held(stacks) PROVE x \in Held(more) BY <1>5, <1>7, <1>8
    <2>3. ASSUME NEW x \in added PROVE x \in Held(more) BY <1>5, <1>8, <1>9
    <2> QED BY <2>1, <2>2, <2>3
  <1>11. Held(stacks) \cap added = {} BY <1>6, <1>7, <1>9
  <1> HIDE DEF added
  <1>12. ASSUME IsFiniteSet(Held(stacks))
         PROVE  /\ IsFiniteSet(Held(more))
                /\ Cardinality(Held(more)) = Cardinality(Held(stacks)) + snapshot.bytes
    <2>1. Cardinality(Held(stacks)) \in Nat BY <1>12, FS_CardinalityType
    <2>2. Cardinality(Held(stacks) \cap added) = 0 BY <1>11, FS_EmptySet
    <2>3. /\ IsFiniteSet(Held(stacks) \cup added)
          /\ Cardinality(Held(stacks) \cup added)
                = Cardinality(Held(stacks)) + Cardinality(added) - Cardinality(Held(stacks) \cap added)
      BY <1>4, <1>12, FS_Union
    <2> QED BY <1>1, <1>4, <1>10, <2>1, <2>2, <2>3
  <1> QED BY <1>10, <1>12

\* What the total counts is finite, exactly what is held, and within the limit.
BytesInv == IsFiniteSet(Held(macro_stacks)) /\ StackBytesExact

LEMMA NothingHeld == IsFiniteSet(Held([n \in Names |-> <<>>])) /\ Cardinality(Held([n \in Names |-> <<>>])) = 0
  <1> DEFINE stacks == [n \in Names |-> <<>>]
  <1>1. stacks \in [Names -> Seq(Snapshot)] BY EmptyStacks
  <1>2. \A n \in Names : \A i \in 1 .. Len(stacks[n]) : FALSE BY EmptyStacks
  <1> HIDE DEF stacks
  <1>3. Held(stacks) = {} BY <1>1, <1>2, HeldMember DEF Holds
  <1> QED BY <1>3, FS_EmptySet DEF stacks

\* A push charges what its snapshot holds.
LEMMA PushBytes ==
    ASSUME MacroInv, MacroInv', BytesInv, NEW n \in Names, push_macro(n)
    PROVE  BytesInv'
  <1>1. /\ macro_stacks \in [Names -> Seq(Snapshot)] /\ macro_stacks' \in [Names -> Seq(Snapshot)]
    BY DEF MacroInv, MacroTypeOK
  <1>2. SnapshotOf(n) \in Snapshot /\ SnapshotOf(n).bytes = SnapshotBytes(n)
    BY SnapshotOfSound DEF SnapshotOf
  <1>3. /\ macro_stacks'[n] = Append(macro_stacks[n], SnapshotOf(n))
        /\ \A m \in Names \ {n} : macro_stacks'[m] = macro_stacks[m]
    BY <1>1 DEF push_macro
  <1>4. /\ IsFiniteSet(Held(macro_stacks'))
        /\ Cardinality(Held(macro_stacks')) = Cardinality(Held(macro_stacks)) + SnapshotBytes(n)
    <2>1. IsFiniteSet(Held(macro_stacks)) BY DEF BytesInv
    <2> DEFINE old == macro_stacks
               new == macro_stacks'
               snapshot == SnapshotOf(n)
    <2>2. /\ old \in [Names -> Seq(Snapshot)] /\ new \in [Names -> Seq(Snapshot)]
          /\ snapshot \in Snapshot /\ IsFiniteSet(Held(old))
          /\ new[n] = Append(old[n], snapshot) /\ \A m \in Names \ {n} : new[m] = old[m]
      BY <1>1, <1>2, <1>3, <2>1
    <2> HIDE DEF old, new, snapshot
    <2>3. IsFiniteSet(Held(new)) /\ Cardinality(Held(new)) = Cardinality(Held(old)) + snapshot.bytes
      BY <2>2, HeldGrows
    <2> QED BY <1>2, <2>3 DEF old, new, snapshot
  <1>5. /\ macro_stack_bytes' = macro_stack_bytes + SnapshotBytes(n)
        /\ ~(macro_stack_bytes + SnapshotBytes(n) > MaxSourceBytes)
    BY DEF push_macro, PushRejected
  <1>6. macro_stack_bytes \in Int /\ SnapshotBytes(n) \in Nat /\ MaxSourceBytes \in Nat
    BY <1>2, MacroAssumption DEF MacroInv, MacroTypeOK, Snapshot
  <1> QED BY <1>4, <1>5, <1>6 DEF BytesInv, StackBytesExact

\* A pop gives back what its snapshot was charged.
LEMMA PopBytes ==
    ASSUME MacroInv, MacroInv', BytesInv, NEW n \in Names, pop_macro(n)
    PROVE  BytesInv'
  <1> DEFINE stack == macro_stacks[n]
             top == stack[Len(stack)]
  <1>1. /\ macro_stacks \in [Names -> Seq(Snapshot)] /\ macro_stacks' \in [Names -> Seq(Snapshot)]
    BY DEF MacroInv, MacroTypeOK
  <1>2. /\ Len(stack) \in Nat \ {0} /\ stack \in Seq(Snapshot) /\ stack # <<>>
        /\ top \in Snapshot
    BY TopSnapshot DEF pop_macro, PopRejected
  <1>3. /\ macro_stacks' = [macro_stacks EXCEPT ![n] = SubSeq(stack, 1, Len(stack) - 1)]
        /\ macro_stack_bytes' = macro_stack_bytes - top.bytes
    BY DEF pop_macro
  <1> HIDE DEF stack, top
  <1>4. stack = Append(SubSeq(stack, 1, Len(stack) - 1), top)
    <2>1. /\ SubSeq(stack, 1, Len(stack) - 1) \in Seq(Snapshot)
          /\ Len(SubSeq(stack, 1, Len(stack) - 1)) = Len(stack) - 1
          /\ \A i \in 1..(Len(stack) - 1) : SubSeq(stack, 1, Len(stack) - 1)[i] = stack[i]
      BY <1>2, DropLast
    <2> QED BY <1>2, <2>1 DEF top
  <1>5. /\ macro_stacks[n] = Append(macro_stacks'[n], top)
        /\ \A m \in Names \ {n} : macro_stacks[m] = macro_stacks'[m]
    BY <1>1, <1>3, <1>4 DEF stack
  <1>6. IsFiniteSet(Held(macro_stacks'))
    <2>1. Held(macro_stacks') \subseteq Held(macro_stacks) BY <1>1, <1>2, <1>5, HeldGrows
    <2> QED BY <2>1, FS_Subset DEF BytesInv
  <1>7. Cardinality(Held(macro_stacks)) = Cardinality(Held(macro_stacks')) + top.bytes
    <2> DEFINE old == macro_stacks'
               new == macro_stacks
               snapshot == top
    <2>1. /\ old \in [Names -> Seq(Snapshot)] /\ new \in [Names -> Seq(Snapshot)]
          /\ snapshot \in Snapshot /\ IsFiniteSet(Held(old))
          /\ new[n] = Append(old[n], snapshot) /\ \A m \in Names \ {n} : new[m] = old[m]
      BY <1>1, <1>2, <1>5, <1>6
    <2> HIDE DEF old, new, snapshot
    <2>2. IsFiniteSet(Held(new)) /\ Cardinality(Held(new)) = Cardinality(Held(old)) + snapshot.bytes
      BY <2>1, HeldGrows
    <2> QED BY <2>2 DEF old, new, snapshot
  <1>8. top.bytes \in Nat /\ Cardinality(Held(macro_stacks')) \in Nat /\ MaxSourceBytes \in Nat
    BY <1>2, <1>6, FS_CardinalityType, MacroAssumption DEF Snapshot
  <1> QED BY <1>3, <1>6, <1>7, <1>8 DEF BytesInv, StackBytesExact

\* The running total is exactly what the stacks hold and within the limit,
\* through every sequence of pushes, pops, directives and restarts.
THEOREM StackBytesHold == MacroSpec => []StackBytesExact
  <1>1. MacroInit => BytesInv
    BY NothingHeld, MacroAssumption DEF MacroInit, BytesInv, StackBytesExact
  <1>2. MacroInv /\ MacroInv' /\ BytesInv /\ [EnvironmentNext]_macroVars => BytesInv'
    <2> SUFFICES ASSUME MacroInv, MacroInv', BytesInv, [EnvironmentNext]_macroVars PROVE BytesInv' OBVIOUS
    <2>1. ASSUME UNCHANGED stackVars PROVE BytesInv'
      BY <2>1 DEF stackVars, BytesInv, StackBytesExact
    <2>2. ASSUME NEW n \in Names, push_macro(n) PROVE BytesInv' BY <2>2, PushBytes
    <2>3. ASSUME NEW n \in Names, pop_macro(n) PROVE BytesInv' BY <2>3, PopBytes
    <2>4. ASSUME ResetMacroTable PROVE BytesInv'
      BY <2>4, NothingHeld, MacroAssumption DEF ResetMacroTable, BytesInv, StackBytesExact
    <2> QED BY <2>1, <2>2, <2>3, <2>4 DEF EnvironmentNext, Define, Undef, macroVars
  <1>3. BytesInv => StackBytesExact BY DEF BytesInv
  <1> QED BY <1>1, <1>2, <1>3, MacroInvariant, PTL DEF MacroSpec

-----------------------------------------------------------------------------
(* The four tables and the snapshots implement MacroScopes. *)

\* The meaning of a name is one of the meanings of the abstract specification.
MeaningsTyped == \A n \in Names : Meaning(n) \in AllMeanings

\* It follows from the invariant, in this state and in the next.
LEMMA MeaningTyped == MacroInv => MeaningsTyped
  <1> SUFFICES ASSUME MacroInv, NEW n \in Names PROVE Meaning(n) \in AllMeanings
    BY DEF MeaningsTyped
  <1>1. macros[n] \in Definition \cup {None} /\ macro_origins[n] \in Sites \cup {None}
    BY DEF MacroInv, MacroTypeOK
  <1>2. CASE macros[n] = None
    BY <1>2 DEF Meaning, MeaningOf, AllMeanings
  <1>3. CASE macros[n] # None
    <2>1. macros[n].value \in Values /\ macros[n].site \in Sites \cup {Predefined}
      BY <1>1, <1>3 DEF Definition
    <2>2. Meaning(n) = MacroMeaning(macros[n], macro_origins[n])
      BY <1>3 DEF Meaning, MeaningOf
    <2> QED BY <1>1, <2>1, <2>2 DEF MacroMeaning, AllMeanings
  <1> QED BY <1>2, <1>3

LEMMA MeaningTypedNext == MacroInv' => MeaningsTyped'
  BY MeaningTyped, PTL

\* The meaning of the snapshot push_macro takes is the meaning of the name.
LEMMA SnapshotMeaningOf ==
    ASSUME MacroInv, NEW n \in Names
    PROVE  SnapshotMeaning(n, SnapshotOf(n)) = Meaning(n)
  BY MacroAssumption DEF SnapshotMeaning, SnapshotOf, Meaning, MacroInv, MacroTypeOK

\* Names an operation does not touch keep their meaning and saved meanings.
LEMMA OtherNames ==
    ASSUME MacroInv, NEW m \in Names,
           macros'[m] = macros[m], macro_origins'[m] = macro_origins[m],
           macro_stacks'[m] = macro_stacks[m],
           m \in active_queries' <=> m \in active_queries,
           m = PragmaName => ms_pragma_active' = ms_pragma_active
    PROVE  Meaning(m)' = Meaning(m) /\ SavedMeanings(m)' = SavedMeanings(m)
  <1>1. (m = PragmaName /\ ms_pragma_active') <=> (m = PragmaName /\ ms_pragma_active)
    OBVIOUS
  <1>2. Meaning(m)' = Meaning(m)
    BY <1>1 DEF Meaning, MeaningOf
  <1>3. SavedMeanings(m)' = SavedMeanings(m)
    BY DEF SavedMeanings, SnapshotMeaning
  <1> QED BY <1>2, <1>3

\* A step that gives n any meaning and keeps every stack is a Bind.
LEMMA BindStep ==
    ASSUME MacroInv, MacroInv', NEW n \in Names, UNCHANGED macro_stacks,
           \A m \in Names \ {n} : Meaning(m)' = Meaning(m)
    PROVE  Scopes!Bind(n, Meaning(n)')
  <1>1. [m \in Names |-> Meaning(m)]' = [[m \in Names |-> Meaning(m)] EXCEPT ![n] = Meaning(n)']
    OBVIOUS
  <1>2. \A m \in Names : SavedMeanings(m)' = SavedMeanings(m)
    BY DEF SavedMeanings, SnapshotMeaning
  <1>3. [m \in Names |-> SavedMeanings(m)]' = [m \in Names |-> SavedMeanings(m)]
    BY <1>2
  <1> QED BY <1>1, <1>3 DEF Scopes!Bind

LEMMA DefineBinds ==
    ASSUME MacroInv, MacroInv', NEW n \in Names, NEW v \in Values, NEW s \in Sites, Define(n, v, s)
    PROVE  Scopes!Next
  <1>1. ASSUME NEW m \in Names \ {n} PROVE Meaning(m)' = Meaning(m)
    <2>1. /\ macros'[m] = macros[m] /\ macro_origins'[m] = macro_origins[m]
          /\ macro_stacks'[m] = macro_stacks[m]
          /\ m \in active_queries' <=> m \in active_queries
          /\ m = PragmaName => ms_pragma_active' = ms_pragma_active
      BY DEF Define, Replace, stackVars, MacroInv, MacroTypeOK
    <2> QED BY <2>1, OtherNames
  <1>2. Scopes!Bind(n, Meaning(n)')
    BY <1>1, BindStep DEF Define, stackVars
  <1>3. Meaning(n)' \in AllMeanings
    BY MeaningTypedNext DEF MeaningsTyped
  <1> QED BY <1>2, <1>3 DEF Scopes!Next

LEMMA UndefBinds ==
    ASSUME MacroInv, MacroInv', NEW n \in Names, Undef(n)
    PROVE  Scopes!Next
  <1>1. ASSUME NEW m \in Names \ {n} PROVE Meaning(m)' = Meaning(m)
    <2>1. /\ macros'[m] = macros[m] /\ macro_origins'[m] = macro_origins[m]
          /\ macro_stacks'[m] = macro_stacks[m]
          /\ m \in active_queries' <=> m \in active_queries
          /\ m = PragmaName => ms_pragma_active' = ms_pragma_active
      BY DEF Undef, stackVars, MacroInv, MacroTypeOK
    <2> QED BY <2>1, OtherNames
  <1>2. Scopes!Bind(n, Meaning(n)')
    BY <1>1, BindStep DEF Undef, stackVars
  <1>3. Meaning(n)' \in AllMeanings
    BY MeaningTypedNext DEF MeaningsTyped
  <1> QED BY <1>2, <1>3 DEF Scopes!Next

\* push_macro saves the meaning of its name and changes none.
LEMMA PushSaves ==
    ASSUME MacroInv, MacroInv', NEW n \in Names, push_macro(n)
    PROVE  Scopes!Next
  <1>1. macro_stacks \in [Names -> Seq(Snapshot)]
    BY DEF MacroInv, MacroTypeOK
  <1>2. ASSUME NEW m \in Names PROVE Meaning(m)' = Meaning(m)
    BY DEF push_macro, envVars, Meaning, MeaningOf
  <1>3. ASSUME NEW m \in Names \ {n} PROVE SavedMeanings(m)' = SavedMeanings(m)
    <2>1. macro_stacks'[m] = macro_stacks[m] BY <1>1 DEF push_macro
    <2> QED BY <2>1 DEF SavedMeanings, SnapshotMeaning
  <1>4. SavedMeanings(n)' = Append(SavedMeanings(n), Meaning(n))
    <2>1. macro_stacks'[n] = Append(macro_stacks[n], SnapshotOf(n))
      BY <1>1 DEF push_macro
    <2>2. SnapshotMeaning(n, SnapshotOf(n)) = Meaning(n)
      BY SnapshotMeaningOf
    <2> DEFINE f(x) == SnapshotMeaning(n, x)
    <2>3. SavedMeanings(n) = [i \in 1..Len(macro_stacks[n]) |-> f(macro_stacks[n][i])]
      BY DEF SavedMeanings
    <2>4. SavedMeanings(n)' = [i \in 1..Len(macro_stacks'[n]) |-> f(macro_stacks'[n][i])]
      BY DEF SavedMeanings, SnapshotMeaning
    <2>5. f(SnapshotOf(n)) = Meaning(n) BY <2>2
    <2>6. macro_stacks[n] \in Seq(Snapshot) BY <1>1
    <2> HIDE DEF f
    <2> QED BY <2>1, <2>3, <2>4, <2>5, <2>6
  <1>5. [m \in Names |-> Meaning(m)]' = [m \in Names |-> Meaning(m)]
    BY <1>2
  <1>6. [m \in Names |-> SavedMeanings(m)]'
          = [[m \in Names |-> SavedMeanings(m)] EXCEPT ![n] = Append(@, Meaning(n))]
    BY <1>3, <1>4
  <1>7. [m \in Names |-> Meaning(m)][n] = Meaning(n)
    OBVIOUS
  <1>8. Scopes!Save(n)
    BY <1>5, <1>6, <1>7 DEF Scopes!Save
  <1> QED BY <1>8 DEF Scopes!Next

\* pop_macro restores the last saved meaning of its name.
LEMMA PopRestores ==
    ASSUME MacroInv, MacroInv', NEW n \in Names, pop_macro(n)
    PROVE  Scopes!Next
  <1> DEFINE stack == macro_stacks[n]
             top == stack[Len(stack)]
  <1>1. /\ Len(stack) \in Nat \ {0} /\ stack \in Seq(Snapshot)
        /\ top \in Snapshot /\ SnapshotSound(n, top)
    BY TopSnapshot DEF pop_macro, PopRejected
  <1>2. /\ macro_stacks' = [macro_stacks EXCEPT ![n] = SubSeq(stack, 1, Len(stack) - 1)]
        /\ macros' = [macros EXCEPT ![n] = top.definition]
        /\ macro_origins' = [macro_origins EXCEPT ![n] = top.origin]
        /\ active_queries' = IF n \in QueryNames /\ top.query THEN active_queries \cup {n}
                                                              ELSE active_queries \ {n}
        /\ ms_pragma_active' = IF n = PragmaName THEN top.pragma ELSE ms_pragma_active
    BY DEF pop_macro
  <1>3. macro_stacks \in [Names -> Seq(Snapshot)] /\ macros \in [Names -> Definition \cup {None}]
        /\ macro_origins \in [Names -> Sites \cup {None}]
    BY DEF MacroInv, MacroTypeOK
  <1> HIDE DEF stack, top
  <1>4. ASSUME NEW m \in Names \ {n}
        PROVE  Meaning(m)' = Meaning(m) /\ SavedMeanings(m)' = SavedMeanings(m)
    <2>1. /\ macros'[m] = macros[m] /\ macro_origins'[m] = macro_origins[m]
          /\ macro_stacks'[m] = macro_stacks[m]
          /\ m \in active_queries' <=> m \in active_queries
          /\ m = PragmaName => ms_pragma_active' = ms_pragma_active
      BY <1>2, <1>3
    <2> QED BY <2>1, OtherNames
  <1>5. Meaning(n)' = SnapshotMeaning(n, top)
    <2>1. macros'[n] = top.definition /\ macro_origins'[n] = top.origin
      BY <1>2, <1>3
    <2>2. n \in active_queries' <=> top.query
      BY <1>1, <1>2 DEF SnapshotSound, Snapshot
    <2>3. (n = PragmaName /\ ms_pragma_active') <=> top.pragma
      BY <1>1, <1>2 DEF SnapshotSound, Snapshot
    <2> QED BY <2>1, <2>2, <2>3 DEF Meaning, SnapshotMeaning
  <1> DEFINE f(x) == SnapshotMeaning(n, x)
  <1>6. SavedMeanings(n) = [i \in 1..Len(stack) |-> f(stack[i])]
    BY DEF SavedMeanings, stack
  <1>7. SavedMeanings(n)' = [i \in 1..Len(macro_stacks'[n]) |-> f(macro_stacks'[n][i])]
    BY DEF SavedMeanings, SnapshotMeaning
  <1>8. Meaning(n)' = f(top) BY <1>5
  <1> HIDE DEF f
  <1>9. macro_stacks'[n] = SubSeq(stack, 1, Len(stack) - 1)
    BY <1>2, <1>3
  <1>10. /\ Len(SavedMeanings(n)) = Len(stack)
         /\ SavedMeanings(n) # <<>>
         /\ SavedMeanings(n)[Len(SavedMeanings(n))] = Meaning(n)'
    BY <1>1, <1>6, <1>8 DEF top
  <1>11. SavedMeanings(n)' = SubSeq(SavedMeanings(n), 1, Len(SavedMeanings(n)) - 1)
    <2>1. Len(macro_stacks'[n]) = Len(stack) - 1
      BY <1>1, <1>9, DropLast
    <2>2. \A i \in 1..(Len(stack) - 1) : macro_stacks'[n][i] = stack[i]
      BY <1>1, <1>9
    <2>3. SavedMeanings(n)' = [i \in 1..(Len(stack) - 1) |-> f(stack[i])]
      BY <1>7, <2>1, <2>2
    <2>4. SubSeq(SavedMeanings(n), 1, Len(stack) - 1)
            = [i \in 1..(Len(stack) - 1) |-> f(stack[i])]
      BY <1>1, <1>6
    <2> QED BY <1>10, <2>3, <2>4
  <1>12. [m \in Names |-> Meaning(m)]' = [[m \in Names |-> Meaning(m)] EXCEPT ![n] = Meaning(n)']
    BY <1>4
  <1>13. [m \in Names |-> SavedMeanings(m)]'
           = [[m \in Names |-> SavedMeanings(m)]
                EXCEPT ![n] = SubSeq(@, 1, Len(@) - 1)]
    BY <1>4, <1>11
  <1>14. [m \in Names |-> SavedMeanings(m)][n] = SavedMeanings(n)
    OBVIOUS
  <1>15. Scopes!Restore(n)
    BY <1>10, <1>12, <1>13, <1>14 DEF Scopes!Restore
  <1> QED BY <1>15 DEF Scopes!Next

\* reset() is a restart, and the first translation unit begins like any other.
LEMMA ResetRestarts == ResetMacroTable => Scopes!Restart
  <1> SUFFICES ASSUME ResetMacroTable PROVE Scopes!Restart OBVIOUS
  <1>1. ASSUME NEW n \in Names PROVE Meaning(n)' = InitialMeaning[n]
    BY DEF ResetMacroTable, Meaning, InitialMeaning
  <1>2. ASSUME NEW n \in Names PROVE SavedMeanings(n)' = <<>>
    BY DEF ResetMacroTable, SavedMeanings
  <1>3. [n \in Names |-> Meaning(n)]' = InitialMeaning
    BY <1>1 DEF InitialMeaning
  <1>4. [n \in Names |-> SavedMeanings(n)]' = [n \in Names |-> <<>>]
    BY <1>2
  <1> QED BY <1>3, <1>4 DEF Scopes!Restart

LEMMA InitRefines == MacroInit => Scopes!Init
  <1> SUFFICES ASSUME MacroInit PROVE Scopes!Init OBVIOUS
  <1>1. ASSUME NEW n \in Names PROVE Meaning(n) = InitialMeaning[n]
    BY DEF MacroInit, Meaning, InitialMeaning
  <1>2. ASSUME NEW n \in Names PROVE SavedMeanings(n) = <<>>
    BY DEF MacroInit, SavedMeanings
  <1>3. [n \in Names |-> Meaning(n)] = InitialMeaning
    BY <1>1 DEF InitialMeaning
  <1>4. [n \in Names |-> SavedMeanings(n)] = [n \in Names |-> <<>>]
    BY <1>2
  <1> QED BY <1>3, <1>4 DEF Scopes!Init

\* Whatever a program defines, undefines, pushes and pops, in any order over
\* any names, the tables of the preprocessor behave as one meaning per name
\* with a stack of saved meanings.
THEOREM MacroRefinement == MacroSpec => ImplementsMacroScopes
  <1>1. MacroInit => Scopes!Init
    BY InitRefines
  <1>2. MacroInv /\ MacroInv' /\ [EnvironmentNext]_macroVars => [Scopes!Next]_(Scopes!vars)
    <2> SUFFICES ASSUME MacroInv, MacroInv', [EnvironmentNext]_macroVars
                 PROVE  Scopes!Next \/ UNCHANGED Scopes!vars
      OBVIOUS
    <2>1. ASSUME NEW n \in Names, NEW v \in Values, NEW s \in Sites, Define(n, v, s)
          PROVE  Scopes!Next
      BY <2>1, DefineBinds
    <2>2. ASSUME NEW n \in Names, Undef(n) PROVE Scopes!Next BY <2>2, UndefBinds
    <2>3. ASSUME NEW n \in Names, push_macro(n) PROVE Scopes!Next BY <2>3, PushSaves
    <2>4. ASSUME NEW n \in Names, pop_macro(n) PROVE Scopes!Next BY <2>4, PopRestores
    <2>5. ASSUME ResetMacroTable PROVE Scopes!Next
      BY <2>5, ResetRestarts DEF Scopes!Next
    <2>6. CASE UNCHANGED macroVars
      <3>1. ASSUME NEW m \in Names
            PROVE  Meaning(m)' = Meaning(m) /\ SavedMeanings(m)' = SavedMeanings(m)
        BY <2>6, OtherNames DEF macroVars, envVars, stackVars
      <3> QED BY <3>1 DEF Scopes!vars
    <2> QED BY <2>1, <2>2, <2>3, <2>4, <2>5, <2>6 DEF EnvironmentNext
  <1> QED BY <1>1, <1>2, MacroInvariant, PTL DEF MacroSpec, ImplementsMacroScopes, Scopes!Spec
=============================================================================
