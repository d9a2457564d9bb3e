----------------------------- MODULE MacroTable -----------------------------
(***************************************************************************)
(* The macro environment of toucan_preprocessor: Preprocessor::define, the *)
(* #undef arm of source_inner, push_macro, pop_macro, is_defined, and the  *)
(* part of reset that rebuilds the environment.                            *)
(*                                                                         *)
(* The meaning of one identifier is spread over four tables that every     *)
(* operation has to keep in step: `macros' (replacement lists),            *)
(* `active_queries' (the bit set of __has_feature-like operators),         *)
(* `ms_pragma_active' (the __pragma operator) and the definition sites of  *)
(* FileOrigins.  A pushed snapshot copies all four for its name.           *)
(*                                                                         *)
(* A definition is its replacement, compared by value where the code calls *)
(* `equivalent', together with the place that wrote it.  The place is not  *)
(* a field of the Rust struct Macro: it is kept to say which definition    *)
(* the separately stored origin has to name.                               *)
(***************************************************************************)
EXTENDS Integers, Sequences, FiniteSetsExt

CONSTANTS Names,           \* identifiers a program uses
          Values,          \* replacement lists
          Sites,           \* places of #define directives in source files
          None,            \* an absent definition or origin
          Predefined,      \* the site of a configured definition
          Builtins,        \* is_builtin
          QueryNames,      \* FeatureQuery::from_name succeeds
          PragmaName,      \* "__pragma"
          EnabledQueries,  \* config.feature_queries.enabled
          MsExtensions,    \* config.ms_extensions
          Defines,         \* config.defines: [subset of Names -> Values]
          RecordAndReplace,\* config.macro_redefinition_policy
          MaxSourceBytes,  \* config.max_source_bytes
          SlotBytes,       \* bytes of a snapshot before its copied parts
          ValueBytes,      \* bytes of each replacement list
          OriginBytes,     \* bytes of a copied origin
          RecordBytes      \* bytes of a macro_definitions or redefinition record

ASSUME MacroAssumption ==
    /\ Builtins \subseteq Names /\ QueryNames \subseteq Names
    /\ Builtins \cap QueryNames = {}
    /\ PragmaName \notin QueryNames \cup Builtins
    /\ EnabledQueries \subseteq QueryNames
    /\ MsExtensions \in BOOLEAN /\ RecordAndReplace \in BOOLEAN
    /\ DOMAIN Defines \subseteq Names \ Builtins
    /\ \A n \in DOMAIN Defines : Defines[n] \in Values
    /\ Predefined \notin Sites /\ None \notin Sites \cup Values
    /\ None # Predefined
    /\ MaxSourceBytes \in Nat /\ SlotBytes \in Nat \ {0}
    /\ ValueBytes \in [Values -> Nat]
    /\ OriginBytes \in Nat /\ RecordBytes \in Nat

Definition == [value : Values, site : Sites \cup {Predefined}]

ASSUME NoneAssumption == None \notin Definition

Snapshot == [definition : Definition \cup {None}, origin : Sites \cup {None},
             query : BOOLEAN, pragma : BOOLEAN, bytes : Nat]

VARIABLES macros,            \* [Names -> Definition or None]
          macro_origins,     \* FileOrigins.macros: [Names -> Sites or None]
          active_queries,    \* a subset of QueryNames
          ms_pragma_active,
          macro_stacks,      \* [Names -> Seq(Snapshot)]
          macro_stack_bytes,
          definition_bytes,  \* MacroDefinitions.retained_bytes
          redefinition_bytes \* MacroRedefinitions.retained_bytes

envVars == <<macros, macro_origins, active_queries, ms_pragma_active>>
stackVars == <<macro_stacks, macro_stack_bytes>>
recordVars == <<definition_bytes, redefinition_bytes>>
macroVars == <<envVars, stackVars, recordVars>>

MacroTypeOK ==
    /\ macros \in [Names -> Definition \cup {None}]
    /\ macro_origins \in [Names -> Sites \cup {None}]
    /\ active_queries \subseteq QueryNames
    /\ ms_pragma_active \in BOOLEAN
    /\ macro_stacks \in [Names -> Seq(Snapshot)]
    /\ macro_stack_bytes \in Int
    /\ definition_bytes \in Nat
    /\ redefinition_bytes \in Nat

\* The environment reset() leaves: queries and __pragma as configured, then
\* define() of every configured macro, which takes its operator away.
ResetMacros ==
    [n \in Names |-> IF n \in DOMAIN Defines
                     THEN [value |-> Defines[n], site |-> Predefined]
                     ELSE None]
ResetQueries == EnabledQueries \ DOMAIN Defines
ResetPragma == MsExtensions /\ PragmaName \notin DOMAIN Defines

MacroInit ==
    /\ macros = ResetMacros
    /\ macro_origins = [n \in Names |-> None]
    /\ active_queries = ResetQueries
    /\ ms_pragma_active = ResetPragma
    /\ macro_stacks = [n \in Names |-> <<>>]
    /\ macro_stack_bytes = 0
    /\ definition_bytes = 0
    /\ redefinition_bytes = 0

\* reset() clears whatever the previous translation unit, failed or not, left.
ResetMacroTable ==
    /\ macros' = ResetMacros
    /\ macro_origins' = [n \in Names |-> None]
    /\ active_queries' = ResetQueries
    /\ ms_pragma_active' = ResetPragma
    /\ macro_stacks' = [n \in Names |-> <<>>]
    /\ macro_stack_bytes' = 0
    /\ definition_bytes' = 0
    /\ redefinition_bytes' = 0

is_defined(n) ==
    \/ macros[n] # None
    \/ n \in Builtins
    \/ n = PragmaName /\ ms_pragma_active
    \/ n \in active_queries

-----------------------------------------------------------------------------
(* #define *)

Incompatible(n, v) == macros[n] # None /\ macros[n].value # v

\* Reserved names, an incompatible redefinition under the strict policy, and
\* the byte limit of the redefinition records stop define() before it changes
\* the environment.
DefineRejected(n, v) ==
    \/ n \in Builtins
    \/ /\ Incompatible(n, v)
       /\ \/ ~RecordAndReplace
          \/ redefinition_bytes + RecordBytes > MaxSourceBytes

RecordRedefinition(n, v) ==
    redefinition_bytes' =
        IF Incompatible(n, v) THEN redefinition_bytes + RecordBytes
                              ELSE redefinition_bytes

Replace(n, v, s) ==
    /\ macros' = [macros EXCEPT ![n] = [value |-> v, site |-> s]]
    /\ active_queries' = active_queries \ {n}
    /\ ms_pragma_active' = (ms_pragma_active /\ n # PragmaName)

DefinitionRecordBytes(v) == RecordBytes + ValueBytes[v]

\* The directive: define(), then the written-definition record, then the origin.
Define(n, v, s) ==
    /\ ~DefineRejected(n, v)
    /\ definition_bytes + DefinitionRecordBytes(v) <= MaxSourceBytes
    /\ RecordRedefinition(n, v)
    /\ Replace(n, v, s)
    /\ definition_bytes' = definition_bytes + DefinitionRecordBytes(v)
    /\ macro_origins' = [macro_origins EXCEPT ![n] = s]
    /\ UNCHANGED stackVars

\* The record of a written definition can exceed its budget after define() has
\* replaced the macro: the translation unit fails with the old origin in place.
DefineUnrecorded(n, v, s) ==
    /\ ~DefineRejected(n, v)
    /\ definition_bytes + DefinitionRecordBytes(v) > MaxSourceBytes
    /\ RecordRedefinition(n, v)
    /\ Replace(n, v, s)
    /\ UNCHANGED <<macro_origins, definition_bytes, stackVars>>

-----------------------------------------------------------------------------
(* #undef *)

UndefRejected(n) == n \in Builtins

Undef(n) ==
    /\ ~UndefRejected(n)
    /\ macros' = [macros EXCEPT ![n] = None]
    /\ macro_origins' = [macro_origins EXCEPT ![n] = None]
    /\ active_queries' = active_queries \ {n}
    /\ ms_pragma_active' = (ms_pragma_active /\ n # PragmaName)
    /\ UNCHANGED <<stackVars, recordVars>>

-----------------------------------------------------------------------------
(* #pragma push_macro and pop_macro *)

SnapshotBytes(n) ==
    SlotBytes + (IF macros[n] = None THEN 0 ELSE ValueBytes[macros[n].value])
              + (IF macro_origins[n] = None THEN 0 ELSE OriginBytes)

\* Mutant: the __pragma flag is copied for every name.
SnapshotAnyPragma(n) ==
    [definition |-> macros[n], origin |-> macro_origins[n], query |-> n \in active_queries,
     pragma |-> ms_pragma_active, bytes |-> SnapshotBytes(n)]

\* Mutant: the snapshot forgets that the name was a query operator.
SnapshotForgetsQuery(n) ==
    [definition |-> macros[n], origin |-> macro_origins[n], query |-> FALSE,
     pragma |-> n = PragmaName /\ ms_pragma_active, bytes |-> SnapshotBytes(n)]

SnapshotOf(n) ==
    [definition |-> macros[n],
     origin     |-> macro_origins[n],
     query      |-> n \in active_queries,
     pragma     |-> n = PragmaName /\ ms_pragma_active,
     bytes      |-> SnapshotBytes(n)]

PushRejected(n) == macro_stack_bytes + SnapshotBytes(n) > MaxSourceBytes

\* Mutant: the charge of a snapshot counts its slot only.
PushChargesSlot(n) ==
    /\ ~PushRejected(n)
    /\ macro_stacks' = [macro_stacks EXCEPT ![n] = Append(@, SnapshotOf(n))]
    /\ macro_stack_bytes' = macro_stack_bytes + SlotBytes
    /\ UNCHANGED <<envVars, recordVars>>

push_macro(n) ==
    /\ ~PushRejected(n)
    /\ macro_stacks' = [macro_stacks EXCEPT ![n] = Append(@, SnapshotOf(n))]
    /\ macro_stack_bytes' = macro_stack_bytes + SnapshotBytes(n)
    /\ UNCHANGED <<envVars, recordVars>>

PopRejected(n) == macro_stacks[n] = <<>>

\* The query bit and the __pragma flag are written only for the names that
\* have one.
pop_macro(n) ==
    /\ ~PopRejected(n)
    /\ LET stack == macro_stacks[n]
           top == stack[Len(stack)]
       IN  /\ macro_stacks' = [macro_stacks EXCEPT ![n] = SubSeq(stack, 1, Len(stack) - 1)]
           /\ macro_stack_bytes' = macro_stack_bytes - top.bytes
           /\ macros' = [macros EXCEPT ![n] = top.definition]
           /\ macro_origins' = [macro_origins EXCEPT ![n] = top.origin]
           /\ active_queries' =
                IF n \in QueryNames /\ top.query THEN active_queries \cup {n}
                                                 ELSE active_queries \ {n}
           /\ ms_pragma_active' =
                IF n = PragmaName THEN top.pragma ELSE ms_pragma_active
    /\ UNCHANGED recordVars

-----------------------------------------------------------------------------
(* The environment on its own: any sequence of operations.  An operation   *)
(* that is rejected ends the translation unit; the next one starts with    *)
(* reset().                                                                *)

EnvironmentNext ==
    \/ \E n \in Names, v \in Values, s \in Sites : Define(n, v, s)
    \/ \E n \in Names : Undef(n) \/ push_macro(n) \/ pop_macro(n)
    \/ ResetMacroTable

MacroSpec == MacroInit /\ [][EnvironmentNext]_macroVars

-----------------------------------------------------------------------------
(* Properties *)

\* A name is never at once a macro and an active query or __pragma operator:
\* #define takes the operator away, and no push/pop sequence gives it back
\* beside a definition.  Which of the two an expansion found would otherwise
\* depend on lookup order.
OneMeaning ==
    \A n \in Names :
        macros[n] # None => /\ n \notin active_queries
                            /\ ~(n = PragmaName /\ ms_pragma_active)

\* FileOrigins names the directive that wrote the active definition: not an
\* earlier one, not one that was popped or undefined, and nothing for a
\* configured macro.
OriginOf(d) == IF d = None \/ d.site = Predefined THEN None ELSE d.site

OriginMatchesDefinition == \A n \in Names : macro_origins[n] = OriginOf(macros[n])

\* The strengthening that makes the two inductive: a snapshot is itself a
\* consistent entry of the tables, and carries an operator only for a name
\* that has one.
SnapshotSound(n, s) ==
    /\ s.definition # None => ~s.query /\ ~s.pragma
    /\ s.origin = OriginOf(s.definition)
    /\ s.query => n \in QueryNames
    /\ s.pragma => n = PragmaName

SnapshotsSound ==
    \A n \in Names : \A i \in 1..Len(macro_stacks[n]) : SnapshotSound(n, macro_stacks[n][i])

MacroInv == MacroTypeOK /\ OneMeaning /\ OriginMatchesDefinition /\ SnapshotsSound

\* The bytes the snapshots on the stacks hold, each named by its place.
Slots(stacks) == UNION {{n} \X DOMAIN stacks[n] : n \in Names}
Held(stacks) == UNION {{s} \X (1 .. stacks[s[1]][s[2]].bytes) : s \in Slots(stacks)}

\* The running byte total is the number of bytes held by every live snapshot of
\* every name, so it cannot underflow in pop_macro or leak in push_macro, and it
\* stays within the limit.
StackBytesExact ==
    /\ macro_stack_bytes = Cardinality(Held(macro_stacks))
    /\ macro_stack_bytes <= MaxSourceBytes

\* The meaning of a name, read off the four tables.
Operator == [kind |-> "operator"]
Undefined == [kind |-> "undefined"]
MacroMeaning(d, o) == [kind |-> "macro", value |-> d.value, site |-> d.site, origin |-> o]

MeaningOf(d, o, operator) ==
    IF d # None THEN MacroMeaning(d, o)
    ELSE IF operator THEN Operator ELSE Undefined

Meaning(n) ==
    MeaningOf(macros[n], macro_origins[n],
              n \in Builtins \cup active_queries \/ (n = PragmaName /\ ms_pragma_active))

SnapshotMeaning(n, s) ==
    MeaningOf(s.definition, s.origin, n \in Builtins \/ s.query \/ s.pragma)

SavedMeanings(n) ==
    [i \in 1..Len(macro_stacks[n]) |-> SnapshotMeaning(n, macro_stacks[n][i])]

AllMeanings ==
    {Operator, Undefined} \cup
    [kind : {"macro"}, value : Values, site : Sites \cup {Predefined},
     origin : Sites \cup {None}]

InitialMeaning ==
    [n \in Names |->
        MeaningOf(ResetMacros[n], None,
                  n \in Builtins \cup ResetQueries \/ (n = PragmaName /\ ResetPragma))]

\* The four tables and the snapshots behave as one meaning per name with a
\* stack of saved meanings per name: pop_macro brings back exactly what was
\* pushed, whatever was defined, undefined, pushed or popped in between.
Scopes == INSTANCE MacroScopes WITH
    Meanings <- AllMeanings,
    Initial <- InitialMeaning,
    meaning <- [n \in Names |-> Meaning(n)],
    saved <- [n \in Names |-> SavedMeanings(n)]

ImplementsMacroScopes == Scopes!Spec
=============================================================================
