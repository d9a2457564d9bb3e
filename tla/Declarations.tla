---------------------------- MODULE Declarations ----------------------------
(* Redeclaration at file scope and in blocks (Analyzer::declaration_with_      *)
(* definition and block_declaration_inner): linkage, composite types, tentative*)
(* definitions, inline bodies, old-style definitions, DLL storage, weak and    *)
(* noreturn promises and alignments of the declarations of a few names, and    *)
(* what the end of the translation unit makes of them.  A refused declaration  *)
(* ends the analysis.                                                          *)
EXTENDS TypeRelations, SequencesExt

CONSTANTS DeclNames,
          Units,          \* the units: [env, file, block], the declarations each may hold
          MaxDeclarations \* declarations in one unit

VARIABLES env,            \* [gnu, windows, c90, dll], fixed
          fileForms, blockForms,
          declarations,   \* unit.declarations by name
          tentative,      \* tentative_definitions
          block_externs,  \* name -> the last block declaration with linkage
          histories,      \* inline_registry: name -> History
          registered,     \* the names with inline syntax, found before the analysis
          blocks,         \* lexical scopes of the open body
          weak_symbols,
          incoming,       \* old_style_definitions: name -> parameter types or NoOld
          entities,       \* dll_registry.entities
          noreturns,      \* noreturn_registry.file
          written,        \* the declarations accepted so far: [name, defines, replaceable]
          phase           \* "file", "body", "done", "failed"

declVars == <<env, fileForms, blockForms, declarations, tentative, block_externs, histories, registered, blocks,
              weak_symbols, incoming, entities, noreturns, written, phase>>

NoKind == "none"
NoOld == <<Leaf("no", FALSE)>>
NoClass == "none"
NoAlignment == [gnu |-> 0, c11 |-> -1, effective |-> 0]     \* c11 = 0 is a written _Alignas(0)
NoDeclaration == [kind |-> NoKind, ty |-> Leaf("Void", FALSE), static |-> FALSE, tls |-> FALSE, defined |-> FALSE,
                  noreturn |-> FALSE, weak |-> FALSE, dll |-> NoClass, alignment |-> NoAlignment, owner |-> NoKind]
NoExtern == [present |-> FALSE, ty |-> Leaf("Void", FALSE), tls |-> FALSE, static |-> FALSE, noreturn |-> FALSE,
             alignment |-> NoAlignment]
NoHistory == [facts |-> <<>>, last_body |-> 0, any_inline |-> FALSE, any_gnu_inline |-> FALSE, any_extern |-> FALSE,
              any_nonextern_inline |-> FALSE, file_nonextern_inline |-> FALSE, requires_c11 |-> FALSE,
              gnu_state |-> [known |-> FALSE, inlined |-> FALSE, attribute |-> FALSE], file_declaration |-> FALSE]
NoEntity == [known |-> FALSE, class |-> NoClass, first_import |-> FALSE, later_file |-> FALSE, inline |-> FALSE, used |-> FALSE]
NewScope == [names |-> [n \in DeclNames |-> [as |-> NoKind, ty |-> Leaf("Void", FALSE), alignment |-> NoAlignment]],
             gnu_inline |-> [n \in DeclNames |-> [known |-> FALSE, inlined |-> FALSE, attribute |-> FALSE]],
             dll |-> [n \in DeclNames |-> <<>>],
             noreturns |-> {}]

ASSUME DeclAssumptions == MaxDeclarations \in Nat /\ IsFiniteSet(DeclNames)

KindOf(d) == IF d.storage = "typedef" THEN "typedef" ELSE IF IsFunction(d.ty) THEN "function" ELSE "variable"
Known(n) == declarations[n].kind # NoKind
IsDefinition(d) == d.body \/ d.init
\* An import without a written storage class is an extern declaration.
implicit_extern(d) == d.storage = "none" /\ KindOf(d) # "typedef" /\ d.dll = "import"
IsExtern(d) == d.storage = "extern" \/ implicit_extern(d)

\* Windows: a later `static` keeps the external linkage of an earlier declaration.
KeepsExternal(d) ==
    /\ env.windows /\ KindOf(d) # "typedef"
    /\ \/ Known(d.name) /\ declarations[d.name].kind = KindOf(d) /\ ~ declarations[d.name].static
       \/ block_externs[d.name].present /\ ~ block_externs[d.name].static
WrittenStatic(d) == d.storage = "static" /\ ~ KeepsExternal(d)
\* Extern declarations, and functions without storage, take the visible linkage.
InheritsLinkage(d) ==
    KindOf(d) # "typedef" /\ Known(d.name) /\ (IsExtern(d) \/ (d.storage = "none" /\ KindOf(d) = "function"))
StaticOf(d) == IF InheritsLinkage(d) THEN declarations[d.name].static ELSE WrittenStatic(d)

------------------------------------------------------------------------------
(* Alignment (object_alignment.rs).                                            *)

HasNatural(ty) == IsFunction(ty) \/ IsArray(ty) \/ complete_object(ty)
Natural(ty) == IF IsFunction(ty) THEN 1 ELSE 4
larger(a, b) == IF a >= b THEN a ELSE b
IsEmpty(a) == a = NoAlignment
Combined(a, b) ==
    [gnu |-> larger(a.gnu, b.gnu), c11 |-> larger(a.c11, b.c11), effective |-> larger(a.effective, b.effective)]
ObjectAlignment(a, natural) ==
    LET explicit == larger(a.gnu, a.c11)
        base == IF explicit > 0 THEN explicit ELSE natural
    IN IF a.effective # 0 THEN a.effective ELSE IF a.c11 > 0 THEN larger(base, natural) ELSE base

Requested(a) == [gnu |-> a.gnu, c11 |-> a.c11, effective |-> 0]
AlignmentRefused(d, ty, register) ==
    LET a == d.align requested == IF env.gnu THEN a.c11 ELSE larger(a.c11, a.gnu)
    IN a.c11 >= 0 /\ (\/ IsFunction(ty) \/ register
                      \/ /\ HasNatural(ty) /\ (env.gnu \/ complete_object(ty))
                         /\ requested < Natural(ty)
                         /\ requested > 0 \/ (~ env.gnu /\ a.gnu > 0))
check_declaration_alignment(d, ty) ==
    LET a == Requested(d.align)
        effective == ObjectAlignment(a, Natural(ty))
    IN IF IsEmpty(a) \/ ~ HasNatural(ty) THEN a
       ELSE [a EXCEPT !.effective = IF IsFunction(ty) /\ env.gnu THEN larger(effective, Natural(ty)) ELSE effective]

MergeRefused(ty, previous, new, defined, definition) ==
    /\ ~ env.gnu /\ ~ (IsEmpty(previous) /\ IsEmpty(new))
    /\ \/ /\ previous.c11 >= 0 /\ new.c11 >= 0 /\ HasNatural(ty)
          /\ ObjectAlignment(previous, Natural(ty)) # ObjectAlignment(new, Natural(ty))
       \/ definition /\ previous.c11 >= 0 /\ new.c11 < 0
       \/ defined /\ previous.c11 < 0 /\ new.c11 >= 0
merge_declaration_alignment(ty, previous, new) ==
    IF IsEmpty(previous) /\ IsEmpty(new) THEN new
    ELSE IF env.gnu /\ HasNatural(ty)
    THEN [Combined(previous, new) EXCEPT
            !.effective = larger(ObjectAlignment(previous, Natural(ty)), ObjectAlignment(new, Natural(ty)))]
    ELSE Combined(previous, new)

------------------------------------------------------------------------------
(* Inline bodies (inline.rs).                                                  *)

GnuBefore(n, file) ==
    IF file THEN histories[n].gnu_state ELSE blocks[Len(blocks)].gnu_inline[n]
\* GNU: gnu_inline is all or nothing among the inline declarations of one scope.
InlineRefused(d, file) ==
    LET previous == GnuBefore(d.name, file)
    IN env.gnu /\ d.name \in registered /\ d.inline /\ previous.known /\ previous.inlined /\ previous.attribute # d.gnu_inline
GnuInherited(n, file) ==
    LET scopes == IF file THEN {} ELSE {i \in DOMAIN blocks : blocks[i].gnu_inline[n].known}
    IN IF scopes # {} THEN blocks[CHOOSE i \in scopes : \A j \in scopes : j <= i].gnu_inline[n]
       ELSE histories[n].gnu_state
GnuState(d, file) ==
    LET inherited == GnuInherited(d.name, file)
    IN [known |-> TRUE, inlined |-> inherited.inlined \/ d.inline, attribute |-> inherited.attribute \/ (d.inline /\ d.gnu_inline)]

Facts(d, file, internal) ==
    LET h == histories[d.name]
        gnu == d.inline /\ d.gnu_inline
    IN [file |-> file, inline |-> d.inline, extern |-> (IF file THEN d.storage = "extern" ELSE IsExtern(d)), body |-> d.body, internal |-> internal,
        inlined |-> d.inline \/ (~ env.gnu /\ h.any_inline),
        gnu |-> gnu \/ (~ env.gnu /\ h.any_gnu_inline)]

\* A later body may replace an extern inline one of the GNU kind.
repeated_body(d) ==
    LET h == histories[d.name]
    IN /\ d.body /\ d.name \in registered /\ h.last_body # 0
       /\ LET previous == h.facts[h.last_body]
          IN /\ env.c90 \/ previous.gnu
             /\ env.gnu => ~ previous.internal
             /\ previous.inline /\ previous.extern
             /\ env.gnu => ~ h.file_nonextern_inline /\ ~ (d.inline /\ d.storage = "extern")

RecordOnlyBodies(d, file, internal) ==
    LET h == histories[d.name] facts == Facts(d, file, internal)
    IN [h EXCEPT !.facts = Append(@, facts),
                 !.last_body = IF d.body THEN Len(h.facts) + 1 ELSE @,
                 !.any_inline = @ \/ d.inline,
                 !.any_gnu_inline = @ \/ (d.inline /\ d.gnu_inline),
                 !.any_extern = @ \/ facts.extern,
                 !.requires_c11 = @ \/ (d.body /\ (~ d.inline \/ facts.extern)),
                 !.file_declaration = @ \/ file]
record_inline_declaration(d, file, internal) ==
    LET h == histories[d.name]
        facts == Facts(d, file, internal)
        nonextern == d.inline /\ ~ facts.extern
    IN [h EXCEPT !.facts = Append(@, facts),
                 !.last_body = IF d.body THEN Len(h.facts) + 1 ELSE @,
                 !.any_inline = @ \/ d.inline,
                 !.any_gnu_inline = @ \/ (d.inline /\ d.gnu_inline),
                 !.any_extern = @ \/ facts.extern,
                 !.any_nonextern_inline = @ \/ nonextern,
                 !.file_nonextern_inline = @ \/ (file /\ nonextern),
                 !.requires_c11 = \/ @
                                  \/ file /\ (~ d.inline \/ facts.extern)
                                  \/ env.gnu /\ ~ h.file_declaration /\ ~ d.inline,
                 !.gnu_state = IF env.gnu /\ file THEN GnuState(d, file) ELSE @,
                 !.file_declaration = @ \/ file]

ownership(n) ==
    LET h == histories[n] body == h.facts[h.last_body]
        external == IF env.c90 \/ body.gnu
                    THEN ~ body.inline \/ ~ body.extern
                         \/ (IF env.gnu THEN h.file_nonextern_inline ELSE h.any_nonextern_inline)
                    ELSE h.requires_c11
    IN CASE body.internal -> "Internal"
         [] ~ body.internal /\ env.windows /\ body.inlined /\ ~ body.gnu ->
              IF h.any_extern THEN "MicrosoftExternInline" ELSE "MicrosoftInline"
         [] OTHER -> IF external THEN "External" ELSE "InlineOnly"
\* Clang gives an explicitly weak inline body a weak definition.
with_symbol_binding(kind, weak) == IF kind = "InlineOnly" /\ ~ env.gnu /\ weak THEN "WeakInline" ELSE kind

\* GCC ignores `weak` on inline declarations, Clang a first one behind an inline body.
inline_weak_attribute(d, defined) ==
    IF ~ d.weak \/ ~ IsFunction(d.ty) THEN d.weak
    ELSE IF env.gnu THEN ~ d.inline
    ELSE LET h == histories[d.name]
         IN ~ (defined /\ d.name \in registered /\ h.last_body # 0 /\ h.facts[h.last_body].inlined)

------------------------------------------------------------------------------
(* DLL storage (dll_storage.rs).                                               *)

\* The class a redeclaration inherits: the innermost linked block declaration, then the file's.
linked_dll_storage(n) ==
    LET linked == {i \in DOMAIN blocks : blocks[i].names[n].as = "linked"}
        innermost == CHOOSE i \in linked : \A j \in linked : j <= i
    IN IF linked # {} /\ blocks[innermost].dll[n] # <<>> THEN blocks[innermost].dll[n][1]
       ELSE IF Known(n) THEN declarations[n].dll ELSE entities[n].class

DllInline(d) == IsFunction(d.ty) /\ (entities[d.name].inline \/ d.inline)
\* Attributes behind a definition are ignored.
DllAdded(d, defined) == IF defined THEN NoClass ELSE d.dll
RemovesImport(d, defined, block, tentative_) ==
    /\ linked_dll_storage(d.name) = "import" /\ DllAdded(d, defined) = NoClass
    /\ ~ defined /\ d.dll = NoClass /\ ~ block /\ ~ DllInline(d)
    /\ ~ (IsDefinition(d) \/ tentative_)
DllClass(d, defined, block, tentative_) ==
    LET prior == linked_dll_storage(d.name) added == DllAdded(d, defined)
    IN CASE prior = "export" \/ added = "export" -> "export"
         [] prior # "export" /\ added = "import" -> "import"
         [] prior = "import" /\ added = NoClass /\ ~ defined /\ d.dll = NoClass /\ ~ block /\ ~ DllInline(d) ->
              IF IsDefinition(d) \/ tentative_ THEN "export" ELSE NoClass
         [] OTHER -> prior

DllActive(d, block, external) ==
    env.dll /\ KindOf(d) # "typedef" /\ ~ (block /\ ~ external /\ d.dll = NoClass)
DllRefused(d, defined, block, tentative_, external) ==
    /\ DllActive(d, block, external)
    /\ LET class == DllClass(d, defined, block, tentative_)
       IN \/ /\ linked_dll_storage(d.name) = NoClass /\ DllAdded(d, defined) # NoClass /\ entities[d.name].used
             /\ KindOf(d) = "variable" \/ DllAdded(d, defined) = "export"
          \/ class # NoClass /\ (~ external \/ d.tls)
          \/ class = "import" /\ IsDefinition(d) /\ (KindOf(d) = "variable" \/ ~ DllInline(d))
DllEntity(d, defined, block, tentative_) ==
    LET old == entities[d.name]
        class == DllClass(d, defined, block, tentative_)
    IN [old EXCEPT !.known = TRUE,
                   !.first_import = IF RemovesImport(d, defined, block, tentative_) /\ ~ old.later_file THEN FALSE
                                    ELSE IF old.known THEN @ ELSE class = "import",
                   !.later_file = @ \/ (old.known /\ ~ block),
                   !.inline = @ \/ DllInline(d),
                   !.class = IF ~ block \/ ~ old.known THEN class ELSE @]

------------------------------------------------------------------------------
(* Weak symbols, noreturn promises.                                            *)

WeakRefused(d, weak, external, defined) ==
    weak /\ (~ external \/ (defined /\ d.name \notin weak_symbols /\ ~ env.gnu))

visible_noreturn(n) == n \in noreturns \/ \E i \in DOMAIN blocks : n \in blocks[i].noreturns
declaration_noreturn(d) ==
    IsFunction(d.ty) /\ d.storage # "typedef" /\
      (d.ty.noreturn \/ d.noreturn \/ visible_noreturn(d.name) \/ declarations[d.name].noreturn
       \/ (~ Known(d.name) /\ block_externs[d.name].noreturn))

------------------------------------------------------------------------------
(* Old-style definitions (old_style.rs).                                       *)

\* What a caller passes for a parameter declared in an identifier list.
old_style_argument_type(ty) ==
    CASE ty.kind \in {"Char", "UChar", "Bool", "SmallEnum", "Int"} -> Leaf("Int", FALSE)
      [] ty.kind = "Enum" -> Leaf("UInt", FALSE)
      [] ty.kind = "Float" -> Leaf("Double", FALSE)
      [] OTHER -> unqualified(ty)
Incoming(d) == [i \in DOMAIN d.old |-> old_style_argument_type(d.old[i])]
HasOld(d) == d.body /\ d.old # NoOld

\* The prototype an identifier-list definition must agree with.
PriorType(d) ==
    IF Known(d.name) THEN declarations[d.name].ty
    ELSE IF ~ env.gnu /\ block_externs[d.name].present THEN block_externs[d.name].ty ELSE Leaf("Void", FALSE)
AgreesWithPrototype(d) == IsFunction(PriorType(d)) /\ PriorType(d).prototype
OldStyleRefused(d) ==
    HasOld(d) /\ AgreesWithPrototype(d) /\
      (\/ Len(PriorType(d).parameters) # Len(d.old)
       \/ \E i \in DOMAIN d.old :
            LET parameter == unqualified(PriorType(d).parameters[i])
            IN ~ compatible(env, parameter, Incoming(d)[i]) /\ ~ compatible(env, parameter, unqualified(d.old[i])))
prepare_old_style_definition(d) ==
    IF HasOld(d) /\ AgreesWithPrototype(d)
    THEN [d.ty EXCEPT !.parameters = PriorType(d).parameters, !.prototype = TRUE,
                      !.variadic = PriorType(d).variadic, !.noreturn = @ \/ PriorType(d).noreturn]
    ELSE d.ty
SavedIncoming(d) ==
    IF AgreesWithPrototype(d) THEN [i \in DOMAIN PriorType(d).parameters |-> unqualified(PriorType(d).parameters[i])]
    ELSE Incoming(d)
\* A later prototype of an old-style definition takes what the definition receives.
OldStyleConflict(n, ty) ==
    /\ incoming[n] # NoOld /\ IsFunction(ty) /\ ty.prototype
    /\ \/ Len(ty.parameters) # Len(incoming[n])
       \/ \E i \in DOMAIN incoming[n] : ~ compatible(env, unqualified(ty.parameters[i]), unqualified(incoming[n][i]))

------------------------------------------------------------------------------
(* A declarator at file scope.                                                 *)

WrittenType(d) ==
    LET ty == prepare_old_style_definition(d)
    IN IF Known(d.name) THEN inherit_calling_convention(env, ty, declarations[d.name].ty) ELSE ty

\* An empty list in a definition means no parameters, in a declaration unspecified ones.
EmptyListConflict(d) ==
    LET previous == declarations[d.name] ty == WrittenType(d)
    IN /\ IsFunction(previous.ty) /\ IsFunction(ty)
       /\ \/ d.body /\ ~ HasOld(d) /\ ~ ty.prototype /\ previous.ty.parameters # <<>>
          \/ previous.defined /\ incoming[d.name] = NoOld /\ ~ previous.ty.prototype /\ ty.parameters # <<>>

\* The length an initializer gives to an array without one.
InitializedType(ty) == IF ty.kind = "Array" /\ ty.length = NoLength THEN [ty EXCEPT !.length = 2] ELSE ty

\* is_variably_modified, for the types declared here.
VariablyModified(ty) == ty.kind = "VariableArray" \/ (ty.kind = "Pointer" /\ ty.of.kind = "VariableArray")

FormRefused(d) ==
    \/ d.storage \in {"auto", "register"}
    \/ VariablyModified(d.ty)
    \/ KindOf(d) # "variable" /\ (d.tls \/ d.init)
    \/ d.body /\ KindOf(d) # "function"
    \/ KindOf(d) = "variable" /\ d.ty.kind = "Void"

ExternalAtFile(d) == ~ WrittenStatic(d) /\ ~ declarations[d.name].static
Tentative(d) == KindOf(d) = "variable" /\ ~ IsExtern(d)
InternalAtFile(d) == WrittenStatic(d) \/ (d.storage \in {"none", "extern"} /\ declarations[d.name].static)
FileWeak(d) == inline_weak_attribute(d, declarations[d.name].defined)
FileExternal(d) == KindOf(d) # "typedef" /\ ~ StaticOf(d)

RedefinesPlainly(d) == IsDefinition(d) /\ declarations[d.name].defined /\ ~ (d.inline /\ d.name \in registered)
Redefines(d) == IsDefinition(d) /\ declarations[d.name].defined /\ ~ repeated_body(d)

RedeclarationRefused(d) ==
    LET previous == declarations[d.name] ty == WrittenType(d) kind == KindOf(d)
    IN \/ kind = "typedef" /\ previous.kind = "typedef" /\ ~ same_type(env, previous.ty, ty)
       \/ kind # "typedef" /\ MergeRefused(ty, previous.alignment, check_declaration_alignment(d, ty), previous.defined,
                                           IsDefinition(d) \/ Tentative(d))
       \/ kind = "function" /\ EmptyListConflict(d)
       \/ previous.tls # d.tls
       \/ previous.kind # kind
       \/ ~ compatible(env, previous.ty, ty)
       \/ kind # "typedef" /\ (previous.static # StaticOf(d) \/ Redefines(d))
       \/ ~ TransparentMergeAllowed(previous.ty, ty, previous.defined, d.body)

BlockAlignmentJoins(d) ==
    KindOf(d) # "typedef" /\ (env.gnu \/ ~ Known(d.name)) /\ block_externs[d.name].present

FileRefused(d) ==
    LET ty == WrittenType(d)
    IN \/ FormRefused(d)
       \/ DllRefused(d, declarations[d.name].defined, FALSE, Tentative(d), ExternalAtFile(d))
       \/ KindOf(d) = "function" /\ (OldStyleRefused(d) \/ (Known(d.name) /\ OldStyleConflict(d.name, ty)) \/ InlineRefused(d, TRUE))
       \/ KindOf(d) # "typedef" /\ AlignmentRefused(d, ty, FALSE)
       \/ BlockAlignmentJoins(d) /\ MergeRefused(ty, block_externs[d.name].alignment, check_declaration_alignment(d, ty), FALSE,
                                                 IsDefinition(d) \/ Tentative(d))
       \/ Known(d.name) /\ RedeclarationRefused(d)
       \/ WeakRefused(d, FileWeak(d), FileExternal(d), declarations[d.name].defined)
       \/ d.init /\ ~ complete_object(InitializedType(d.ty))

FileAlignment(d, ty) ==
    LET own == IF KindOf(d) = "typedef" THEN NoAlignment ELSE check_declaration_alignment(d, ty)
        joined == IF BlockAlignmentJoins(d) THEN merge_declaration_alignment(ty, block_externs[d.name].alignment, own) ELSE own
    IN IF Known(d.name)
       THEN Combined(joined, merge_declaration_alignment(ty, declarations[d.name].alignment, own)) ELSE joined

CompositeForgets(d) == WrittenType(d)
\* The parameters of a definition come first: their names are its body's.
CompositeOf(d) ==
    LET ty == WrittenType(d) previous == declarations[d.name].ty
    IN IF ~ Known(d.name) THEN ty
       ELSE IF d.body THEN composite_type(FALSE, ty, previous) ELSE composite_type(FALSE, previous, ty)
Declared(d) ==
    LET external == FileExternal(d)
        class == IF DllActive(d, FALSE, ExternalAtFile(d)) THEN DllClass(d, declarations[d.name].defined, FALSE, Tentative(d)) ELSE NoClass
    IN [kind |-> KindOf(d),
        ty |-> IF d.init THEN InitializedType(CompositeOf(d)) ELSE CompositeOf(d),
        static |-> StaticOf(d), tls |-> d.tls,
        defined |-> declarations[d.name].defined \/ IsDefinition(d),
        noreturn |-> declaration_noreturn(d),
        weak |-> external /\ (FileWeak(d) \/ d.name \in weak_symbols),
        dll |-> class,
        alignment |-> FileAlignment(d, WrittenType(d)),
        owner |-> NoKind]

\* An extern inline body that only offers itself for inlining.
Replaceable(d) == d.body /\ d.inline /\ d.storage = "extern" /\ (env.c90 \/ Facts(d, TRUE, FALSE).gnu)

Count == Len(written)
Refuse ==
    /\ phase' = "failed"
    /\ UNCHANGED <<env, fileForms, blockForms, declarations, tentative, block_externs, histories, registered, blocks,
                   weak_symbols, incoming, entities, noreturns, written>>

declaration_with_definition(d) ==
    /\ phase = "file" /\ Count < MaxDeclarations
    /\ (d.inline \/ d.gnu_inline) => d.name \in registered
    /\ IF FileRefused(d) THEN Refuse
       ELSE /\ declarations' = [declarations EXCEPT ![d.name] = Declared(d)]
            /\ tentative' = IF Tentative(d) /\ ~ IsDefinition(d) THEN tentative \cup {d.name} ELSE tentative
            /\ histories' = IF KindOf(d) = "function" /\ d.name \in registered
                            THEN [histories EXCEPT ![d.name] = record_inline_declaration(d, TRUE, InternalAtFile(d))]
                            ELSE histories
            /\ weak_symbols' = IF FileWeak(d) THEN weak_symbols \cup {d.name} ELSE weak_symbols
            /\ incoming' = IF HasOld(d) THEN [incoming EXCEPT ![d.name] = SavedIncoming(d)] ELSE incoming
            /\ entities' = IF DllActive(d, FALSE, ExternalAtFile(d))
                           THEN [entities EXCEPT ![d.name] = DllEntity(d, declarations[d.name].defined, FALSE, Tentative(d))]
                           ELSE entities
            /\ noreturns' = IF declaration_noreturn(d) THEN noreturns \cup {d.name} ELSE noreturns
            /\ written' = Append(written, [name |-> d.name, defines |-> IsDefinition(d), replaceable |-> Replaceable(d)])
            /\ phase' = IF d.body THEN "body" ELSE "file"
            /\ blocks' = IF d.body THEN <<NewScope>> ELSE <<>>
            /\ UNCHANGED <<env, fileForms, blockForms, block_externs, registered>>

------------------------------------------------------------------------------
(* A declarator in a block.                                                    *)

Top == blocks[Len(blocks)]
Linked(d) == d.storage # "typedef" /\ (IsFunction(d.ty) \/ IsExtern(d))
\* previous_file: only declarations with linkage look at the file scope.
FilePrevious(d) == IF Linked(d) THEN declarations[d.name] ELSE NoDeclaration
ExternalInBlock(d) ==
    Linked(d) /\ d.storage # "static" /\ ~ FilePrevious(d).static /\ ~ block_externs[d.name].static
BlockWeak(d) == inline_weak_attribute(d, d.weak /\ declarations[d.name].defined)
BlockWeakExternal(d) == Linked(d) /\ d.storage # "static" /\ (d.weak => ~ declarations[d.name].static)

BlockFormRefused(d) ==
    \/ d.tls /\ (d.storage = "none" \/ KindOf(d) # "variable")
    \/ d.loop /\ (d.storage \in {"extern", "static", "typedef"} \/ IsExtern(d) \/ KindOf(d) = "function")
    \/ VariablyModified(d.ty) /\ Linked(d)
    \/ d.ty.kind = "VariableArray" /\ (d.storage = "static" \/ d.tls)
    \/ KindOf(d) = "function" /\ d.storage \notin {"none", "extern"}
    \/ KindOf(d) = "variable" /\ d.ty.kind = "Void"

BlockWrittenType(d) ==
    IF KindOf(d) # "function" THEN d.ty
    ELSE IF block_externs[d.name].present THEN inherit_calling_convention(env, d.ty, block_externs[d.name].ty)
    ELSE IF Known(d.name) THEN inherit_calling_convention(env, d.ty, declarations[d.name].ty) ELSE d.ty

\* The scopes that declare a name, innermost first decides.
Declaring(n) == {i \in DOMAIN blocks : blocks[i].names[n].as # NoKind}
Innermost(scopes) == CHOOSE i \in scopes : \A j \in scopes : j <= i
visible_linked_alignment(n) ==
    LET linked == {i \in DOMAIN blocks : blocks[i].names[n].as = "linked"}
    IN IF linked # {} THEN <<blocks[Innermost(linked)].names[n].alignment>>
       ELSE IF declarations[n].kind \in {"function", "variable"} THEN <<declarations[n].alignment>>
       ELSE IF block_externs[n].present THEN <<block_externs[n].alignment>> ELSE <<>>

LinkedRefused(d, ty) ==
    LET previous == FilePrevious(d) block == block_externs[d.name] visible == visible_linked_alignment(d.name)
    IN \/ visible # <<>> /\ MergeRefused(ty, visible[1], check_declaration_alignment(d, ty), previous.defined, FALSE)
       \/ d.init
       \/ block.present /\ (~ compatible(env, block.ty, ty) \/ block.tls # d.tls)
       \/ previous.kind \in {"function", "variable"} /\ (~ compatible(env, previous.ty, ty) \/ previous.tls # d.tls)

\* A repeated declaration in one block: a linked one, or the same typedef.
JoinsLinked(d) == Linked(d) /\ Top.names[d.name].as = "linked" /\ compatible(env, Top.names[d.name].ty, BlockWrittenType(d))
JoinsTypedef(d) ==
    d.storage = "typedef" /\ Top.names[d.name].as = "typedef" /\ ~ VariablyModified(d.ty) /\ same_type(env, Top.names[d.name].ty, d.ty)

BlockRefused(d) ==
    LET ty == BlockWrittenType(d)
    IN \/ BlockFormRefused(d)
       \/ DllRefused(d, FilePrevious(d).defined, TRUE, FALSE, ExternalInBlock(d))
       \/ WeakRefused(d, BlockWeak(d), BlockWeakExternal(d), d.weak /\ declarations[d.name].defined)
       \/ d.storage = "typedef" /\ (d.init \/ (Top.names[d.name].as # NoKind /\ ~ JoinsTypedef(d)))
       \/ d.storage # "typedef" /\ (AlignmentRefused(d, ty, d.storage = "register") \/ (Top.names[d.name].as # NoKind /\ ~ JoinsLinked(d)))
       \/ KindOf(d) = "function" /\ (InlineRefused(d, FALSE) \/ (Known(d.name) /\ OldStyleConflict(d.name, ty)))
       \/ Linked(d) /\ LinkedRefused(d, ty)
       \/ KindOf(d) = "variable" /\ ~ Linked(d)
            /\ ~ complete_object(IF d.init THEN InitializedType(d.ty) ELSE d.ty)

\* Promises on types join a block declaration to the visible one.
VisibleComposite(d, ty) ==
    LET scopes == Declaring(d.name)
        visible == IF scopes # {} THEN IF blocks[Innermost(scopes)].names[d.name].as = "typedef" THEN <<>>
                                       ELSE <<blocks[Innermost(scopes)].names[d.name].ty>>
                   ELSE IF FilePrevious(d).kind # NoKind THEN <<FilePrevious(d).ty>> ELSE <<>>
    IN IF env.promises /\ visible # <<>> /\ compatible(env, visible[1], ty) THEN composite_type(FALSE, ty, visible[1]) ELSE ty

BlockAlignment(d, ty) ==
    LET own == check_declaration_alignment(d, ty) visible == visible_linked_alignment(d.name)
    IN IF Linked(d) /\ visible # <<>> THEN merge_declaration_alignment(ty, visible[1], own) ELSE own
InternalInBlock(d) == FilePrevious(d).kind \in {"function", "variable"} /\ FilePrevious(d).static

NewExtern(d, ty) ==
    LET block == block_externs[d.name] noreturn == declaration_noreturn(d)
    IN [present |-> TRUE, ty |-> IF JoinsLinked(d) THEN composite_type(FALSE, Top.names[d.name].ty, ty) ELSE ty,
        tls |-> d.tls, static |-> InternalInBlock(d),
        noreturn |-> IF env.gnu THEN noreturn
                     ELSE IF block.present THEN block.noreturn
                     ELSE IF Known(d.name) THEN declarations[d.name].noreturn ELSE noreturn,
        alignment |-> IF ~ env.gnu /\ block.present THEN block.alignment ELSE BlockAlignment(d, ty)]

Bound(d, ty) ==
    LET top == Top.names[d.name]
    IN [as |-> IF d.storage = "typedef" THEN "typedef" ELSE IF Linked(d) THEN "linked" ELSE "object",
        ty |-> IF JoinsLinked(d) \/ JoinsTypedef(d) THEN composite_type(FALSE, top.ty, ty)
               ELSE IF d.init THEN InitializedType(ty) ELSE ty,
        alignment |-> IF d.storage = "typedef" THEN NoAlignment ELSE BlockAlignment(d, ty)]

block_declaration(d) ==
    LET ty == IF Linked(d) THEN VisibleComposite(d, BlockWrittenType(d)) ELSE d.ty
        noreturn == declaration_noreturn(d)
        dll == DllActive(d, TRUE, ExternalInBlock(d))
        n == d.name
        file == [declarations[n] EXCEPT !.noreturn = @ \/ (noreturn /\ env.gnu),
                                        !.weak = @ \/ BlockWeak(d),
                                        !.alignment = IF Linked(d) /\ env.gnu THEN BlockAlignment(d, BlockWrittenType(d)) ELSE @]
    IN /\ phase = "body" /\ Count < MaxDeclarations
       /\ (d.inline \/ d.gnu_inline) => n \in registered
       /\ IF BlockRefused(d) THEN Refuse
          ELSE /\ declarations' = IF Known(n) THEN [declarations EXCEPT ![n] = file] ELSE declarations
               /\ block_externs' = IF Linked(d) THEN [block_externs EXCEPT ![n] = NewExtern(d, ty)] ELSE block_externs
               /\ histories' = IF KindOf(d) = "function" /\ n \in registered
                               THEN [histories EXCEPT ![n] = record_inline_declaration(d, FALSE, InternalInBlock(d))] ELSE histories
               /\ weak_symbols' = IF BlockWeak(d) THEN weak_symbols \cup {n} ELSE weak_symbols
               /\ entities' = IF dll THEN [entities EXCEPT ![n] = DllEntity(d, FilePrevious(d).defined, TRUE, FALSE)] ELSE entities
               /\ noreturns' = IF noreturn /\ env.gnu THEN noreturns \cup {n} ELSE noreturns
               /\ blocks' = [blocks EXCEPT ![Len(blocks)] =
                    [@ EXCEPT !.names[n] = Bound(d, ty),
                              !.gnu_inline[n] = IF KindOf(d) = "function" /\ n \in registered /\ env.gnu THEN GnuState(d, FALSE) ELSE @,
                              !.dll[n] = IF dll THEN <<DllClass(d, FilePrevious(d).defined, TRUE, FALSE)>> ELSE @,
                              !.noreturns = IF noreturn /\ ~ env.gnu THEN @ \cup {n} ELSE @]]
               /\ written' = Append(written, [name |-> n, defines |-> FALSE, replaceable |-> FALSE])
               /\ UNCHANGED <<env, fileForms, blockForms, tentative, registered, incoming, phase>>

\* The body of some other function.
OtherBody ==
    /\ phase = "file" /\ Count < MaxDeclarations
    /\ phase' = "body" /\ blocks' = <<NewScope>>
    /\ UNCHANGED <<env, fileForms, blockForms, declarations, tentative, block_externs, histories, registered, weak_symbols, incoming,
                   entities, noreturns, written>>

EnterBlock ==
    /\ phase = "body" /\ Len(blocks) < 2 /\ Count < MaxDeclarations
    /\ blocks' = Append(blocks, NewScope)
    /\ UNCHANGED <<env, fileForms, blockForms, declarations, tentative, block_externs, histories, registered, weak_symbols, incoming,
                   entities, noreturns, written, phase>>

\* Leaving a scope drops its names and its lexical promises.
leave_block ==
    /\ phase = "body"
    /\ blocks' = Front(blocks)
    /\ phase' = IF Len(blocks) = 1 THEN "file" ELSE "body"
    /\ UNCHANGED <<env, fileForms, blockForms, declarations, tentative, block_externs, histories, registered, weak_symbols, incoming,
                   entities, noreturns, written>>

\* An expression in a body names a declaration.
record_dll_use(n) ==
    /\ phase = "body" /\ env.dll /\ entities[n].known /\ ~ entities[n].used
    /\ Declaring(n) # {} => blocks[Innermost(Declaring(n))].names[n].as = "linked"
    /\ entities' = [entities EXCEPT ![n].used = TRUE]
    /\ UNCHANGED <<env, fileForms, blockForms, declarations, tentative, block_externs, histories, registered, blocks, weak_symbols,
                   incoming, noreturns, written, phase>>

------------------------------------------------------------------------------
(* The end of the unit.                                                        *)

CompletedType(ty) == IF ty.kind = "Array" /\ ty.length = NoLength THEN [ty EXCEPT !.length = 1] ELSE ty
Completed(n) ==
    IF n \in tentative /\ ~ declarations[n].defined
    THEN [declarations[n] EXCEPT !.ty = CompletedType(@), !.defined = TRUE] ELSE declarations[n]

\* validate_block_externs against the last block declaration of each name.
BlockExternsAgree ==
    \A n \in DeclNames :
        LET block == block_externs[n] final == Completed(n)
        IN (block.present /\ final.kind # NoKind) =>
             /\ ~ OldStyleConflict(n, block.ty)
             /\ final.kind # "typedef" => /\ compatible(env, block.ty, final.ty)
                                          /\ block.tls = final.tls /\ block.static = final.static
OwnerKeepsBody(n) ==
    IF ~ declarations[n].defined THEN NoKind
    ELSE IF n \in registered /\ histories[n].last_body # 0 THEN ownership(n) ELSE IF declarations[n].static THEN "Internal" ELSE "External"
Owner(n) ==
    LET final == Completed(n)
        plain == IF final.static THEN "Internal" ELSE "External"
        kind == IF n \in registered /\ histories[n].file_declaration /\ histories[n].last_body # 0
                THEN with_symbol_binding(ownership(n), final.weak) ELSE plain
    IN IF final.kind # "function" \/ ~ final.defined THEN NoKind
       ELSE IF env.dll /\ final.dll = "import" THEN with_symbol_binding("InlineOnly", final.weak) ELSE kind

analyze_end ==
    /\ phase = "file" /\ written # <<>>
    /\ \A n \in registered : histories[n].any_inline
    /\ IF (\E n \in tentative : ~ declarations[n].defined /\ ~ complete_object(CompletedType(declarations[n].ty)))
          \/ ~ BlockExternsAgree
       THEN Refuse
       ELSE /\ phase' = "done"
            /\ declarations' = [n \in DeclNames |-> [Completed(n) EXCEPT !.owner = Owner(n)]]
            /\ UNCHANGED <<env, fileForms, blockForms, tentative, block_externs, histories, registered, blocks, weak_symbols, incoming,
                           entities, noreturns, written>>

DeclInit ==
    /\ \E unit \in Units : env = unit.env /\ fileForms = unit.file /\ blockForms = unit.block
    /\ declarations = [n \in DeclNames |-> NoDeclaration]
    /\ tentative = {} /\ block_externs = [n \in DeclNames |-> NoExtern]
    /\ histories = [n \in DeclNames |-> NoHistory] /\ registered \in SUBSET DeclNames
    /\ blocks = <<>> /\ weak_symbols = {} /\ incoming = [n \in DeclNames |-> NoOld]
    /\ entities = [n \in DeclNames |-> NoEntity] /\ noreturns = {} /\ written = <<>> /\ phase = "file"

DeclNext ==
    \/ \E d \in fileForms : declaration_with_definition(d)
    \/ \E d \in blockForms : block_declaration(d)
    \/ \E n \in DeclNames : record_dll_use(n)
    \/ OtherBody \/ EnterBlock \/ leave_block \/ analyze_end

DeclSpec == DeclInit /\ [][DeclNext]_declVars

------------------------------------------------------------------------------
(* Properties.                                                                 *)

\* The kind of definition a body gives, read off all the declarations of the name
\* (C11 6.7.4, GNU inline, Microsoft), where the code folds them into flags.
Declarations_(n) == {histories[n].facts[i] : i \in DOMAIN histories[n].facts}
BeforeFile(n) ==
    {histories[n].facts[i] : i \in {j \in DOMAIN histories[n].facts : \A k \in 1..j : ~ histories[n].facts[k].file}}
ReferenceOwner(n) ==
    LET all == Declarations_(n) body == histories[n].facts[histories[n].last_body]
        inFile == {f \in all : f.file}
        offers == {f \in (IF env.gnu THEN inFile ELSE all) : f.inline /\ ~ f.extern}
        inlineOnly == IF env.c90 \/ body.gnu THEN body.inline /\ body.extern /\ offers = {}
                      ELSE /\ \A f \in inFile : f.inline /\ ~ f.extern
                           /\ env.gnu => \A f \in BeforeFile(n) : f.inline
    IN IF declarations[n].static THEN "Internal"
       ELSE IF env.windows /\ body.inlined /\ ~ body.gnu
       THEN IF \E f \in all : f.extern THEN "MicrosoftExternInline" ELSE "MicrosoftInline"
       ELSE IF inlineOnly THEN with_symbol_binding("InlineOnly", declarations[n].weak) ELSE "External"

\* Whatever the order of declarations with and without inline and extern, in files and in
\* blocks, the last body owns the definition the rules give it over all of them.
InlineOwnershipExact ==
    phase = "done" => \A n \in registered :
        (declarations[n].kind = "function" /\ declarations[n].defined /\ declarations[n].dll # "import")
          => declarations[n].owner = ReferenceOwner(n)

\* Of the accepted definitions of a name at most one can own its symbol: every earlier one
\* is an extern inline body that only offers itself for inlining.
DefinedOnce ==
    \A i, j \in DOMAIN written :
        (i < j /\ written[i].name = written[j].name /\ written[i].defines /\ written[j].defines) => written[i].replaceable

\* A redeclaration never takes back what is known of a declaration: its linkage, storage and
\* kind, its definition, the length of its array, its parameters.
DeclarationsKeepFacts ==
    [][\A n \in DeclNames :
         Known(n) => LET old == declarations[n] new == declarations[n]'
                     IN /\ <<new.kind, new.static, new.tls>> = <<old.kind, old.static, old.tls>>
                        /\ compatible(env, old.ty, new.ty)
                        /\ old.defined => new.defined
                        /\ (old.ty.kind = "Array" /\ old.ty.length # NoLength) => new.ty.length = old.ty.length
                        /\ (IsFunction(old.ty) /\ old.ty.prototype) => new.ty.prototype
                        /\ old.noreturn => new.noreturn]_declVars

\* Storage promised by different declarations of one name is consistent: DLL storage and weak
\* symbols are external, an imported function owns no definition, and a prototype takes the
\* arguments its old-style definition receives.
StorageConsistent ==
    \A n \in DeclNames :
        LET d == declarations[n]
        IN /\ d.dll # NoClass => ~ d.static /\ ~ d.tls /\ d.kind # "typedef"
           /\ d.weak => ~ d.static
           /\ d.dll = "import" => d.owner \in {NoKind, "InlineOnly", "WeakInline"}
           /\ (phase = "done" /\ d.kind = "function" /\ d.defined) => (d.owner = "Internal") = d.static
           /\ (incoming[n] # NoOld /\ d.ty.prototype) => Len(d.ty.parameters) = Len(incoming[n])
==============================================================================
