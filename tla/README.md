# Toucan: verification models

Toucan is a C frontend and binding generator in Rust: it preprocesses, parses
and analyzes C headers and emits Rust declarations. This directory holds TLA+
models of the parts of it that keep state over many steps, TLC configurations
that check them on small instances, and TLAPS proofs of the central invariants
for all instances. Paths below are relative to `src/crates/`.

    cd tla
    tlc -workers 2 -config MCMacroTable.cfg MCMacroTable    # one run
    tlapm MacroTableProofs.tla                              # one module of proofs

`PROJECT.json` lists components, runs, mutants, the map from definitions to
source lines, hazards, findings and theorems.

## 1. Inventory

The frontend is a pipeline of crates (`docs/architecture.md`). A public call
runs on one thread: preprocess, parse, analyze, emit. The only concurrency is
the formatter's child process with its writer thread, and the worker stack of
`toucan_stack`, which the caller joins. What is hard to test is therefore mostly
*long sequences of legal steps on shared tables*: state changed by one construct
and undone much later, error paths that leave through many activations, limits
met in the middle of an operation, and one object used for consecutive inputs.

| Component | State | Operations | Hard behaviour |
| --- | --- | --- | --- |
| `toucan_preprocessor` macro environment | `macros`, `macro_stacks` with their bytes, `active_queries`, `ms_pragma_active`, origins, recorded definitions | `#define`, `#undef`, `push_macro`, `pop_macro`, `reset` | one meaning spread over four tables; snapshots restored long after; byte limits between two updates |
| `toucan_preprocessor` driver | include stack, `once_files`, hard-link identities, conditional groups, system flag, pending text, output and its mappings | entry points, directives, pragmas, `flush`, markers | reuse after failure, text that waits while macros change, error unwinding, limits, recursion without guards |
| `toucan_preprocessor` expansion | token stream, hide sets, `depth`, `__COUNTER__`, pragma stops | `expand`, `expand_until_pragma`, `substitute` | nested activations, partial expansion up to a pragma, recursion of macros |
| `#if` evaluator | position, evaluation flag | `binary`, `unary`, `primary` | operands that are parsed and typed but not evaluated, overflow |
| comment catalogue | comments with barriers, token origins, system regions | recording per source, attachment per declaration | one comment, several candidates; barriers reused |
| `toucan_parser` budget | work, backtracking, depth, first failure | `check`, `work`, `step`, `enter`, `leave`, `node` | 64-bit counters, a failure some callers ignore |
| `toucan_parser` recursive descent | position, `Env` scopes, retained parameter scopes | one function per rule | typedef names steer the grammar, scopes saved for a body, syntax errors through nested scopes |
| `toucan_semantic` scopes | `tags`, `unit.constants`, `lexical_scopes` with undo logs, captured `FunctionScope` | `record`, `enum_type`, `bind_tag`, `bind_local`, `check_parameter`, `leave_prototype`, `function_definition` | flat tables with logs, a scope that is left and opened again, bodies inside bodies |
| `toucan_semantic` declarations and types | declarations, typedefs, tentative definitions | composition of redeclarations, specifiers, declarators | order of declarations, linkage, block externs |
| `toucan_semantic` statements | labels, gotos, switch cases, scopes of variably modified types | one function per statement | jumps into scopes, overlapping case ranges |
| `toucan_semantic` expressions, initializers | retained graph, initializer cursor | checks and constant evaluation | integer widths, designators |
| `toucan_layout`, `toucan_target` | none (pure functions, tables) | record layout, data models | bit-fields, packing |
| `toucan_bindings` | selection, memo tables, work budget | selection closure, derives, aliases, emission | cyclic types, limits |
| `toucan_bindgen` | options, macro values; child process and pipes | builder, macro evaluation, `format` | two pipes, three parties, any order |
| `toucan`, `toucan_cli`, `toucan_stack` | compilation, output files, worker | pipeline, output, worker reuse | partial output, panics |

`toucan_benchmark`, `toucan_test_support`, `fuzz/`, `scripts/`, `tools/`,
`corpus/` are measurements, tests and data and are not modelled.

How they interact. The driver owns the macro environment and calls expansion
from `flush` and from conditions; a pragma found by expansion changes the
environment the rest of the text is expanded in. The parser receives the output
text and keeps typedef names by itself (`Env`); the analyzer receives the tree and
has its own scopes. Bindings read the analyzed unit. The formatter is called last.

What makes each part correct:

* macro environment: a name never has two meanings, and a pop brings back
  exactly what the push saw;
* driver: at most one branch of a group is active; every byte of output is mapped;
  text is expanded in the environment of its line; a once-only file is read once
  under all its names; nothing survives from a failed input; every input ends;
* expansion: the result is that of the C algorithm, and the limits are not what
  ends recursion;
* parser: a text that is accepted is complete and within limits, a body sees
  exactly its parameters, every rule gives back what it took;
* scopes: the flat tables behave like a stack of scopes;
* function bodies: a jump enters no scope that C closes to it, cases of a switch are
  disjoint, a fallthrough annotation reaches a label of its switch;
* checked graph: every name resolves as C scopes it, and every bound is evaluated when C
  evaluates it;
* declarations: the meaning of a name does not depend on which of its declarations said
  it; an inline body is emitted exactly when it is the external definition;
* types, layout and constants: three separate computations (completeness, alignment,
  layout; checker and evaluator; C record and Rust record) agree with each other and with C;
* initializers and expressions: what is accepted does what C says it does;
* bindings: everything reachable is emitted once, complete, and with traits that hold;
* command: files hold the whole output or the exit status says otherwise;
* formatter: no deadlock, and no truncated output reported as formatted.

## 2. Modules

| Module | Models | Uses |
| --- | --- | --- |
| `MacroTable` | macro environment of `toucan_preprocessor/src/lib.rs` | |
| `MacroScopes` | what it promises: per name a stack of meanings | |
| `MacroTableProofs` | invariant, byte count and refinement | `MacroTable` |
| `Preprocessor` | the driver | extends `MacroTable` |
| `PreprocessorProofs` | invariant of the driver and its three properties | `Preprocessor` |
| `ConditionExpressions` | `toucan_preprocessor/src/expression.rs` | |
| `DocComments` | `documentation.rs` of the preprocessor and of `toucan_bindgen` | |
| `MacroExpansion` | `expand.rs` with the loop of `flush` | |
| `ParserSession` | `parser/*.rs`, `env.rs`, `driver.rs`, and `limits.rs` as operators on a budget record | |
| `ParserSessionProofs` | invariant of a parse and its properties | `ParserSession` |
| `TagDiscoveries` | `toucan_semantic/src/tag_discovery.rs` | |
| `LexicalScopes` | scopes of `toucan_semantic` (`analyze.rs`, `statement.rs`, `old_style.rs`) | |
| `ScopeStack` | what it promises: a stack of tables | |
| `LexicalScopesProofs` | invariant, refinement and the scopes of bodies | `LexicalScopes` |
| `FunctionBody` | statements of one body (`statement.rs`) | |
| `FunctionBodyProofs` | invariant of a body and the labels of its switches | `FunctionBody` |
| `CheckedGraph` | the retained graph (`checked.rs`, `checked/references.rs`) | |
| `CheckedBounds` | run-time bounds and typeof operands (`checked/bounds.rs`, `checked/expression.rs`, `checked/ownership.rs`, `checked/query.rs`) | |
| `ObjectExtent` | `object_extent.rs` | |
| `FunctionTargets` | `target_features.rs`, `arm.rs` | |
| `TypeRelations` | identity, compatibility, composition of types (`analyze.rs`, `noescape.rs`, `transparent_union.rs`) | |
| `Declarations` | redeclaration, linkage, inline, DLL storage (`analyze.rs`, `statement.rs`, `inline.rs`, `dll_storage.rs`, ...) | extends `TypeRelations` |
| `DeclaredTypes` | specifiers, declarators, pack pragmas (`analyze.rs`) | |
| `ExpressionTypes` | `expression.rs` | extends `TypeRelations` |
| `Initializers` | `initializer.rs`, `checked/initializer.rs` | |
| `IntegerConstants` | `integer.rs`, `enums.rs`, `ir.rs` | |
| `LayoutRules`, `RecordLayout` | `toucan_layout`, enum lowering of `toucan_target`, the Rust record of a C record (`toucan_bindings/src/lib.rs`) | `RecordLayout` extends `LayoutRules` |
| `TypeTable` | type graph and record definitions (`ir.rs`, `analyze.rs`) | extends `LayoutRules` |
| `Bindings` | collection, checks, derives, emission (`toucan_bindings`) | |
| `Selection` | `toucan_bindgen/src/selection.rs`, `objects.rs` | |
| `MacroValues` | `macro_values.rs`, `macro_compat.rs`, `macro_projection.rs` | |
| `FrontendConfig` | `arguments.rs`, `main.rs`, `definitions.rs`, `profile.rs` | |
| `FrontendRun` | `toucan_stack`, `toucan`, `toucan_cli`, `toucan_bindgen/src/lib.rs` | |
| `FrontendRunProofs` | invariant of a command and its properties | `FrontendRun` |
| `RustfmtPipe` | `toucan_bindgen/src/formatting.rs` | |
| `BindgenProofs` | invariants of the formatter's parties and of a selection | `RustfmtPipe`, `Selection` |
| `MC*` | instances for TLC | see the runs |

Parts that share no state are checked in one run: the MC module has a variable `part`
that says which machine moves, the others rest in one state. Such a run asks one
question per part; nothing is composed that the code does not compose. Modules that do
interact extend each other: the driver acts on the macro table, records are laid out
by the rules the type graph also uses, and the Rust record is computed from the layout.

### RustfmtPipe

Calling thread, writer thread, child and two bounded pipes. Each blocking call of
the parent (`write_all`, draining stdout, `wait`, `join`) is a location of `main` or
`writer`; a step moves some bytes or returns. The child is external: it reads,
writes, closes its ends and exits in any order, but while blocked in a write it does
nothing else. Spawning the child or the thread may fail. Bytes are counted only.

### MacroTable and MacroScopes

`Define`, `DefineUnrecorded` (the record fails on its byte limit after the table
has changed), `Undef`, `push_macro`, `pop_macro` and their rejections act on the four
tables. A definition is its replacement and its site; the site is what the
separately kept origin has to name. `MacroScopes` knows only a current meaning and
a stack of meanings per name; `MacroTable` implements it with the meaning computed
from the tables.

### Preprocessor

`source_inner` calls itself through `file`, so activations are records of `frames`.
One action stands for one directive, one line of text, one part of a flush, one
return or one error. A source has no fixed contents: reading a line returns any line
of the job, so two reads of a file may differ, as they may on a real file system.
An error unwinds frame by frame, with the restoration the code does on the way.
Entry points are jobs, and a run may process several in turn on one Preprocessor.

Abstracted: a line is one byte and is already lexed; a condition has either value,
which may also be an error (`ConditionExpressions` says which); include resolution gives
a path or none; expansion replaces a name by the tokens of its value. Left out:
`__has_include`, `#include_next`; comments are `DocComments`.

### MacroExpansion and its reference

The stack holds the activations of `expand_inner`, argument prescans and
`substitute`; a step handles one token of one of them. The reference in
`MCMacroExpansion` is Prosser's algorithm over the whole text: hide sets, arguments expanded alone, `#`
and `##` on raw arguments. It knows nothing of activations, stretches or limits.
Left out: whitespace, locations, attribute queries with namespaces, builtins without
state and the mode for conditions.

### ParserSession

Activations of rules are frames with a program counter; a step consumes a token,
enters or leaves a rule or tries an alternative, with its charges to the budget. The
environment holds the scopes of `Env` and those retained while a declarator may
become a definition. A syntax error or a failed budget unwinds all rules.
Abstracted: a token is one byte, one token per kind the parser tells apart, `attr` a
whole attribute; measuring a node succeeds or fails. The grammar is that of GNU and
Clang modes. Left out: bit-fields, static assertions, asm, initializer lists,
compound literals, the conditional operator, statistics.

### LexicalScopes and ScopeStack

State: the flat tables `tags` and `constants`, names of the file, the types with
kind, scope and completeness, the open scopes with their undo logs, the record and
enum bodies being analyzed, and the captured scope of a definition. A mention of a
tag, a body's beginning and end, an enumerator, a parameter or local, a file
declaration, entering and leaving scopes, and the two halves of
`function_definition` are actions; they come in any order the grammar allows, so a
body may hold prototypes and those may hold bodies. A log is kept per name: entries of different
names commute. `entered` and `own` are history. An error drops the analyzer. Left
out: unnamed parameters, order of K&R declarations, retained (checked) scopes and
tag discovery, and everything a type has besides kind, scope and completeness.

### FunctionBody

State: `FunctionContext` (loops, switches with their ranges, labels, gotos, pending
annotations, parents of statement expressions), the number of the variably modified
declaration of each open scope, and the parents of those numbers. An activation of
the checker is a frame; the tree is chosen during the walk, any of the job's kinds
wherever a statement, declaration or operand is due, up to its size. Loops evaluate their
condition inside or outside `with_loop` by profile, and C90 opens no scope for control
statements, as in the code. `live` and `inside` are history: what is really in scope,
against which the properties compare the numbers the code keeps. A statement expression
is entered once, because its result is kept. Left out: types of expressions, the
nesting limit; the retained graph is `CheckedGraph`.

### CheckedGraph

A program is the sequence of calls the checker makes on the `Builder`, each with the
way its node reaches it: the parser's own node, a copy, one of two nodes with the same
span, a node in an attribute, or an inserted one. Actions are the calls: entering,
reusing and leaving scopes, sites of declarations and tags, names, and `finish`. The
charges of a call are added at once, because a call fails exactly when its total passes
a limit. Properties compare with brackets of the program: a name means the innermost
earlier declaration that is visible, scopes list the sites declared in them, and what is
retained was charged.

### CheckedBounds

Expressions are trees; checking is a stack of tasks; the two arenas (bounds, typeof
operands) grow as types are checked. `finish_bound_context` and its callers change the
suffix of an arena that began with an expression. The reference walks the finished tree
and says whether C evaluates the bound, and which bound a path of a derived type names.

### ObjectExtent

Wrappers around a base (address, member, index, arithmetic, decay, cast, comma,
conditional) are applied in the order they unwind. The reference evaluates the pointer over
concrete objects. The claim about whole objects is made for every expression, the one about subobjects
for expressions without casts whose every step stays in an object the declaration has.

### FunctionTargets

Declarations, definitions and bodies as a sequence of items. Options are gathered per
entity, lexically in blocks for Clang; feature uses stay pending until the end of the
unit; a branch that is never taken drops those since its checkpoint unless a label
counted since then. The reference reads the whole sequence.

### TypeRelations and Declarations

Types are trees; typedefs are resolved (their resolution is in `TypeTable`). A unit
chooses, declaration by declaration, any of its forms at file scope or in nested blocks of a
body; a refused one ends the analysis. `analyze_end` decides inline owners and tentative
definitions. The reference for owners reads all declarations accepted (`written` and
`histories` are what it needs). `DeclarationsKeepFacts` is an action property: no later
declaration takes back a type, storage or promise.

A known difference that no property here states: `statement.rs:1138` inserts into
`block_externs` with each block declaration, so of two block declarations of one name only the
last is compared by `validate_block_externs` (1388-1408) with a later file declaration.
A first declaration that inherited internal linkage can thus be forgotten.

### DeclaredTypes

Words of a specifier list are read one at a time into the flags of `base_type`; a
declarator is a nested list of layers, read from the outside in with attributes prepared in source
order; a source is a list of pack pragmas. The specifiers are compared with C11's multisets
over all sequences of bounded length; mixes of `__int64` with `long`, of `__int16` with `short`
and repeated Microsoft specifiers are excluded: no standard says what they mean.

### ExpressionTypes

The checker's rules are operators on trees; a step runs an accepted expression
statement on the objects of its program. If a const object ever changes, a pointer points at
an object of another type, or a value has another type than the checker said, a
property fails. Programs contain no pointer casts and no conversion of `void *` to a typed
pointer, with which C itself gives this up. Vectors, complex, scalable and 32-bit
pointer types are left out.

### Initializers

A list is read item by item; nested lists are frames. The reference orders the leaves of
the object, knows that a union has one member at a time, and says which leaf follows. Retained
paths are those of `checked/initializer.rs`. Left out: string literals for arrays, vectors.

The second half of the module folds address expressions over strong, weak, imported and thread-local
symbols; every placement of the symbols (weak ones absent too) must agree with
the folded value, and what is accepted must be a number or one symbol and an offset.

### IntegerConstants

One recursion over the tree (`judge`) yields the value, the checker's type, whether it is
a constant expression, and the offset of a null-based address, which in the code are four
functions calling each other. Widths are scaled and keep their order. The profiles have three data models:
LP64, LLP64 (Windows) and ILP32 (i686, ARMv7), which has a `size_t` of int's rank and width, no `__int128`
and no enumeration beyond 64 bits; the reference takes `size_t` from a table. Enumerations are built enumerator by enumerator, and earlier
ones are names for later ones; one is refused at its brace exactly when no type of the target holds its numbers.
The reference computes with unbounded integers.

### LayoutRules, RecordLayout, TypeTable

A record is laid out field by field by the builder of its target; sizes are checked
against `SizeLimit` where the code checks for overflow. A finished record may be a field of
the next one. `TypeTable` builds types one at a time over a graph of typedefs and
records, and completes records member by member. The last section of `RecordLayout` computes the members,
paddings and bit-field storage of the Rust record and lays it out by Rust's rules (external).
The comparison leaves out two shapes for which it does not hold: records of Microsoft targets that
have no storage (`StorelessMicrosoft`: C gives them bytes the Rust form lacks) and packed records
whose alignment a bit-field raised above the packing (`RaisedAbovePack`: `packed(n)` cannot express
it). For both the layout assertions in the generated code fail to compile, so the difference is
not silent. Members are restricted to scalar types and bit-fields (`PlainMembers`).

### ConditionExpressions and DocComments

The evaluator is a recursive operator over tokens with the flag `evaluate`. Tokens come from
trees, so that the reference is the meaning of the tree; some are spoilt. Words have
4 bits for 64. `DocComments`: a source is a sequence of atoms (comments of each kind, line ends, code,
names, markers), recorded in one pass, and attached to declarations in another.

### TagDiscoveries

The scan is a stack of tasks over the syntax, with the owner record or enum and the
flags of `tag_discovery.rs`; `discover` follows records. The reference collects all sights of a
tag and orders them.

### Bindings, Selection and MacroValues

`Bindings`: phases of `emit`, with the queue of `collect` and its uses by value or behind a pointer, the
upgrade of an alias that needs its layout, checks, derived traits and the emitted items. A text is
the set of names it mentions. The output is well formed when each mentioned name is
defined once and aliases end. Blocked enumerations are registered before emission, reached or not, as
`prepare_external_records` does. Enum constants and their emission are left out: `enumerators` only records
the enumerations whose constants the code withholds. Derived traits are compared with those Rust would accept.
`Selection`: occurrences in source order with callbacks that rename and allowlists by file and
name. `MacroValues`: a backtracking parser over tokens, the context of values and its bytes, and
the projection to a Rust constant.

### FrontendConfig and FrontendRun

`FrontendConfig`: both argument readers, one word or option at a time, against what the
whole command says. `FrontendRun`: the phases of a command with the sessions of `toucan_stack`,
which run on a new worker only when none is active; a worker may fail to start, an
operation may panic, a write may fail after part of the file. A command is its options with the
macros of the final environment (`RunJobs` over `Macros` and `RawLines`; one macro of a name, as
`preprocessed.macros` is a map). A frame is what a session has still to do; bindings take each macro in three
steps (considered, perhaps evaluated in a nested session, recorded).

## 3. Runs

| Run | Instance | Shows |
| --- | --- | --- |
| `macro_table` | names of every class, 2 values, 2 sites, 10 bytes of stacks | four tables agree, bytes are exact, stacks of meanings are implemented |
| `directives` | 6 lines of conditionals, 4 of markers, 4 of text and pragmas; condition trees; sources of up to 6 atoms | groups, system flag and limits; order of flush and directives, mappings, provenance; conditions; comments |
| `pp_inclusion` | three files, two of one inode, virtual and forced inputs, 3 lines per read, depth 3 | once, dependencies, reuse of the Preprocessor, termination |
| `expansion` | about 5000 pairs of table and text | agreement with the reference, limits, termination |
| `parser` | definitions, statements and expressions cut by every limit at every charge; headers of tags | scopes and depth are balanced, accepted means complete, every parse ends; tag discovery |
| `scopes` | one tag, one name, three types, depth 2, bodies nested twice | flat tables implement a stack of scopes |
| `bodies` | bodies of up to 6 statements; graph programs; expression trees; attribute programs | jumps, cases, annotations; names, bounds, object sizes, features |
| `layout` | 2 fields on every kind of target, 3 where a storage unit stays open; graphs of 3 parts; expression trees over scaled widths | layouts, type queries, Rust records, constants |
| `declarations` | 4 declarations of a name; lists of 5 items; address trees; specifier words; expression programs; 3 macros | see `Declarations` to `MacroValues` above |
| `pipeline` | 4 bytes through pipes of 2; cyclic units; command lines of a few words; headers with callbacks | formatter, command, bindings, configuration, selection, and that all of them return |
| `scopes_trailing` | `scopes` with attributes behind a declarator | violation, finding 1 |
| `records_twice` | `scopes` with one type | violation, finding 2 |

A property of a run with parts is the conjunction of the named properties of one part's
module; the comment above it says what they are.

Why the bounds suffice. The pipes are smaller than what goes through them, so both
sides block. Byte limits of `macro_table` end a run after three pushes, so a stack
holds snapshots of different kinds and the limit is met at every place it is tested;
its run may stop there (no deadlock check; nor in `layout` and `declarations`, whose machines end). The inputs
of the driver are short, but their lines are free, so 6 lines contain every shape of two nested groups and depth
3 every cycle of the three files. Each shape of expansion that distinguishes hide
sets (name and parenthesis of different origin, prescan before rescan, pragmas in
arguments) is in the tables of `MCMacroExpansion`. Parser limits are swept, so each
failure happens at each place. With one tag and one name, two scopes around each
other and three types a scope can hide, hide again and be entered again; names do
not interact, which the proofs confirm for any number. Bodies hold two sibling scopes and a nested one with a jump
between any two of them; case bounds from -3 to 2 over a type of two bits contain both ends of it, signed and
unsigned, and values that wrap. A storage unit is opened, joined and closed by three fields. Four declarations of a name are
a prototype, a body, a redeclaration and a block extern in any order. Five items overrun the
nested unions and arrays they initialize. Scaled widths keep the order of the types and contain both ends of each.

Fairness. `Preprocessor`, `MacroExpansion`, `ParserSession`, `Bindings` and `FrontendRun` are single threads
that never wait except for a worker they join: weak fairness of their step says only that the program goes on.
Errors are not part of a fair choice that could hide a loop: where an error may
happen nondeterministically, termination is also checked on the paths where it
does not. `RustfmtPipe` assumes that the operating system schedules both threads and
the child, and that the child does not stop between its calls (`wait_with_output` has no
timeout, so a child that never ends really blocks the caller). In `pipeline` each part has the fairness of its module.

Each property has a mutant: a plausible slip in one mapped definition (a
dropped guard, a missing reset, a swapped order) that TLC must catch.

## 4. Proofs

Every theorem is about the specification a run checks, for any values of the constants that
satisfy the named assumptions of its module; each inductive invariant was
checked by TLC on that run's instance before it was proved.

**`MacroTableProofs`** (from `MacroAssumption`, `NoneAssumption`).

* `MacroInvariant`: `MacroSpec => []MacroInv`, the type invariant,
  `OneMeaning`, `OriginMatchesDefinition` and `SnapshotsSound`. The last is the strengthening:
  `pop_macro` installs whatever its snapshot holds, so the invariant of the tables
  is inductive only if every snapshot on every stack satisfies it too.
  `OneMeaningHolds` and `OriginHolds` follow.
* `StackBytesHold`: the running total of stack bytes is the number of byte slots the
  snapshots occupy. The bytes of all stacks are one finite set, each byte named by its place (name,
  depth, index), so that a push adds a disjoint set and a pop removes one; `BytesInv`
  carries that the set is finite and that a byte's place is in a stack.
* `MacroRefinement`: every step maps to a step of `MacroScopes` or to none.

**`PreprocessorProofs`** (from `DriverAssumption`, `InputAssumption` and those of the macro table).
`PreprocessorInvariant` proves `PreprocessorInv`; three properties follow.

* What a step may do to the stack of activations has five shapes (keep, rewrite the top,
  push, pop, clear), and each action has one; whatever is said of all frames is proved once per shape.
* `StructureHolds` needs `SoundFrames`: groups of every frame, not of the top only, because
  a return makes the caller's groups current, and a caller that waits for an inclusion
  waits at an active place with nothing to flush (`Waits`).
* `TextHolds` needs `PendingCurrent`: each waiting name still means what it meant when its line
  was read. This is where the flush before every directive and before every pragma that touches the tables
  matters. The maps tile the output up to a mark inside the flush under way (`Covered`).
* `IncludesHold` needs `LinksSound` and `Identified`: an inode that executed `#pragma once` has a registered
  path, and every registered path of that inode is suppressed by it. The hypothesis `NamedApart` says that no in-memory
  source has the name of a file. It is needed: `once_files` is keyed by path, and an in-memory source that
  executes `#pragma once` under a file's name suppresses that file, which was never read.

**`ParserSessionProofs`** (from `BudgetAssumption`, `SessionAssumption`, `OptionAssumption`, `NoneAssumption`). `ParserInvariant` proves `ParserInv`;
`ParserHolds` proves `ParserExact`.

* `RulesAccounted`: the depth and the number of scopes are sums over the frames on
  the stack, each by its program counter, so that leaving a rule, by return or by error, gives back
  what it took. A failure in any frame unwinds through all of them.
* `StartsDiffer` and `HeadFollowed`: parameter lists begin at different tokens, and in the head of
  a definition the retained scope is the one of the declarator whose name it defines, which is what
  makes the body see its own parameters and not those of a nested declarator.

**`LexicalScopesProofs`** (from `ScopesAssumption`, `NoBindingAssumption`).

* `ScopesInvariant`: `Spec => []ScopesInv`, types and `LogsRestore`: undoing the log of
  each open scope gives the tables at its entry. It has to speak of all open scopes
  and not of the top only, because leaving a scope makes the next one the top.
* `ScopeRefinement`: the tables implement `ScopeStack`.
* `TagDepthHolds` and `ConstantsHold`: inductive relative to `ScopesInv`, by actions.
* `BodiesHold`: a body sees the parameters of its own declarator and completes types of
  its own scope. The invariants are `TypesInv` and `CaptureInv` (the captured scope belongs to the
  definition whose declarator was left last). The hypothesis `~TrailingTypes` excludes exactly the
  behaviour of finding 1, which `scopes_trailing` shows.

**`FunctionBodyProofs`** (from `BodyAssumption`). `BodyInvariant` proves `BodyInv`; `LabelsHold` proves `BodiesExact`
for every set of jobs and labels and for a switch of any width.

* Activations own the scopes above their base, so that leaving one closes what it opened. The numbers
  of variably modified identifiers and statement expressions grow from scope to scope. That is why
  `check_switch_entry` may compare one number: two nested places with the same summit hold the same set (`EntryTest`).
  `SwitchEntersNothing` follows.
* Each open switch has its frame, with the scopes and the statement expression it was opened in. Its ranges are
  disjoint, and what they cover is what lies between their ends, so a new range that overlaps any of them
  overlaps a neighbour (`CaseTest`, in the order of the promoted type, signed or not). `CaseTestExact` follows.
* Annotations in force wait for the innermost switch, and those a branch or statement expression put
  aside wait for the switch that was innermost at its frame. Without this a label could take away an annotation of
  another switch. `FallthroughReachesItsSwitch` follows.

**`BindgenProofs`** (from `PipeAssumption` and `SelectionAssumption`).

* `FormatHolds`: `FormatExact`, from `FormatInv`, which adds
  `WhatPassed`: at each point of the parent, what is known of the pipes, the writer's result and the
  child. What was written by the child is complete only if it was reaped with a good status
  after its end of the pipe was drained, and the order of these is what `WhatPassed` records.
* `SelectionInvariant`: `SelectionSpec => []SelectionInv`. At each occurrence, what is chosen, named and a root
  is what the reference reads in the occurrences before it: a chosen declaration has a first chosen occurrence, whose name
  it has, the offsets with further names are the later chosen ones of another name (`DeclarationsSoFar`), and a tag is a root when
  one of them wants it (`TagsSoFar`). Afterwards each name is bound to the first plain object (`ObjectsSoFar`).
* `SelectedHolds`: `SelectedExact`, since at the end the occurrences before are all of them. `SelectionAssumption`: occurrences
  have a known kind, those of tags name a known tag of that kind, and the evaluated objects are places of written
  variables in source order. `object_values.rs` records them as they are analyzed; the first to claim a name is then the first in the source.

**`FrontendRunProofs`** (from `RunAssumption`). `RunInvariant` proves `RunInv`; `CommandHolds` proves `CommandExact`
for any number of commands, macros, raw lines and derive setters.

* `FramesSound`: what is left of a frame is the end of its session's steps, so the steps left say how far
  a session is; only the second frame spawned a worker, and `WorkerSound` reads the
  threads alive off the number of frames. `SessionsNest` follows.
* `OutputSoFar`: while nothing fails, what is written is a function of the steps left in `main`; once
  something failed, the output is not the whole. The report is whole and the denial passed by the time
  fewer steps are left than those. `OutputFaithful` follows.
* `AccountSoFar`: table, skipped names and counts are those of the macros settled so far; while one is being
  evaluated, its name is in the table with no value. The counts are cardinalities of sets of
  places, and become those of sets of macros because an environment has one macro of a name.
  `MacrosAccounted` follows at the emission.

Only model-checked. Liveness (`Terminates`, `ParserReturns`, `EveryCallReturns`): the prover has neither
fairness nor ENABLED. The comparisons with references (`ExpansionExact`, `ConditionsExact`, `CommentsExact`, `DiscoveryExact`,
`ConstantExpressionsExact`, `TypesExact`, `RecordsExact`, `BoundsExact`, `SizesExact` and others) rest on recursive definitions, which need induction
over data, and their modules use RECURSIVE operators. `JumpsExact` rests on
what `ancestry_ends` computes by recursion. `GraphExact` and `TargetsExact`
are invariants of machines and could be proved in parts. Of `Selection`, errors that end it (an empty
generated name, a further name of two declarations) are in the model, and nothing is said of what they leave.

## 5. Findings

1. `toucan_semantic/src/analyze.rs:1061`. While a definition's declarator is analyzed,
   every prototype that is left replaces the captured parameter scope. Clang mode
   accepts attributes between declarator and body, and `declarator_at` analyzes them after
   its derivations: a function type named in one (inside a `sizeof`) replaces the
   captured scope, so the body opens without its parameters. `statement.rs:15`: "Bindings
   introduced in a definition's parameter list remain visible in its body." `scopes` shows that
   without such attributes the order of prototypes is right.
2. `toucan_semantic/src/analyze.rs:4327`. `complete_record` tests completeness before its members
   and sets it after them. `struct A { struct A { int x; } *p; int y; };` is completed
   twice without the diagnostic "record is defined more than once". Enumerations are
   guarded by `defining_enums`, and `EnumsDefinedOnce` holds.

## 6. Plan

Done: inventory; formatter; macro environment and lexical scopes with proofs; driver, conditions,
comments and expansion; parser session and tag discovery; bodies, checked graph and
bounds; declarations, types, expressions, initializers, constants; layout; bindings, selection, macro
values, configuration and the command. Proved: macro table, driver, parser, scopes, bodies, formatter, command, selection.

Proofs to add: the checked graph. `JumpsExact` stays with TLC.

Models to add: include search with `include_next`; nodes of statements, accesses and conversions of the checked graph;
lexical names, enum constants and objects of the emitter.

## 7. Not modelled

Character-level lexing, tables of targets, builtins and query answers, syntax-tree
types, printing and visitors have no state to get wrong between steps. Include search is a
lookup in fixed lists over a file system. Floating-point and complex
evaluation is delegated to a software library. Vectors, scalable vectors and inline assembly are checked call by
call against tables. The nesting counter of expressions (`analyze.rs:904`) is a guard around a recursion that the models
bound by the size of their inputs. Text of diagnostics and of generated
code is outside what these models tell apart. Time and memory of the process are
not modelled except through the program's own counters.
