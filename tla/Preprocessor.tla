---------------------------- MODULE Preprocessor ----------------------------
(***************************************************************************)
(* The directive driver of toucan_preprocessor (Preprocessor in lib.rs):   *)
(* entry points, the include stack, #pragma once and hard links, per-file  *)
(* conditional groups, pending text and its flush, pragmas and _Pragma,    *)
(* line markers, the byte, token and depth limits, and the maps from       *)
(* output bytes back to sources.  The macro environment is MacroTable.     *)
(*                                                                         *)
(* Rust recursion (source_inner calling itself through file) is the stack  *)
(* `frames'; its locals are the fields of a frame.  What a file contains   *)
(* is not fixed: every read of a line may return any line of the job, so   *)
(* a file may even differ between two reads of it.  A line is one byte,    *)
(* and its operands are already lexed.                                     *)
(***************************************************************************)
EXTENDS MacroTable, SequencesExt

CONSTANTS Files,           \* canonical paths of regular files
          Inode,           \* [Files -> inode], equal for hard links
          Virtual,         \* virtual headers and in-memory forced includes
          Lines,           \* [job names -> the lines its sources may contain]
          Jobs,            \* calls of the entry points
          Dialect,         \* feature_queries.dialect, or "macro" when absent
          ClangName,       \* "__clang__"
          SystemFiles,     \* what a system include directory resolves to
          ValueTokens,     \* tokens of each replacement list
          MaxFileLines,    \* [job names -> bound on the length of one source]
          MaxIncludeDepth, \* config.max_include_depth
          MaxTokens        \* config.max_tokens

AllLines == UNION {Lines[job] : job \in DOMAIN Lines}
Eof == [kind |-> "eof"]

ASSUME DriverAssumption ==
    /\ DOMAIN Inode = Files
    /\ SystemFiles \subseteq Files
    /\ Files \cup Virtual \subseteq Sites
    /\ None \notin AllLines \cup {Eof}
    /\ IsFiniteSet(DOMAIN Defines)
    /\ Dialect \in {"clang", "gnu", "macro"}
    /\ ValueTokens \in [Values -> Nat]
    /\ MaxFileLines \in [DOMAIN Lines -> Nat]
    /\ MaxIncludeDepth \in Nat /\ MaxTokens \in Nat

ConditionalKinds == {"if", "ifdef", "ifndef", "elif", "else", "endif"}
OtherKinds == {"define", "undef", "include", "error", "pragma", "line", "marker"}

\* Pragmas, and the tokens of a line of text: names, _Pragma operators, others.
Pragmas ==
    [op : {"once", "pack", "system_header", "ignored", "unsupported"}]
      \cup [op : {"push_macro", "pop_macro"}, name : Names]

TextTokens(seen) ==
    [kind : {"name"}, name : Names, seen : seen] \cup [kind : {"other"}]
      \cup [kind : {"pragma"}, pragma : Pragmas]

LineFields(l) ==
    /\ l.kind \in {"text", "null"} \cup ConditionalKinds \cup OtherKinds
    /\ l.kind = "text" => l.tokens \in Seq(TextTokens({None}))
    /\ l.kind \in {"if", "elif"} => l.pragma \in Pragmas \cup {None}
    /\ l.kind \in {"ifdef", "ifndef", "define", "undef"} => l.name \in Names
    /\ l.kind = "define" => l.value \in Values
    /\ l.kind = "pragma" => l.pragma \in Pragmas
    /\ l.kind = "marker" => l.transition \in 0 .. 2 /\ l.system \in BOOLEAN

JobFields(job) ==
    /\ job.name \in DOMAIN Lines
    /\ job.kind \in {"main", "str"}
    /\ job.main \in IF job.kind = "main" THEN Files ELSE Sites
    /\ job.forced \in Seq(Virtual) /\ job.headers \in Seq(Files)

ASSUME InputAssumption ==
    /\ \A l \in AllLines : LineFields(l)
    /\ \A job \in Jobs : JobFields(job)

VARIABLES status,        \* "idle", "running", "ok" or "failed"
          inputs,        \* inputs of this run not yet read
          frames,        \* sources being read, outermost first
          phase,         \* "line", "flush" or "exec"
          line,          \* the directive to execute after the flush
          flush,         \* [start, had_pragma] of the flush under way
          once,
          hardlinks,     \* [inode -> first path opened, or None]
          dependencies,
          reads,         \* history: the paths of the sources entered in this run
          tokens, source_bytes, output_tokens,
          output,        \* length of the output text
          mappings,      \* SourceMapping: generated range and presumed path
          file_mappings, \* FileOrigins.mappings
          emitted,       \* tokens written, with the meaning they were given
          documentation_system

sourceVars == <<once, hardlinks, dependencies, reads, source_bytes>>
outputVars == <<output_tokens, output, mappings, file_mappings, emitted>>
controlVars == <<status, inputs, frames, phase, line, flush, tokens>>
vars == <<macroVars, sourceVars, outputVars, controlVars, documentation_system>>

-----------------------------------------------------------------------------
(* Frames and conditional groups *)

Top == frames[Len(frames)]

\* `taken' counts the branches of the group that were active; the code has
\* only the other three fields.
NewConditional(parent, matches) ==
    [active |-> matches, can_take_branch |-> parent /\ ~matches,
     seen_else |-> FALSE, taken |-> IF matches THEN 1 ELSE 0]

\* Mutant: #elif does not use up the group.
NextBranchReopens(c, matches, is_else) ==
    [active |-> matches, can_take_branch |-> c.can_take_branch /\ ~is_else,
     seen_else |-> is_else, taken |-> c.taken + (IF matches THEN 1 ELSE 0)]

NextBranch(c, matches, is_else) ==
    [active |-> matches, can_take_branch |-> c.can_take_branch /\ ~matches /\ ~is_else,
     seen_else |-> is_else, taken |-> c.taken + (IF matches THEN 1 ELSE 0)]

ActiveIn(conditions) == conditions # <<>> => conditions[Len(conditions)].active
Active == ActiveIn(Top.conditions)

ConditionalLimit == IF 4 * MaxIncludeDepth < 256 THEN 4 * MaxIncludeDepth ELSE 256

\* The call being served, which decides what its sources may contain.
Job == IF frames = <<>> THEN Head(inputs).job ELSE Top.job
Lengths == 0 .. MaxFileLines[Job]

\* The frame of an input; saved_system is what source() puts back.
Frame(path, identity, main, system, n) ==
    [path |-> path, identity |-> identity, main |-> main, system |-> system,
     left |-> n, conditions |-> <<>>, pending |-> <<>>, logical |-> path,
     markers |-> <<>>, job |-> Job, saved_system |-> documentation_system]

SetTop(frame) == frames' = [frames EXCEPT ![Len(frames)] = frame]
SetConditions(c) == SetTop([Top EXCEPT !.conditions = c])

ClangPaths ==
    \/ Dialect = "clang"
    \/ Dialect = "macro" /\ ClangName \in Names /\ macros[ClangName] # None

-----------------------------------------------------------------------------
(* Errors.  An error unwinds every source_inner: their locals are gone and *)
(* source() has put documentation_system back at each level.  Everything   *)
(* else keeps its value until the next reset().                            *)

Unwind ==
    /\ status' = "failed"
    /\ frames' = <<>> /\ inputs' = <<>>
    /\ phase' = "line" /\ line' = None
    /\ documentation_system' = IF frames = <<>> THEN documentation_system
                                                ELSE frames[1].saved_system
    /\ UNCHANGED <<flush, tokens>>

Fail == Unwind /\ UNCHANGED <<macroVars, sourceVars, outputVars>>

-----------------------------------------------------------------------------
(* Entering sources *)

Linked(f) == \E g \in Files \ {f} : Inode[g] = Inode[f]

\* open_file: the first path a linked inode is opened by stands for it.
Identity(f) ==
    IF Linked(f) /\ hardlinks[Inode[f]] # None THEN hardlinks[Inode[f]] ELSE f
OpenFile(f) ==
    hardlinks' = IF Linked(f) /\ hardlinks[Inode[f]] = None
                 THEN [hardlinks EXCEPT ![Inode[f]] = f] ELSE hardlinks

\* source() on a text of n lines: the bytes are charged before anything else.
EnterSource(frame, n) ==
    /\ source_bytes + n <= MaxSourceBytes
    /\ source_bytes' = source_bytes + n
    /\ frames' = Append(frames, frame)
    /\ reads' = reads \cup {frame.path}
    /\ documentation_system' = (documentation_system \/ frame.system)

\* file() at depth Len(frames): limit, suppression by path, suppression by
\* hard-link identity, or a new frame.
TooDeep == Len(frames) >= MaxIncludeDepth

\* Mutant: suppression compares paths only.
FileByPath(f, system) ==
    /\ ~TooDeep
    /\ \/ /\ f \in once
          /\ UNCHANGED <<sourceVars, frames, documentation_system>>
       \/ /\ f \notin once
          /\ OpenFile(f)
          /\ dependencies' = dependencies \cup {f}
          /\ \E n \in Lengths :
                EnterSource(Frame(f, Identity(f), FALSE, system, n), n)
          /\ UNCHANGED once

file(f, system) ==
    /\ ~TooDeep
    /\ \/ /\ f \in once
          /\ UNCHANGED <<sourceVars, frames, documentation_system>>
       \/ /\ f \notin once /\ Identity(f) \in once
          /\ OpenFile(f)
          /\ dependencies' = IF ClangPaths THEN dependencies \cup {f} ELSE dependencies
          /\ UNCHANGED <<once, reads, source_bytes, frames, documentation_system>>
       \/ /\ f \notin once /\ Identity(f) \notin once
          /\ OpenFile(f)
          /\ dependencies' = dependencies \cup {f}
          /\ \E n \in Lengths :
                EnterSource(Frame(f, Identity(f), FALSE, system, n), n)
          /\ UNCHANGED once

\* The text may be longer than what is left of the byte limit.
TooLong == source_bytes + Max(Lengths) > MaxSourceBytes

file_error(f) == TooDeep \/ (f \notin once /\ Identity(f) \notin once /\ TooLong)

-----------------------------------------------------------------------------
(* Entry points: preprocess, preprocess_files and preprocess_str *)

\* `defined' configured definitions are lexed before the reset ends or fails.
ResetRun(defined) ==
    /\ ResetMacroTable
    /\ once' = {} /\ reads' = {} /\ tokens' = defined
    /\ source_bytes' = Cardinality(DOMAIN Defines)
    /\ output_tokens' = 0 /\ output' = 0
    /\ mappings' = <<>> /\ file_mappings' = <<>> /\ emitted' = {}
    /\ documentation_system' = FALSE
    /\ flush' = [start |-> 0, had_pragma |-> FALSE]
    /\ phase' = "line" /\ line' = None

NoLinks == [i \in {Inode[f] : f \in Files} |-> None]

Inputs(job) ==
    [i \in 1..Len(job.forced) |-> [kind |-> "forced", path |-> job.forced[i], job |-> job.name]]
      \o [i \in 1..Len(job.headers) |-> [kind |-> "header", path |-> job.headers[i], job |-> job.name]]
      \o <<[kind |-> job.kind, path |-> job.main, job |-> job.name]>>

\* The definitions of the configuration, one byte and one token each, count first.
DefinesFit ==
    Cardinality(DOMAIN Defines) <= MaxSourceBytes /\ Cardinality(DOMAIN Defines) <= MaxTokens

\* The main file is opened and registered before any forced input is read;
\* preprocess_str opens nothing.
Preprocess(job) ==
    /\ status # "running"
    /\ DefinesFit
    /\ ResetRun(Cardinality(DOMAIN Defines))
    /\ status' = "running"
    /\ inputs' = Inputs(job) /\ frames' = <<>>
    /\ \/ /\ job.kind = "main"
          /\ hardlinks' = IF Linked(job.main)
                          THEN [NoLinks EXCEPT ![Inode[job.main]] = job.main] ELSE NoLinks
          /\ dependencies' = {job.main}
       \/ /\ job.kind = "str"
          /\ hardlinks' = NoLinks /\ dependencies' = {}

\* A limit, a configured macro that is rejected, or a main file that cannot be opened.
PreprocessError(job) ==
    /\ status # "running"
    /\ \E defined \in 0 .. Cardinality(DOMAIN Defines) : defined <= MaxTokens /\ ResetRun(defined)
    /\ status' = "failed"
    /\ inputs' = <<>> /\ frames' = <<>>
    /\ hardlinks' = NoLinks /\ dependencies' = {}

\* The next forced source, forced header or main source of the run.
NextInput ==
    /\ status = "running" /\ frames = <<>> /\ inputs # <<>>
    /\ LET input == Head(inputs)
       IN  \/ /\ input.kind = "forced" /\ input.path \in once
              /\ UNCHANGED <<sourceVars, frames, documentation_system>>
           \/ /\ \/ input.kind = "forced" /\ input.path \notin once
                 \/ input.kind = "str"
              /\ \E n \in Lengths :
                    EnterSource(Frame(input.path, input.path, input.kind = "str", FALSE, n), n)
              /\ UNCHANGED <<once, hardlinks, dependencies>>
           \/ /\ input.kind = "header"
              /\ file(input.path, input.path \in SystemFiles)
           \/ /\ input.kind = "main" /\ ~TooDeep
              /\ \E n \in Lengths :
                    EnterSource(Frame(input.path, Identity(input.path), TRUE, FALSE, n), n)
              /\ UNCHANGED <<once, hardlinks, dependencies>>
    /\ inputs' = Tail(inputs)
    /\ UNCHANGED <<macroVars, outputVars, status, phase, line, flush, tokens>>

NextInputError ==
    /\ status = "running" /\ frames = <<>> /\ inputs # <<>>
    /\ LET input == Head(inputs)
       IN  \/ input.kind = "forced" /\ input.path \notin once /\ TooLong
           \/ input.kind = "str" /\ TooLong
           \/ input.kind = "header" /\ file_error(input.path)
           \/ input.kind = "main" /\ (TooDeep \/ TooLong)
    /\ Fail

\* finish(): the tables become the result.  The next reset() clears them.
Finish ==
    /\ status = "running" /\ frames = <<>> /\ inputs = <<>>
    /\ status' = "ok"
    /\ UNCHANGED <<macroVars, sourceVars, outputVars, inputs, frames, phase, line,
                   flush, tokens, documentation_system>>

-----------------------------------------------------------------------------
(* Reading lines *)

Reading == status = "running" /\ frames # <<>> /\ phase = "line"

\* Tokens of the line, the "#" and the directive name included.
TokenCount(l) ==
    CASE l.kind = "text" -> Len(l.tokens)
      [] l.kind \in {"else", "endif"} -> 2
      [] OTHER -> 3

\* What the name means here, unless a pragma pending before it may still
\* change that.  Kept with the token to compare with what the flush finds.
SeenMeaning(tok, pending) ==
    IF \E i \in DOMAIN pending : pending[i].kind = "pragma" THEN None ELSE Meaning(tok.name)

Noted(tok, pending) ==
    IF tok.kind = "name" THEN [tok EXCEPT !.seen = SeenMeaning(tok, pending)] ELSE tok

ExtendPending(pending, toks) ==
    pending \o [i \in 1..Len(toks) |-> Noted(toks[i], pending \o SubSeq(toks, 1, i - 1))]

ReadText(l) ==
    /\ l.kind = "text"
    /\ SetTop([Top EXCEPT !.left = @ - 1,
                 !.pending = IF Active THEN ExtendPending(@, l.tokens) ELSE @])
    /\ UNCHANGED <<phase, line, flush>>

\* Mutant: text is kept until the end of the file.
StartDirectiveUnflushed(l) ==
    /\ SetTop([Top EXCEPT !.left = @ - 1])
    /\ line' = l
    /\ phase' = "exec"
    /\ UNCHANGED flush

\* Any directive, active or not, first flushes the text before it.
StartDirective(l) ==
    /\ SetTop([Top EXCEPT !.left = @ - 1])
    /\ line' = l
    /\ phase' = IF Top.pending = <<>> THEN "exec" ELSE "flush"
    /\ flush' = [start |-> output, had_pragma |-> FALSE]

ReadLine ==
    /\ Reading /\ Top.left > 0
    /\ \E l \in Lines[Top.job] :
          /\ tokens + TokenCount(l) <= MaxTokens
          /\ tokens' = tokens + TokenCount(l)
          /\ ReadText(l) \/ (l.kind # "text" /\ StartDirective(l))
    /\ UNCHANGED <<macroVars, sourceVars, outputVars, status, inputs, documentation_system>>

\* lex_limited rejects a line with more tokens than are left.
ReadLineError ==
    /\ Reading /\ Top.left > 0
    /\ \E l \in Lines[Top.job] : tokens + TokenCount(l) > MaxTokens
    /\ Fail

EndOfFile ==
    /\ Reading /\ Top.left = 0 /\ Top.conditions = <<>>
    /\ line' = Eof
    /\ phase' = IF Top.pending = <<>> THEN "exec" ELSE "flush"
    /\ flush' = [start |-> output, had_pragma |-> FALSE]
    /\ UNCHANGED <<macroVars, sourceVars, outputVars, status, inputs, frames, tokens,
                   documentation_system>>

UnterminatedIf ==
    /\ Reading /\ Top.left = 0 /\ Top.conditions # <<>>
    /\ Fail

-----------------------------------------------------------------------------
(* Output *)

\* FileOrigins::append: empty ranges vanish, adjacent ranges of one file and
\* include class coalesce.
AppendOrigin(maps, start, end, path, system) ==
    LET last == maps[Len(maps)]
    IN  IF start = end THEN maps
        ELSE IF /\ maps # <<>>
                /\ last.path = path /\ last.system = system /\ last.end = start
             THEN [maps EXCEPT ![Len(maps)].end = end]
             ELSE Append(maps, [start |-> start, end |-> end, path |-> path,
                                system |-> system])

\* `file' is the source the bytes come from, `path' the name #line gave it.
Mapping(start, end) ==
    [start |-> start, end |-> end, path |-> Top.logical, file |-> Top.path]

\* A name is replaced by its replacement list; every other token stays.
ExpandedLen(tok) ==
    IF tok.kind = "name" /\ macros[tok.name] # None
    THEN ValueTokens[macros[tok.name].value] ELSE 1

\* The tokens a stretch expands to: for each of its tokens those that replace it.
Replaced(stretch) == UNION {{i} \X (1 .. ExpandedLen(stretch[i])) : i \in DOMAIN stretch}
StretchLen(stretch) == Cardinality(Replaced(stretch))

\* output_tokens: a token is one byte and a separator, which the newline ends;
\* an expansion to nothing is a newline alone.
OutputBytes(n) == IF n = 0 THEN 1 ELSE 2 * n

OutputFits(n) ==
    /\ output_tokens + n <= MaxTokens
    /\ output + OutputBytes(n) <= MaxSourceBytes

WriteTokens(n) ==
    /\ OutputFits(n)
    /\ output_tokens' = output_tokens + n
    /\ output' = output + OutputBytes(n)
    /\ mappings' = mappings \o
         IF n = 0 THEN <<Mapping(output, output + 1)>>
         ELSE [i \in 1..n |-> Mapping(output + 2 * (i - 1), output + 2 * i)]

-----------------------------------------------------------------------------
(* Pragmas *)

PackTokens == 3
PackBytes == 2

pragma(p) ==
    \/ /\ p.op = "once"
       /\ once' = IF Top.main /\ ClangPaths THEN once ELSE once \cup {Top.identity}
       /\ UNCHANGED <<macroVars, output_tokens, output, mappings, documentation_system>>
    \/ /\ p.op = "pack"
       /\ output + PackBytes <= MaxSourceBytes
       /\ output_tokens + PackTokens <= MaxTokens
       /\ output' = output + PackBytes
       /\ output_tokens' = output_tokens + PackTokens
       /\ mappings' = Append(mappings, Mapping(output, output + PackBytes))
       /\ UNCHANGED <<macroVars, once, documentation_system>>
    \/ /\ p.op = "system_header"
       /\ documentation_system' = (documentation_system \/ ~Top.main)
       /\ UNCHANGED <<macroVars, once, output_tokens, output, mappings>>
    \/ /\ p.op = "ignored"
       /\ UNCHANGED <<macroVars, once, output_tokens, output, mappings, documentation_system>>
    \/ /\ \/ p.op = "push_macro" /\ push_macro(p.name)
          \/ p.op = "pop_macro" /\ pop_macro(p.name)
       /\ UNCHANGED <<once, output_tokens, output, mappings, documentation_system>>

pragma_error(p) ==
    \/ p.op = "unsupported"
    \/ p.op = "pack" /\ (\/ output + PackBytes > MaxSourceBytes
                         \/ output_tokens + PackTokens > MaxTokens)
    \/ p.op = "push_macro" /\ PushRejected(p.name)
    \/ p.op = "pop_macro" /\ PopRejected(p.name)

-----------------------------------------------------------------------------
(* flush: text up to the next _Pragma is expanded in the environment of    *)
(* this moment and written, the pragma is applied, and so on.              *)

Flushing == status = "running" /\ phase = "flush"

IsPragma(tok) == tok.kind = "pragma"

StretchEnd(pending) ==
    IF \E i \in DOMAIN pending : IsPragma(pending[i])
    THEN Min({i \in DOMAIN pending : IsPragma(pending[i])}) - 1
    ELSE Len(pending)

\* Text that expands to nothing is written, as an empty line, only when it is
\* all there is to flush.
Writes(end) ==
    \/ StretchLen(SubSeq(Top.pending, 1, end)) > 0
    \/ end = Len(Top.pending) /\ ~flush.had_pragma

\* Mutant: text that writes nothing is not consumed.
FlushTextStuck ==
    /\ Flushing /\ Top.pending # <<>> /\ ~IsPragma(Head(Top.pending))
    /\ LET end == StretchEnd(Top.pending)
       IN  /\ Writes(end)
           /\ WriteTokens(StretchLen(SubSeq(Top.pending, 1, end)))
           /\ SetTop([Top EXCEPT !.pending = SubSeq(@, end + 1, Len(@))])
    /\ UNCHANGED <<macroVars, sourceVars, file_mappings, emitted, status, inputs, phase, line,
                   flush, tokens, documentation_system>>

FlushText ==
    /\ Flushing /\ Top.pending # <<>> /\ ~IsPragma(Head(Top.pending))
    /\ LET end == StretchEnd(Top.pending)
           stretch == SubSeq(Top.pending, 1, end)
       IN  /\ IF Writes(end) THEN WriteTokens(StretchLen(stretch))
                             ELSE UNCHANGED <<output_tokens, output, mappings>>
           /\ emitted' = {[seen |-> stretch[i].seen, found |-> Meaning(stretch[i].name)] :
                            i \in {j \in 1..end : stretch[j].kind = "name"}}
           /\ SetTop([Top EXCEPT !.pending = SubSeq(@, end + 1, Len(@))])
    /\ UNCHANGED <<macroVars, sourceVars, file_mappings, status, inputs, phase, line,
                   flush, tokens, documentation_system>>

FlushPragma ==
    /\ Flushing /\ Top.pending # <<>> /\ IsPragma(Head(Top.pending))
    /\ pragma(Head(Top.pending).pragma)
    /\ SetTop([Top EXCEPT !.pending = Tail(@)])
    /\ flush' = [flush EXCEPT !.had_pragma = TRUE]
    /\ UNCHANGED <<hardlinks, dependencies, reads, source_bytes, file_mappings, emitted, status,
                   inputs, phase, line, tokens>>

FlushDone ==
    /\ Flushing /\ Top.pending = <<>>
    /\ file_mappings' = AppendOrigin(file_mappings, flush.start, output, Top.path, Top.system)
    /\ phase' = "exec"
    /\ UNCHANGED <<macroVars, sourceVars, output_tokens, output, mappings, emitted, status,
                   inputs, frames, line, flush, tokens, documentation_system>>

\* An output limit, or a failed pragma.
FlushError ==
    /\ Flushing /\ Top.pending # <<>>
    /\ IF IsPragma(Head(Top.pending)) THEN pragma_error(Head(Top.pending).pragma)
       ELSE LET end == StretchEnd(Top.pending)
            IN  Writes(end) /\ ~OutputFits(StretchLen(SubSeq(Top.pending, 1, end)))
    /\ Fail

-----------------------------------------------------------------------------
(* Conditional directives *)

Executing(kinds) == status = "running" /\ phase = "exec" /\ line.kind \in kinds

Executed ==
    /\ phase' = "line" /\ line' = None
    /\ UNCHANGED <<status, inputs, flush, tokens>>

Group == Top.conditions[Len(Top.conditions)]
SetGroup(c) == SetConditions([Top.conditions EXCEPT ![Len(Top.conditions)] = c])

\* condition(): the value of the expression is any; evaluating it runs the
\* _Pragma operators in it, which only Clang allows.
condition(p) ==
    \/ /\ p = None
       /\ UNCHANGED <<macroVars, once, outputVars, documentation_system>>
    \/ /\ p # None /\ ClangPaths
       /\ pragma(p)
       /\ file_mappings' = AppendOrigin(file_mappings, output, output', Top.path, Top.system)
       /\ UNCHANGED emitted

If ==
    /\ Executing({"if"}) /\ Active
    /\ Len(Top.conditions) < ConditionalLimit
    /\ condition(line.pragma)
    /\ \E matches \in BOOLEAN :
          SetConditions(Append(Top.conditions, NewConditional(TRUE, matches)))
    /\ Executed
    /\ UNCHANGED <<hardlinks, dependencies, reads, source_bytes>>

Ifdef ==
    /\ Executing({"ifdef", "ifndef"}) /\ Active
    /\ Len(Top.conditions) < ConditionalLimit
    /\ LET matches == is_defined(line.name) <=> (line.kind = "ifdef")
       IN  SetConditions(Append(Top.conditions, NewConditional(TRUE, matches)))
    /\ Executed
    /\ UNCHANGED <<macroVars, sourceVars, outputVars, documentation_system>>

SkippedIf ==
    /\ Executing({"if", "ifdef", "ifndef"}) /\ ~Active
    /\ Len(Top.conditions) < ConditionalLimit
    /\ SetConditions(Append(Top.conditions, NewConditional(FALSE, FALSE)))
    /\ Executed
    /\ UNCHANGED <<macroVars, sourceVars, outputVars, documentation_system>>

\* The expression is evaluated only while no branch has been taken.
Elif ==
    /\ Executing({"elif"})
    /\ Top.conditions # <<>> /\ ~Group.seen_else
    /\ \/ /\ Group.can_take_branch
          /\ condition(line.pragma)
          /\ \E matches \in BOOLEAN : SetGroup(NextBranch(Group, matches, FALSE))
       \/ /\ ~Group.can_take_branch
          /\ SetGroup(NextBranch(Group, FALSE, FALSE))
          /\ UNCHANGED <<macroVars, once, outputVars, documentation_system>>
    /\ Executed
    /\ UNCHANGED <<hardlinks, dependencies, reads, source_bytes>>

Else ==
    /\ Executing({"else"})
    /\ Top.conditions # <<>> /\ ~Group.seen_else
    /\ SetGroup(NextBranch(Group, Group.can_take_branch, TRUE))
    /\ Executed
    /\ UNCHANGED <<macroVars, sourceVars, outputVars, documentation_system>>

Endif ==
    /\ Executing({"endif"})
    /\ Top.conditions # <<>>
    /\ SetConditions(SubSeq(Top.conditions, 1, Len(Top.conditions) - 1))
    /\ Executed
    /\ UNCHANGED <<macroVars, sourceVars, outputVars, documentation_system>>

condition_error(p) == p # None /\ (~ClangPaths \/ pragma_error(p))

\* Nesting limit, a pragma that fails, or a directive without its #if.
ConditionalError ==
    /\ \/ Executing({"if", "ifdef", "ifndef"}) /\ Len(Top.conditions) >= ConditionalLimit
       \/ Executing({"if"}) /\ Active /\ condition_error(line.pragma)
       \/ /\ Executing({"elif"}) /\ Top.conditions # <<>> /\ Group.can_take_branch
          /\ condition_error(line.pragma)
       \/ Executing({"elif", "else"})
            /\ (Top.conditions = <<>> \/ (Top.conditions # <<>> /\ Group.seen_else))
       \/ Executing({"endif"}) /\ Top.conditions = <<>>
    /\ Fail

-----------------------------------------------------------------------------
(* Other directives, ignored in an inactive group *)

\* A lone "#" does nothing anywhere.
Ignored ==
    /\ \/ Executing(OtherKinds) /\ ~Active
       \/ Executing({"null"})
    /\ Executed
    /\ UNCHANGED <<macroVars, sourceVars, outputVars, frames, documentation_system>>

ExecDefine ==
    /\ Executing({"define"}) /\ Active
    /\ Define(line.name, line.value, Top.path)
    /\ Executed
    /\ UNCHANGED <<sourceVars, outputVars, frames, documentation_system>>

ExecDefineUnrecorded ==
    /\ Executing({"define"}) /\ Active
    /\ DefineUnrecorded(line.name, line.value, Top.path)
    /\ Unwind
    /\ UNCHANGED <<sourceVars, outputVars>>

ExecUndef ==
    /\ Executing({"undef"}) /\ Active
    /\ Undef(line.name)
    /\ Executed
    /\ UNCHANGED <<sourceVars, outputVars, frames, documentation_system>>

ExecPragma ==
    /\ Executing({"pragma"}) /\ Active
    /\ pragma(line.pragma)
    /\ file_mappings' = AppendOrigin(file_mappings, output, output', Top.path, Top.system)
    /\ Executed
    /\ UNCHANGED <<hardlinks, dependencies, reads, source_bytes, emitted, frames>>

\* find_include prefers the file system; a virtual header is a system source.
ExecInclude ==
    /\ Executing({"include"}) /\ Active
    /\ \/ /\ line.target \in Files
          /\ file(line.target, line.target \in SystemFiles \/ Top.system)
       \/ /\ line.target \in Virtual /\ ~TooDeep
          /\ \/ /\ line.target \notin once
                /\ \E n \in Lengths :
                      EnterSource(Frame(line.target, line.target, FALSE, TRUE, n), n)
                /\ UNCHANGED <<once, hardlinks, dependencies>>
             \/ /\ line.target \in once
                /\ UNCHANGED <<sourceVars, frames, documentation_system>>
    /\ Executed
    /\ UNCHANGED <<macroVars, outputVars>>

\* #line and GNU line markers rename the rest of the file.  Transition 1
\* enters a presumed file, transition 2 must return to the one that entered.
ExecLine ==
    /\ Executing({"line"}) /\ Active
    /\ SetTop([Top EXCEPT !.logical = line.file])
    /\ Executed
    /\ UNCHANGED <<macroVars, sourceVars, outputVars, documentation_system>>

ExecMarker ==
    /\ Executing({"marker"}) /\ Active
    /\ \/ /\ line.transition = 0
          /\ SetTop([Top EXCEPT !.logical = line.file])
       \/ /\ line.transition = 1 /\ Len(Top.markers) < MaxIncludeDepth
          /\ SetTop([Top EXCEPT !.logical = line.file, !.markers = Append(@, Top.logical)])
       \/ /\ line.transition = 2 /\ Top.markers # <<>>
          /\ line.file = Top.markers[Len(Top.markers)]
          /\ SetTop([Top EXCEPT !.logical = line.file,
                                !.markers = SubSeq(@, 1, Len(@) - 1)])
    /\ documentation_system' = line.system
    /\ Executed
    /\ UNCHANGED <<macroVars, sourceVars, outputVars>>

DirectiveError ==
    /\ Executing(OtherKinds) /\ Active
    /\ \/ Executing({"error"})
       \/ Executing({"define"}) /\ DefineRejected(line.name, line.value)
       \/ Executing({"undef"}) /\ UndefRejected(line.name)
       \/ Executing({"pragma"}) /\ pragma_error(line.pragma)
       \/ Executing({"include"}) /\ line.target \in Files /\ file_error(line.target)
       \/ /\ Executing({"include"}) /\ line.target \in Virtual
          /\ TooDeep \/ TooLong
       \/ Executing({"include"}) /\ line.target \notin Files \cup Virtual
       \/ /\ Executing({"marker"}) /\ line.transition = 1
          /\ Len(Top.markers) >= MaxIncludeDepth
       \/ /\ Executing({"marker"}) /\ line.transition = 2
          /\ \/ Top.markers = <<>>
             \/ Top.markers # <<>> /\ line.file # Top.markers[Len(Top.markers)]
    /\ Fail

\* The end of a source: source() puts documentation_system back.
LeaveSource ==
    /\ Executing({"eof"})
    /\ frames' = SubSeq(frames, 1, Len(frames) - 1)
    /\ documentation_system' = Top.saved_system
    /\ Executed
    /\ UNCHANGED <<macroVars, sourceVars, outputVars>>

-----------------------------------------------------------------------------
\* Preprocessor::new.
Init ==
    /\ macros = [n \in Names |-> None]
    /\ macro_origins = [n \in Names |-> None]
    /\ active_queries = {} /\ ms_pragma_active = MsExtensions
    /\ macro_stacks = [n \in Names |-> <<>>] /\ macro_stack_bytes = 0
    /\ definition_bytes = 0 /\ redefinition_bytes = 0
    /\ once = {} /\ hardlinks = NoLinks /\ dependencies = {} /\ reads = {}
    /\ source_bytes = 0 /\ tokens = 0 /\ output_tokens = 0 /\ output = 0
    /\ mappings = <<>> /\ file_mappings = <<>> /\ emitted = {}
    /\ documentation_system = FALSE
    /\ status = "idle" /\ inputs = <<>> /\ frames = <<>>
    /\ phase = "line" /\ line = None
    /\ flush = [start |-> 0, had_pragma |-> FALSE]

Entry == \E job \in Jobs : Preprocess(job) \/ PreprocessError(job)

Step ==
    \/ NextInput \/ NextInputError \/ Finish
    \/ ReadLine \/ ReadLineError \/ EndOfFile \/ UnterminatedIf
    \/ FlushText \/ FlushPragma \/ FlushDone \/ FlushError
    \/ If \/ Ifdef \/ SkippedIf \/ Elif \/ Else \/ Endif \/ ConditionalError
    \/ Ignored \/ ExecDefine \/ ExecDefineUnrecorded \/ ExecUndef \/ ExecPragma
    \/ ExecInclude \/ ExecLine \/ ExecMarker \/ DirectiveError \/ LeaveSource

\* A file that cannot be opened or read, a line that does not lex, a malformed
\* operand or invocation, an expression without a value, an expansion limit:
\* whatever is being read may turn out to be wrong.
InputError == status = "running" /\ Fail

Next == Entry \/ Step \/ InputError

\* One thread runs the preprocessor: it never stops between two steps.  Wrong
\* input is possible and never promised.
Spec == Init /\ [][Next]_vars /\ WF_vars(Step)

-----------------------------------------------------------------------------
(* Properties *)

Running == status = "running"

TypeOK ==
    /\ MacroTypeOK
    /\ status \in {"idle", "running", "ok", "failed"}
    /\ phase \in {"line", "flush", "exec"}
    /\ line \in AllLines \cup {None, Eof}
    /\ \A p \in once \cup reads : p \in Sites
    /\ dependencies \subseteq Files
    /\ {tokens, source_bytes, output_tokens, output} \subseteq Nat
    /\ documentation_system \in BOOLEAN
    /\ frames = <<>> => phase = "line"
    /\ phase # "line" => line # None

\* The groups of one file: text inside a group is active only if every
\* enclosing group is, a group may still take a branch only while none of its
\* branches was taken and its surroundings are active, and at most one branch
\* of a group is ever active; the #else branch is, if no other was.
GroupsNest(conditions) ==
    \A i \in DOMAIN conditions :
        LET c == conditions[i]
            outer == ActiveIn(SubSeq(conditions, 1, i - 1))
        IN  /\ c.active \/ c.can_take_branch => outer
            /\ c.can_take_branch => c.taken = 0 /\ ~c.active /\ ~c.seen_else
            /\ c.active => c.taken = 1
            /\ c.taken <= 1
            /\ outer /\ c.seen_else => c.taken = 1
            /\ ~outer => c.taken = 0

\* ... and a file is read only from an active place of the files including it.
ConditionalGroups ==
    /\ \A k \in DOMAIN frames : GroupsNest(frames[k].conditions)
    /\ \A k \in 1..(Len(frames) - 1) : ActiveIn(frames[k].conditions)

\* #pragma once: a file is never entered by inclusion once any name of the
\* same inode has executed the pragma in this translation unit.
Inodes(paths) == {Inode[f] : f \in paths \cap Files}

OnceHonoured ==
    [][(Len(frames') > Len(frames) /\ ~frames'[Len(frames')].main
          /\ frames'[Len(frames')].path \in Files)
         => Inode[frames'[Len(frames')].path] \notin Inodes(once)]_vars

\* A path is suppressed only on account of a source read in this translation
\* unit: nothing remembered from an earlier, finished or failed one counts.
OnceOnlyAfterRead ==
    Running => \A p \in once : p \in reads \/ (p \in Files /\ Inode[p] \in Inodes(reads))

\* Every file whose text was read is a dependency of the translation unit.
DependenciesComplete == Running \/ status = "ok" => reads \cap Files \subseteq dependencies

\* Text is expanded in the environment of its own line: no directive that
\* follows it, of this file or of a file included after it, can change what
\* its names mean before they are written.
TextSeesItsLine == \A e \in emitted : e.seen # None => e.seen = e.found

Tiles(maps, end) ==
    /\ \A i \in DOMAIN maps :
          /\ maps[i].start < maps[i].end
          /\ maps[i].start = IF i = 1 THEN 0 ELSE maps[i - 1].end
    /\ end = IF maps = <<>> THEN 0 ELSE maps[Len(maps)].end

\* Both maps tile the output: every byte has exactly one entry, in order, which
\* is what the binary search of resolve_location and FileOrigins::mapping
\* relies on; and they agree on the file each byte comes from.
OutputMapped ==
    /\ Tiles(mappings, output)
    /\ Running /\ phase # "flush" =>
        /\ Tiles(file_mappings, output)
        /\ \A i \in DOMAIN mappings : \E j \in DOMAIN file_mappings :
              /\ file_mappings[j].start <= mappings[i].start
              /\ mappings[i].end <= file_mappings[j].end
              /\ file_mappings[j].path = mappings[i].file

\* No resource outgrows its limit, the output and the include stack included;
\* an in-memory input is outermost and is not counted as an include.
WithinLimits ==
    /\ source_bytes <= MaxSourceBytes \/ ~Running
    /\ tokens <= MaxTokens /\ output_tokens <= MaxTokens
    /\ output <= MaxSourceBytes
    /\ macro_stack_bytes <= MaxSourceBytes
    /\ Len(frames) <= Max({1, MaxIncludeDepth})
    /\ \A k \in DOMAIN frames :
          /\ Len(frames[k].conditions) <= ConditionalLimit
          /\ Len(frames[k].markers) <= MaxIncludeDepth

\* The state is well typed, a directive is in progress only inside a source, and
\* the limits hold, at whatever line an error or a marker interrupts the driver.
DriverInv == TypeOK /\ WithinLimits

\* The origin table names the active definition while the unit is processed,
\* and in the result of a finished one.
Provenance == Running \/ status = "ok" => OriginMatchesDefinition

\* Whatever line markers, system_header pragmas and includes did, and however
\* the sources ended, the system flag is back to its initial value outside
\* every source.
SystemFlagRestored == frames = <<>> => ~documentation_system

\* The driver's structure: groups nest and take one branch, an included file is
\* read only from an active place, limits hold at whatever line an error or a
\* marker interrupts, and the system flag is back to its initial value outside
\* every source.
StructureKept == ConditionalGroups /\ SystemFlagRestored /\ DriverInv

\* The driver's text: it is expanded in the environment of its own line although
\* it is flushed later, both maps tile the output, and the origin table names
\* the definition in force.
TextExact == TextSeesItsLine /\ OutputMapped /\ Provenance

\* #pragma once, over both names of an inode: a file is entered again by no
\* include, suppressed on account of nothing read in an earlier call, and every
\* file read is a dependency.
IncludesExact == [](OnceOnlyAfterRead /\ DependenciesComplete) /\ OnceHonoured

\* Every run ends, self-inclusion without guards included.
Terminates == Running ~> ~Running

-----------------------------------------------------------------------------
(* What the proofs carry from step to step. *)

\* Names a source may have in locations, and an input and a source being read.
Presumed == Sites \cup {l.file : l \in {m \in AllLines : m.kind \in {"line", "marker"}}}

InputTypes ==
    [kind : {"forced"}, path : Virtual, job : DOMAIN Lines]
      \cup [kind : {"header", "main"}, path : Files, job : DOMAIN Lines]
      \cup [kind : {"str"}, path : Sites, job : DOMAIN Lines]

Groups == [active : BOOLEAN, can_take_branch : BOOLEAN, seen_else : BOOLEAN, taken : Nat]

FrameTypes ==
    [path : Sites, identity : Sites, main : BOOLEAN, system : BOOLEAN, left : Nat,
     conditions : Seq(Groups), pending : Seq(TextTokens(AllMeanings \cup {None})),
     logical : Presumed, markers : Seq(Presumed), job : DOMAIN Lines, saved_system : BOOLEAN]

\* A group in an active place that takes no more branches has taken one.
GroupsUsed(conditions) ==
    \A i \in DOMAIN conditions :
        ActiveIn(SubSeq(conditions, 1, i - 1)) /\ ~conditions[i].can_take_branch
            => conditions[i].taken = 1

\* What holds of a source wherever it is in the include stack ...
SoundFrames ==
    {f \in FrameTypes : /\ GroupsNest(f.conditions) /\ GroupsUsed(f.conditions)
                        /\ Len(f.conditions) <= ConditionalLimit
                        /\ Len(f.markers) <= MaxIncludeDepth}

\* ... and of one that waits for a source it includes: it is at an active place,
\* with nothing left to flush.
Waits(f) == ActiveIn(f.conditions) /\ f.pending = <<>>

StackSound ==
    /\ frames \in Seq(SoundFrames)
    /\ \A k \in 1 .. (Len(frames) - 1) : Waits(frames[k])
    /\ frames # <<>> => ~frames[1].saved_system
    /\ frames = <<>> => ~documentation_system
    /\ Len(frames) <= Max({1, MaxIncludeDepth})

ControlSound ==
    /\ status \in {"idle", "running", "ok", "failed"}
    /\ inputs \in Seq(InputTypes)
    /\ phase \in {"line", "flush", "exec"}
    /\ status # "running" => frames = <<>>
    /\ frames = <<>> => phase = "line"
    /\ phase = "line" => line = None
    /\ phase # "line" => line \in {l \in AllLines : l.kind # "text"} \cup {Eof}
    /\ phase = "exec" => Top.pending = <<>>
    /\ documentation_system \in BOOLEAN
    /\ tokens \in 0 .. MaxTokens

MacrosSound ==
    /\ MacroTypeOK /\ OneMeaning /\ SnapshotsSound
    /\ status # "failed" => OriginMatchesDefinition
    /\ macro_stack_bytes <= MaxSourceBytes

\* A name waiting in the text of a source means what it meant when it was read,
\* up to the first pragma that waits with it.
PendingCurrent ==
    frames # <<>> =>
        \A i \in DOMAIN Top.pending :
            LET tok == Top.pending[i]
            IN  tok.kind = "name" /\ tok.seen # None =>
                    /\ tok.seen = Meaning(tok.name)
                    /\ \A j \in 1 .. (i - 1) : ~IsPragma(Top.pending[j])

\* Up to here the sources of the output are known; what a flush has written since
\* comes from the source it flushes.
Mark == IF phase = "flush" THEN flush.start ELSE output

Covered(m) ==
    \E j \in DOMAIN file_mappings :
        /\ file_mappings[j].start <= m.start /\ m.end <= file_mappings[j].end
        /\ file_mappings[j].path = m.file

OutputSound ==
    /\ output_tokens \in 0 .. MaxTokens /\ output \in Nat /\ output <= MaxSourceBytes
    /\ flush \in [start : Nat, had_pragma : BOOLEAN]
    /\ mappings \in Seq([start : Nat, end : Nat, path : Presumed, file : Sites])
    /\ file_mappings \in Seq([start : Nat, end : Nat, path : Sites, system : BOOLEAN])
    /\ Tiles(mappings, output)
    /\ Running =>
        /\ Mark <= output
        /\ Tiles(file_mappings, Mark)
        /\ \A i \in DOMAIN mappings :
              /\ mappings[i].end <= output
              /\ \/ Covered(mappings[i])
                 \/ /\ phase = "flush" /\ Mark <= mappings[i].start
                    /\ mappings[i].file = Top.path

\* What the source in a frame is called and which file it is.
Identified(path, identity) ==
    /\ path \in reads
    /\ \/ identity = path
       \/ path \in Files /\ identity \in Files /\ Inode[identity] = Inode[path]
    /\ identity \in Files /\ Linked(identity) => hardlinks[Inode[identity]] = identity

\* In-memory sources are not named like files; what they do to #pragma once would
\* otherwise count for the file of that name.
NamedApart ==
    /\ Virtual \cap Files = {}
    /\ \A job \in Jobs : job.kind = "str" => job.main \notin Files

IncludesSound ==
    /\ source_bytes \in Nat /\ (Running => source_bytes <= MaxSourceBytes)
    /\ reads \subseteq Sites /\ once \subseteq Sites /\ dependencies \subseteq Files
    /\ hardlinks \in [{Inode[f] : f \in Files} -> Files \cup {None}]

LinksSound ==
    /\ \A f \in Files : hardlinks[Inode[f]] # None => Inode[hardlinks[Inode[f]]] = Inode[f]
    /\ \A k \in DOMAIN frames : Identified(frames[k].path, frames[k].identity)
    /\ \A i \in DOMAIN inputs :
          /\ inputs[i].kind = "str" => inputs[i].path \notin Files
          /\ inputs[i].kind = "main" =>
                /\ inputs[i].path \in dependencies
                /\ Linked(inputs[i].path) => hardlinks[Inode[inputs[i].path]] # None
    /\ \A p \in once :
          /\ p \in reads \/ (p \in Files /\ Inode[p] \in Inodes(reads))
          /\ p \in Files /\ Linked(p) => hardlinks[Inode[p]] = p
    /\ reads \cap Files \subseteq dependencies

DriverSound == StackSound /\ ControlSound /\ MacrosSound /\ IncludesSound
PreprocessorInv == DriverSound /\ PendingCurrent /\ TextSeesItsLine /\ OutputSound
=============================================================================
