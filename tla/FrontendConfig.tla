--------------------------- MODULE FrontendConfig ---------------------------
(* From arguments to a preprocessing configuration: the bindgen-compatible     *)
(* builder reads Clang arguments in two passes (arguments.rs), the command     *)
(* line merges clap's lists by argument index (main.rs), and both start from   *)
(* the profile's defaults (Config::with_profile) and apply definitions through *)
(* the Clang C90 normaliser, whose comment state runs over all of them.        *)
EXTENDS Integers, Sequences, FiniteSets, SequencesExt

CONSTANTS ConfigJobs,       \* [driver, words, extra, cargo, host, compiler, preprocessing]
          Meaning,          \* what a word spells: word -> [option, value]; value is "" when it is the next word
          DefinitionOf,     \* a -D operand: word -> [name, parameters, body]
          MaxDefinitionBytes
VARIABLES configJob, configPhase, configAt, resolved, config
configVars == <<configJob, configPhase, configAt, resolved, config>>

Targets == {"linux", "armv7", "windows", "darwin"}
Modes == {"gnu11", "c90", "c11"}
is_gnu(mode) == mode = "gnu11"
NoOption == [option |-> "", operand |-> ""]

-----------------------------------------------------------------------------
(* Defaults of a profile.                                                      *)
Profile(target, compiler, mode) == [target |-> target, compiler |-> compiler, mode |-> mode]
default_compiler(target) == IF target = "linux" THEN "gnu" ELSE "clang"
ProfileSupported(target, compiler) == compiler = "clang" \/ target = "linux"
default_trigraphs(p) == ~ is_gnu(p.mode) /\ p.target # "windows"
line_comments(p) == CASE p.mode # "c90" -> "Enabled"
                      [] p.mode = "c90" /\ p.compiler = "gnu" -> "GnuC90"
                      [] OTHER -> "ClangC90"
\* The platform macros of which a driver may undefine some; a strict mode has fewer.
predefined_macros(p) ==
    {[name |-> n, parameters |-> FALSE, body |-> "plain"] :
        n \in (IF p.target \in {"linux", "armv7"} THEN {"__linux__"} \union (IF is_gnu(p.mode) THEN {"linux"} ELSE {}) ELSE {})
              \union (IF ~ is_gnu(p.mode) /\ p.target # "windows" THEN {"__STRICT_ANSI__"} ELSE {})}

\* Config::with_profile.
with_profile(p) ==
    [profile |-> p,
     ms_extensions |-> p.target = "windows" /\ p.compiler = "clang",
     scope_punctuator |-> p.compiler = "clang" \/ is_gnu(p.mode),
     trigraphs |-> default_trigraphs(p),
     line_comments |-> line_comments(p),
     macro_mode |-> IF p.compiler = "gnu" THEN "GnuCommandLine" ELSE "ClangCommandLine",
     defines |-> predefined_macros(p),
     disabled |-> {},
     forced |-> IF p.target \in {"windows", "armv7"} THEN <<>> ELSE <<"integer-types.h">>,
     include_dirs |-> <<>>, system_dirs |-> <<>>, sysroot |-> "",
     comments |-> {},
     normalizer |-> [on |-> FALSE, enabled |-> FALSE, bytes |-> 0],
     error |-> FALSE]

-----------------------------------------------------------------------------
(* Definitions.                                                                *)
Fail(c) == [c EXCEPT !.error = TRUE]
start_normalizer(c) == [c EXCEPT !.normalizer.on = c.line_comments = "ClangC90"]

\* A body's slashes under the running comment state: a `//` not followed by `*` turns line comments on.
line_comment(enabled, body) == enabled \/ body = "line"
prepare(enabled, body) ==
    CASE body = "plain" -> body
      [] body = "line" -> "cut"
      [] OTHER -> IF enabled THEN "cut" ELSE "divided"

DefineByKey(c, d, body) ==
    [c EXCEPT !.defines = {x \in @ : <<x.name, x.parameters>> # <<d.name, d.parameters>>} \union {[d EXCEPT !.body = body]}]
DefineName(c, d, body) ==
    [c EXCEPT !.defines = {x \in @ : x.name # d.name} \union {[d EXCEPT !.body = body]}]
define_command_line(c, d) ==
    LET n == c.normalizer
    IN IF ~ n.on THEN DefineName(c, d, d.body)
       ELSE IF n.bytes + 1 > MaxDefinitionBytes THEN Fail(c)
       ELSE DefineName([c EXCEPT !.normalizer.bytes = @ + 1, !.normalizer.enabled = line_comment(@, d.body)],
                       d, prepare(n.enabled, d.body))
Queries == {"__has_builtin"}
undefine(c, name) == [c EXCEPT !.defines = {x \in @ : x.name # name},
                               !.disabled = @ \union (Queries \intersect {name})]
finish_definitions(c) == IF c.normalizer.on THEN [c EXCEPT !.macro_mode = "Tokens"] ELSE c

\* The sysroot's directories come after every explicit system directory.
Multiarch(target) == IF target \in {"linux", "armv7"} THEN <<"usr/include/multiarch">> ELSE <<>>
add_sysroot(c, sysroot) ==
    IF sysroot = "" THEN c
    ELSE [c EXCEPT !.sysroot = sysroot, !.system_dirs = @ \o Multiarch(c.profile.target) \o <<"usr/include">>]

-----------------------------------------------------------------------------
(* arguments.rs.                                                               *)
OperandOptions == {"target", "I", "D", "U", "isystem", "sysroot", "include", "x"}
takes_next(word) == Meaning[word].option \in OperandOptions /\ Meaning[word].value = ""
Words == configJob.words

\* The first of the three variables that is set, target-specific ones only for a Cargo target.
ExtraArguments(job) ==
    LET some(s) == s # {}
        named == IF job.cargo = "" THEN {} ELSE IF some(job.extra.exact) THEN job.extra.exact ELSE job.extra.underscored
    IN IF some(named) THEN CHOOSE e \in named : TRUE
       ELSE IF some(job.extra.generic) THEN CHOOSE e \in job.extra.generic : TRUE
       ELSE <<>>

ConfigInit ==
    /\ configJob = [driver |-> "none"] /\ configPhase = "idle" /\ configAt = 0
    /\ resolved = [target |-> "", mode |-> "gnu11", trigraphs |-> "unset"]
    /\ config = [error |-> FALSE]

StartBuilder ==
    /\ configPhase = "idle"
    /\ \E job \in {j \in ConfigJobs : j.driver = "builder"} :
          /\ configJob' = [job EXCEPT !.words = @ \o ExtraArguments(job)]
          /\ resolved' = [resolved EXCEPT !.target = job.cargo]
    /\ configPhase' = "resolve" /\ configAt' = 1
    /\ UNCHANGED config

Stop == /\ configPhase' = "failed" /\ config' = [error |-> TRUE]
        /\ UNCHANGED <<configJob, configAt, resolved>>

\* The first pass: target, mode and trigraphs; other operands are stepped over.
ResolveSkips(word) == IF takes_next(word) THEN 2 ELSE 1
ResolveOneWord(word) == 1
ResolveStep(word) == ResolveSkips(word)
Resolve(word, next) ==
    LET m == Meaning[word] IN
    CASE m.option = "std" -> [resolved EXCEPT !.mode = m.value, !.trigraphs = "unset"]
      [] m.option = "trigraphs" -> [resolved EXCEPT !.trigraphs = "on"]
      [] m.option = "no-trigraphs" -> [resolved EXCEPT !.trigraphs = "off"]
      [] m.option = "target" -> [resolved EXCEPT !.target = IF m.value = "" THEN next ELSE m.value]
      [] OTHER -> resolved
ResolveArgument ==
    /\ configPhase = "resolve" /\ configAt <= Len(Words)
    /\ LET word == Words[configAt]
           missing == takes_next(word) /\ configAt = Len(Words)
           badMode == Meaning[word].option = "std" /\ Meaning[word].value \notin Modes
       IN IF missing \/ badMode THEN Stop
          ELSE /\ resolved' = Resolve(word, IF configAt < Len(Words) THEN Words[configAt + 1] ELSE "")
               /\ configAt' = configAt + ResolveStep(word)
               /\ UNCHANGED <<configJob, configPhase, config>>

clang_config ==
    LET target == IF resolved.target = "" THEN configJob.host ELSE resolved.target
        c == with_profile(Profile(target, "clang", resolved.mode))
    IN start_normalizer(IF resolved.trigraphs = "unset" THEN c ELSE [c EXCEPT !.trigraphs = resolved.trigraphs = "on"])
Resolved ==
    /\ configPhase = "resolve" /\ configAt > Len(Words)
    /\ IF (IF resolved.target = "" THEN configJob.host ELSE resolved.target) \notin Targets THEN Stop
       ELSE /\ config' = clang_config /\ configPhase' = "apply" /\ configAt' = 1
            /\ UNCHANGED <<configJob, resolved>>

\* The second pass.
apply_option(c, option, operand) ==
    CASE option = "I" -> [c EXCEPT !.include_dirs = Append(@, operand)]
      [] option = "D" -> define_command_line(c, DefinitionOf[operand])
      [] option = "U" -> undefine(c, operand)
      [] option = "isystem" -> [c EXCEPT !.system_dirs = Append(@, operand)]
      [] option = "sysroot" -> [c EXCEPT !.sysroot = operand]
      [] option = "include" -> [c EXCEPT !.forced = Append(@, operand)]
      [] option = "x" -> IF operand = "c" THEN c ELSE Fail(c)
      [] option = "comments" -> [c EXCEPT !.comments = @ \union {operand}]
      [] option \in {"target", "std", "trigraphs", "no-trigraphs"} -> c
      [] OTHER -> Fail(c)
ApplyArgument ==
    /\ configPhase = "apply" /\ configAt <= Len(Words) /\ ~ config.error
    /\ LET word == Words[configAt]
           m == Meaning[word]
       IN /\ config' = apply_option(config, m.option, IF takes_next(word) THEN Words[configAt + 1] ELSE m.value)
          /\ configAt' = configAt + (IF takes_next(word) THEN 2 ELSE 1)
    /\ UNCHANGED <<configJob, configPhase, resolved>>
BuilderFails == configPhase = "apply" /\ config.error /\ Stop
BuilderDone ==
    /\ configPhase = "apply" /\ configAt > Len(Words) /\ ~ config.error
    /\ config' = add_sysroot(finish_definitions(config), config.sysroot)
    /\ configPhase' = "done" /\ UNCHANGED <<configJob, configAt, resolved>>

-----------------------------------------------------------------------------
(* main.rs.  Clap has split the words into one list per option, with indices.  *)
Operand(words, i) == IF takes_next(words[i]) THEN words[i + 1] ELSE Meaning[words[i]].value
RECURSIVE OptionStarts(_, _)
OptionStarts(words, i) == IF i > Len(words) THEN {} ELSE {i} \union OptionStarts(words, i + (IF takes_next(words[i]) THEN 2 ELSE 1))
indices_of(options) == SetToSortSeq({i \in OptionStarts(Words, 1) : Meaning[Words[i]].option \in options}, LAMBDA a, b : a < b)
values_of(option) == LET at == indices_of({option}) IN [k \in 1..Len(at) |-> Operand(Words, at[k])]

LastIndex(options) == LET at == indices_of(options) IN IF at = <<>> THEN 0 ELSE at[Len(at)]
ExplicitTrigraphs == LET last == LastIndex({"trigraphs", "no-trigraphs"}) IN IF last > 0 /\ last > LastIndex({"std"}) THEN last ELSE 0
preprocessing_comments(mode) ==
    CASE mode = "GnuC90" -> "GnuC90Preprocessing" [] mode = "ClangC90" -> "ClangC90Preprocessing" [] OTHER -> mode

\* Input::config up to the definitions; resolved.mode and resolved.target are the last ones given.
CliConfig(target, compiler, mode) ==
    LET base == with_profile(Profile(target, compiler, mode))
        commented == IF configJob.preprocessing THEN [base EXCEPT !.line_comments = preprocessing_comments(@)] ELSE base
        trigraphed == IF ExplicitTrigraphs = 0 THEN commented
                      ELSE [commented EXCEPT !.trigraphs = Meaning[Words[ExplicitTrigraphs]].option = "trigraphs"]
        dirs == [trigraphed EXCEPT !.include_dirs = values_of("I"), !.system_dirs = values_of("isystem")]
        roots == values_of("sysroot")
    IN start_normalizer(IF roots = <<>> THEN dirs ELSE add_sysroot(dirs, roots[Len(roots)]))
StartCli ==
    /\ configPhase = "idle"
    /\ \E job \in {j \in ConfigJobs : j.driver = "cli"} : configJob' = job
    /\ configPhase' = "cli" /\ configAt' = 0 /\ UNCHANGED <<resolved, config>>
ConfigureCli ==
    /\ configPhase = "cli"
    /\ LET targets == values_of("target")
           modes == values_of("std")
           target == IF targets = <<>> THEN configJob.host ELSE targets[Len(targets)]
           compiler == IF configJob.compiler = "" THEN default_compiler(target) ELSE configJob.compiler
       IN IF target \notin Targets \/ ~ ProfileSupported(target, compiler) THEN Stop
          ELSE /\ config' = CliConfig(target, compiler, IF modes = <<>> THEN "gnu11" ELSE modes[Len(modes)])
               /\ resolved' = [defined |-> 0, undefined |-> 0]
               /\ configPhase' = "merge" /\ UNCHANGED <<configJob, configAt>>

\* Which list the next command-line macro comes from: the lower argument index.
DefineFirst(defines, undefines) == defines # <<>>
LowerIndex(defines, undefines) == defines # <<>> /\ (undefines = <<>> \/ defines[1] < undefines[1])
define_next(defines, undefines) == LowerIndex(defines, undefines)
MergeMacro ==
    /\ configPhase = "merge" /\ ~ config.error
    /\ LET defines == indices_of({"D"})
           undefines == indices_of({"U"})
           restOf(s, n) == SubSeq(s, n + 1, Len(s))
           left == restOf(defines, resolved.defined)
           right == restOf(undefines, resolved.undefined)
       IN /\ left # <<>> \/ right # <<>>
          /\ IF define_next(left, right)
             THEN /\ config' = define_command_line(config, DefinitionOf[Operand(Words, left[1])])
                  /\ resolved' = [resolved EXCEPT !.defined = @ + 1]
             ELSE /\ config' = undefine(config, Operand(Words, right[1]))
                  /\ resolved' = [resolved EXCEPT !.undefined = @ + 1]
    /\ UNCHANGED <<configJob, configPhase, configAt>>
CliFails == configPhase = "merge" /\ config.error /\ Stop
CliDone ==
    /\ configPhase = "merge" /\ ~ config.error
    /\ resolved.defined = Len(indices_of({"D"})) /\ resolved.undefined = Len(indices_of({"U"}))
    /\ config' = finish_definitions(config)
    /\ configPhase' = "done" /\ UNCHANGED <<configJob, configAt, resolved>>

ConfigNext ==
    \/ StartBuilder \/ ResolveArgument \/ Resolved \/ ApplyArgument \/ BuilderFails \/ BuilderDone
    \/ StartCli \/ ConfigureCli \/ MergeMacro \/ CliFails \/ CliDone
ConfigSpec == ConfigInit /\ [][ConfigNext]_configVars

-----------------------------------------------------------------------------
(* The reference reads the words once, as a compiler driver would.             *)
Given(options) == {i \in OptionStarts(Words, 1) : Meaning[Words[i]].option \in options}
LastOf(s) == CHOOSE i \in s : \A j \in s : j <= i
LastOperand(option, default) == IF Given({option}) = {} THEN default ELSE Operand(Words, LastOf(Given({option})))
WantedTarget == LastOperand("target", IF configJob.driver = "builder" /\ configJob.cargo # "" THEN configJob.cargo ELSE configJob.host)
WantedMode == LastOperand("std", "gnu11")
WantedCompiler == IF configJob.driver = "builder" THEN "clang"
                  ELSE IF configJob.compiler # "" THEN configJob.compiler ELSE default_compiler(WantedTarget)
WantedProfile == Profile(WantedTarget, WantedCompiler, WantedMode)
\* A later -std forgets the trigraph flags before it.
WantedTrigraphs ==
    LET flags == {i \in Given({"trigraphs", "no-trigraphs"}) : \A j \in Given({"std"}) : j < i}
    IN IF flags = {} THEN default_trigraphs(WantedProfile) ELSE Meaning[Words[LastOf(flags)]].option = "trigraphs"

NameAt(i) == IF Meaning[Words[i]].option = "D" THEN DefinitionOf[Operand(Words, i)].name ELSE Operand(Words, i)
Normalized == line_comments(WantedProfile) = "ClangC90" /\ ~ (configJob.driver = "cli" /\ configJob.preprocessing)
WantedBody(i) ==
    LET body == DefinitionOf[Operand(Words, i)].body
        opened == \E j \in Given({"D"}) : j < i /\ DefinitionOf[Operand(Words, j)].body = "line"
    IN IF Normalized THEN prepare(opened, body) ELSE body
\* The last word about a name decides, whatever its parameters and whatever came before.
WantedDefines ==
    LET touched == {NameAt(i) : i \in Given({"D", "U"})}
        last(n) == LastOf({i \in Given({"D", "U"}) : NameAt(i) = n})
    IN {d \in predefined_macros(WantedProfile) : d.name \notin touched}
       \union {[DefinitionOf[Operand(Words, last(n))] EXCEPT !.body = WantedBody(last(n))] :
                   n \in {m \in touched : Meaning[Words[last(m)]].option = "D"}}
InOrder(option) == LET at == SetToSortSeq(Given({option}), LAMBDA a, b : a < b) IN [k \in 1..Len(at) |-> Operand(Words, at[k])]
WantedSystem ==
    InOrder("isystem") \o (IF Given({"sysroot"}) = {} THEN <<>> ELSE Multiarch(WantedTarget) \o <<"usr/include">>)

MissingOperand == \E i \in OptionStarts(Words, 1) : takes_next(Words[i]) /\ i = Len(Words)
Malformed ==
    IF MissingOperand THEN TRUE ELSE
    \/ WantedTarget \notin Targets \/ ~ ProfileSupported(WantedTarget, WantedCompiler)
    \/ \E i \in OptionStarts(Words, 1) :
          \/ Meaning[Words[i]].option = "std" /\ Meaning[Words[i]].value \notin Modes
          \/ Meaning[Words[i]].option = "plain"
          \/ Meaning[Words[i]].option = "x" /\ Operand(Words, i) # "c"
    \/ Normalized /\ Cardinality(Given({"D"})) > MaxDefinitionBytes

\* Both drivers end with the configuration a single left-to-right reading of the words gives: the last target
\* and standard, the trigraph flags since that standard, every directory in order, and for each macro name the
\* last -D or -U, in Clang's C90 mode with the line comments that earlier definitions turned on; an operand that
\* looks like an option is only an operand, and they refuse exactly the malformed lists
\* (from_arguments_and_comments and Input::config).
ConfigurationExact ==
    /\ configPhase = "failed" => Malformed
    /\ configPhase = "done" =>
        /\ ~ Malformed
        /\ config.profile = WantedProfile
        /\ config.trigraphs = WantedTrigraphs
        /\ config.defines = WantedDefines
        /\ config.include_dirs = InOrder("I") /\ config.system_dirs = WantedSystem
        /\ Queries \intersect {Operand(Words, i) : i \in Given({"U"})} = config.disabled
        /\ (config.macro_mode = "Tokens") = Normalized
=============================================================================
