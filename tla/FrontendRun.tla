----------------------------- MODULE FrontendRun -----------------------------
(* One command from the command line or the bindgen-compatible builder to its  *)
(* files and exit status: the worker-stack sessions that nest (toucan_stack),  *)
(* the facade's phases and its account of macros (toucan), and the writes of   *)
(* report and bindings in place (toucan_cli, toucan_bindgen).                  *)
EXTENDS Integers, Sequences, FiniteSets

CONSTANTS RunJobs,      \* commands with their options and the macros of the final environment
          Setters,      \* derive setters a builder may be given: [trait, enabled] or an invalid one
          Macros,       \* [name, kind, selected, reserved, declared, function]: kind is what the replacement is
          RawLines      \* lines a builder writes before the declarations

Commands == {"preprocess", "inspect", "check", "bindgen", "builder"}
\* An environment has one macro of a name.
ASSUME RunAssumption ==
    /\ RunJobs \subseteq [command : Commands, report : BOOLEAN, deny : BOOLEAN, raw : Seq(RawLines), selects_all : BOOLEAN, macros : Seq(Macros)]
    /\ \A job \in RunJobs : \A i, j \in DOMAIN job.macros : job.macros[i].name = job.macros[j].name => i = j
    /\ \A m \in Macros : {m.selected, m.reserved, m.declared, m.function} \subseteq BOOLEAN
    /\ \A s \in Setters : s.enabled \in BOOLEAN

VARIABLES runJob, frames, live, flagged, unwinding,
          work,         \* the threads on which recursive frontend code has run
          account,      \* macros seen, their table, the skipped names and the counts
          builder,      \* derive flags and the first recorded error
          disk,         \* what each destination holds
          brokenPipe, exit
runVars == <<runJob, frames, live, flagged, unwinding, work, account, builder, disk, brokenPipe, exit>>

MainThread == 0
Top == frames[Len(frames)]
Step == Head(Top.steps)
Sessions == {"preprocess", "parse_file", "analyze", "parse", "bindings", "binding_parts", "evaluate"}
Recursive == {"do_preprocess", "do_parse", "check", "do_evaluate", "emit"}

\* What runs inside a session, in order.
MacroSteps(n) == [i \in 1 .. 3 * n |-> CASE i % 3 = 1 -> "macro" [] i % 3 = 2 -> "evaluate" [] OTHER -> "record"]
Body(job, session) ==
    CASE session = "preprocess" -> <<"do_preprocess">>
      [] session = "parse_file" -> <<"preprocess", "analyze">>
      [] session = "analyze" -> <<"parse", "check">>
      [] session = "parse" -> <<"do_parse">>
      [] session = "evaluate" -> <<"parse", "do_evaluate">>
      [] session = "bindings" -> Append(MacroSteps(Len(job.macros)), "emit")
      [] OTHER -> <<"counts", "emit">>
ProgramDeniesLast(job) ==
    IF job.command = "bindgen" THEN <<"policies", "config", "parse_file", "bindings", "write", "deny">>
    ELSE IF job.command = "check" THEN <<"config", "parse_file">> ELSE <<"config", "preprocess", "write">>
\* The commands of main.rs and the builder's generate and write.
Program(job) ==
    LET report == IF job.report THEN <<"report">> ELSE <<>> IN
    CASE job.command = "preprocess" -> <<"config", "preprocess", "write">>
      [] job.command = "inspect" -> <<"config", "parse_file", "serialize", "write">>
      [] job.command = "check" -> <<"config", "parse_file">>
      [] job.command = "bindgen" -> <<"policies", "config", "parse_file", "bindings">> \o report \o <<"deny", "write">>
      [] OTHER -> <<"setters", "config", "parse_file", "select", "binding_parts", "create", "banner", "raw", "declarations">>
\* Setters pass through the caller's code; every other named step may report an error.
Fallible == {"config", "policies", "do_preprocess", "do_parse", "check", "serialize", "select", "emit"}
Evaluating == \E i \in DOMAIN frames : frames[i].session = "evaluate"

RunInit ==
    /\ runJob = [command |-> "none"] /\ frames = <<>> /\ live = {} /\ flagged = {} /\ unwinding = "no" /\ work = {}
    /\ account = [seen |-> 0, table |-> {}, skipped |-> {}, counts |-> [integer |-> 0, float |-> 0, string |-> 0]]
    /\ builder = [partial_eq |-> FALSE, eq |-> FALSE, error |-> ""]
    /\ disk = [report |-> "absent", output |-> <<>>]
    /\ brokenPipe = FALSE /\ exit = "running"

StartCommand ==
    /\ runJob.command = "none"
    /\ \E job \in RunJobs : /\ runJob' = job
                            /\ frames' = <<[session |-> "main", steps |-> Program(job), thread |-> MainThread, spawned |-> FALSE]>>
    /\ UNCHANGED <<live, flagged, unwinding, work, account, builder, disk, brokenPipe, exit>>

Running(step) == frames # <<>> /\ unwinding = "no" /\ Top.steps # <<>> /\ Step = step /\ exit = "running"
Advanced(n) == [frames EXCEPT ![Len(frames)].steps = SubSeq(@, n + 1, Len(@))]
Raise(kind) == unwinding' = kind /\ UNCHANGED <<runJob, frames, live, flagged, work, account, builder, disk, brokenPipe, exit>>

-----------------------------------------------------------------------------
(* with_stack.                                                                 *)
Frame(session, thread, spawned) == [session |-> session, steps |-> Body(runJob, session), thread |-> thread, spawned |-> spawned]
WorkerFlag(worker) == {worker}
CallerFlag(worker) == {worker, Top.thread}
SetsFlag(worker) == WorkerFlag(worker)
with_stack(session) ==
    /\ Running(session)
    /\ IF Top.thread \in flagged
       THEN /\ frames' = Append(Advanced(1), Frame(session, Top.thread, FALSE))
            /\ UNCHANGED <<live, flagged>>
       ELSE LET worker == Cardinality(live) + Top.thread + 1
            IN /\ frames' = Append(Advanced(1), Frame(session, worker, TRUE))
               /\ live' = live \union {worker}
               /\ flagged' = flagged \union SetsFlag(worker)
    /\ UNCHANGED <<runJob, unwinding, work, account, builder, disk, brokenPipe, exit>>
SpawnFails(session) == Running(session) /\ Top.thread \notin flagged /\ Raise("error")

LeaveWhenDone ==
    /\ Len(frames) > 1 /\ Top.steps = <<>>
    /\ frames' = SubSeq(frames, 1, Len(frames) - 1)
    /\ live' = IF Top.spawned THEN live \ {Top.thread} ELSE live
    /\ flagged' = IF Top.spawned THEN flagged \ {Top.thread} ELSE flagged
    /\ UNCHANGED <<runJob, unwinding, work, account, builder, disk, brokenPipe, exit>>
\* The operation is over, one way or another: a spawned worker is joined, its result or panic goes to the caller.
Leave ==
    /\ Len(frames) > 1 /\ (Top.steps = <<>> \/ unwinding # "no")
    /\ frames' = SubSeq(frames, 1, Len(frames) - 1)
    /\ live' = IF Top.spawned THEN live \ {Top.thread} ELSE live
    /\ flagged' = IF Top.spawned THEN flagged \ {Top.thread} ELSE flagged
    /\ UNCHANGED <<runJob, unwinding, work, account, builder, disk, brokenPipe, exit>>

-----------------------------------------------------------------------------
(* Phases of the facade.                                                       *)
Phase(step) ==
    /\ Running(step)
    /\ frames' = Advanced(1)
    /\ work' = IF step \in Recursive THEN work \union {Top.thread} ELSE work
    /\ UNCHANGED <<runJob, live, flagged, unwinding, account, builder, disk, brokenPipe, exit>>
PhaseFails(step) == Running(step) /\ step \in Fallible /\ ~ Evaluating /\ Raise("error")
PhasePanics(step) == Running(step) /\ step \in Recursive /\ Raise("panic")

\* bindings_on_parser_stack: one macro of the final environment.
Macro == runJob.macros[account.seen + 1]
Considered(job, m) == m.selected /\ ~ (m.reserved /\ ~ m.declared /\ job.selects_all)
Skip(name) == [account EXCEPT !.seen = @ + 1, !.skipped = @ \union {name}]
\* Even an unsupported replacement hides an enumerator of its name.
HidesName(name) == [account EXCEPT !.seen = @ + 1, !.table = @ \union {<<name, "None">>}]
HidesNothing(name) == [account EXCEPT !.seen = @ + 1]
hide(name) == HidesName(name)
NeedsEvaluation == {"integer", "float", "long double", "complex", "unevaluable"}
StepMacro ==
    /\ Running("macro")
    /\ IF ~ Considered(runJob, Macro) THEN account' = [account EXCEPT !.seen = @ + 1] /\ frames' = Advanced(3)
       ELSE IF Macro.function THEN account' = Skip(Macro.name) /\ frames' = Advanced(3)
       ELSE /\ account' = hide(Macro.name)
            /\ frames' = Advanced(IF Macro.kind \in NeedsEvaluation THEN 1 ELSE 2)
    /\ UNCHANGED <<runJob, live, flagged, unwinding, work, builder, disk, brokenPipe, exit>>
\* What became of the replacement: a value, an omission, or an enumerator's self-alias.
Without(name) == {x \in account.table : x[1] # name}
recorded(m) ==
    CASE m.kind \in {"integer", "float", "string"} ->
            [account EXCEPT !.table = Without(m.name) \union {<<m.name, m.kind>>}, !.counts[m.kind] = @ + 1]
      [] m.kind = "self" -> [account EXCEPT !.table = Without(m.name)]
      [] OTHER -> [account EXCEPT !.skipped = @ \union {m.name}]
Record ==
    /\ Running("record")
    /\ account' = recorded(runJob.macros[account.seen]) /\ frames' = Advanced(1)
    /\ UNCHANGED <<runJob, live, flagged, unwinding, work, builder, disk, brokenPipe, exit>>

\* binding_parts_with_macros: the caller's values are counted, not evaluated.
Provided(kind) == {i \in DOMAIN runJob.macros : runJob.macros[i].selected /\ runJob.macros[i].kind = kind}
Counts ==
    /\ Running("counts") /\ frames' = Advanced(1)
    /\ account' = [account EXCEPT !.counts = [k \in DOMAIN @ |-> Cardinality(Provided(k))]]
    /\ UNCHANGED <<runJob, live, flagged, unwinding, work, builder, disk, brokenPipe, exit>>

-----------------------------------------------------------------------------
(* The builder's setters, then its first error if there was one.               *)
derive(b, s) ==
    CASE s.trait = "eq" -> [b EXCEPT !.eq = s.enabled, !.partial_eq = @ \/ s.enabled]
      [] s.trait = "partial_eq" -> [b EXCEPT !.partial_eq = s.enabled, !.eq = @ /\ s.enabled]
      [] OTHER -> IF b.error = "" THEN [b EXCEPT !.error = s.trait] ELSE b
Set ==
    /\ Running("setters")
    /\ \E s \in Setters : builder' = derive(builder, s) /\ builder' # builder
    /\ UNCHANGED <<runJob, frames, live, flagged, unwinding, work, account, disk, brokenPipe, exit>>
Generate ==
    /\ Running("setters")
    /\ IF builder.error # "" THEN unwinding' = "error" /\ UNCHANGED frames ELSE frames' = Advanced(1) /\ UNCHANGED unwinding
    /\ UNCHANGED <<runJob, live, flagged, work, account, builder, disk, brokenPipe, exit>>

-----------------------------------------------------------------------------
(* Writing.  A file is created or truncated first, so a failed write leaves    *)
(* part of it; on a pipe nobody reads the error is BrokenPipe.                 *)
Parts(job) == IF job.command = "builder" THEN <<"banner">> \o job.raw \o <<"declarations">> ELSE <<"source">>
WriteFails(partial) ==
    /\ \E pipe \in BOOLEAN : brokenPipe' = pipe
    /\ disk' = partial /\ unwinding' = "error"
    /\ UNCHANGED <<runJob, frames, live, flagged, work, account, builder, exit>>
Written(whole) ==
    /\ disk' = whole /\ frames' = Advanced(1)
    /\ UNCHANGED <<runJob, live, flagged, unwinding, work, account, builder, brokenPipe, exit>>
WriteReport == Running("report") /\ (Written([disk EXCEPT !.report = "whole"]) \/ WriteFails([disk EXCEPT !.report = "partial"]))
\* --deny-skipped-macros comes after the report and before the bindings.
DenyRefused == runJob.deny /\ account.skipped # {}
Deny ==
    /\ Running("deny")
    /\ IF DenyRefused THEN unwinding' = "error" /\ UNCHANGED frames ELSE frames' = Advanced(1) /\ UNCHANGED unwinding
    /\ UNCHANGED <<runJob, live, flagged, work, account, builder, disk, brokenPipe, exit>>
write_output ==
    Running("write") /\ (Written([disk EXCEPT !.output = Parts(runJob)]) \/ WriteFails([disk EXCEPT !.output = <<"part">>]))
\* Bindings::write: banner, raw lines, then formatted or, when the formatter fails, unformatted declarations.
Create == Running("create") /\ (Written(disk) \/ Raise("error"))
WritePart(step, parts) ==
    /\ Running(step)
    /\ \/ Written([disk EXCEPT !.output = @ \o parts])
       \/ parts # <<>> /\ WriteFails([disk EXCEPT !.output = Append(@, "part")])
write == \/ WritePart("banner", <<"banner">>) \/ WritePart("raw", runJob.raw) \/ WritePart("declarations", <<"declarations">>)

Exit ==
    /\ Len(frames) = 1 /\ exit = "running" /\ (Top.steps = <<>> \/ unwinding # "no")
    /\ exit' = CASE unwinding = "no" -> "success"
                 [] unwinding = "panic" -> "panic"
                 [] OTHER -> IF brokenPipe THEN "success" ELSE "failure"
    /\ UNCHANGED <<runJob, frames, live, flagged, unwinding, work, account, builder, disk, brokenPipe>>

Phases == Recursive \union {"config", "policies", "serialize", "select"}
RunStep ==
    \/ StartCommand \/ Leave \/ StepMacro \/ Record \/ Counts \/ Generate
    \/ WriteReport \/ Deny \/ write_output \/ Create \/ write \/ Exit
    \/ \E s \in Sessions : with_stack(s) \/ SpawnFails(s)
    \/ \E s \in Phases : Phase(s) \/ PhaseFails(s) \/ PhasePanics(s)
RunNext == RunStep \/ Set
RunSpec == RunInit /\ [][RunNext]_runVars /\ WF_runVars(RunStep)

-----------------------------------------------------------------------------
\* Recursive frontend code only ever runs on a worker; there is one worker at a time, alive exactly while its
\* session is, whatever nests in it and however it ends, and the calling thread never claims to be one
\* (with_stack: nested sessions reuse the worker, which is joined before the call returns).
SessionsNest ==
    /\ MainThread \notin work /\ MainThread \notin flagged
    /\ Cardinality(live) <= 1
    /\ live = {frames[i].thread : i \in {j \in DOMAIN frames : frames[j].spawned}}
    /\ flagged = live
    /\ exit # "running" => live = {}

\* A command succeeds exactly when everything it was asked for is completely written, unless a reader closed its
\* pipe; bindings never appear before a complete report or past --deny-skipped-macros; and a builder that derives
\* Eq derives PartialEq, whatever order its setters came in (run, main, Bindings::write, derive_eq).
Needed == runJob.command # "none" /\ runJob.command # "check"
OutputFaithful ==
    /\ exit = "success" /\ ~ brokenPipe => (Needed => disk.output = Parts(runJob)) /\ (runJob.command = "bindgen" /\ runJob.report => disk.report = "whole")
    /\ exit \in {"failure", "panic"} => disk.output # (IF Needed THEN Parts(runJob) ELSE <<"nothing">>)
    /\ disk.output # <<>> /\ runJob.command = "bindgen" =>
          (runJob.report => disk.report = "whole") /\ (runJob.deny => account.skipped = {})
    /\ builder.eq => builder.partial_eq

\* Once every macro was seen, each selected one is accounted for once: it has a value and is counted under its
\* kind, or it is reported as skipped, or it is an enumerator's own alias; and an object-like macro hides the
\* enumerator of its name exactly when it is not such an alias (bindings_on_parser_stack).
Emitting == runJob.command = "bindgen" /\ frames # <<>> /\ account.seen = Len(runJob.macros) /\ Top.session = "bindings" /\ Top.steps = <<"emit">>
MacrosAccounted ==
    Emitting =>
        LET seen == {runJob.macros[i] : i \in DOMAIN runJob.macros}
            objects == {m \in seen : Considered(runJob, m) /\ ~ m.function}
            valued == {m \in objects : m.kind \in {"integer", "float", "string"}}
        IN /\ account.table = {<<m.name, IF m \in valued THEN m.kind ELSE "None">> : m \in {o \in objects : o.kind # "self"}}
           /\ account.skipped = {m.name : m \in {o \in seen : Considered(runJob, o) /\ o.kind # "self" /\ o \notin valued}
                                             \union {o \in seen : Considered(runJob, o) /\ o.function}}
           /\ \A k \in DOMAIN account.counts : account.counts[k] = Cardinality({m \in valued : m.kind = k})

\* main.rs, toucan_stack and the builder: recursive code runs on one worker at a time which is joined before the
\* call returns, files written hold the whole output or the exit code says otherwise, and every macro is emitted or
\* reported once.
CommandExact == SessionsNest /\ OutputFaithful /\ MacrosAccounted

\* Every command ends: sessions are left, panics and errors reach main, and the setters stop being called.
CommandReturns == runJob.command # "none" ~> exit # "running"

-----------------------------------------------------------------------------
(* The inductive invariant of CommandExact.                                    *)
NoJob == [command |-> "none"]
ValueKinds == {"integer", "float", "string"}
NoAccount == [seen |-> 0, table |-> {}, skipped |-> {}, counts |-> [integer |-> 0, float |-> 0, string |-> 0]]
BodySteps == {"do_preprocess", "preprocess", "analyze", "parse", "check", "do_parse", "do_evaluate", "emit", "counts",
              "macro", "evaluate", "record"}
MainSteps == {"config", "policies", "preprocess", "parse_file", "serialize", "select", "setters", "bindings", "binding_parts",
              "report", "deny", "write", "create", "banner", "raw", "declarations"}
FrameType == [session : Sessions \union {"main"}, steps : Seq(BodySteps \union MainSteps), thread : {0, 1}, spawned : BOOLEAN]
OutputParts == RawLines \union {"banner", "declarations", "source", "part"}
RunTypes ==
    /\ runJob \in RunJobs \union {NoJob}
    /\ frames \in Seq(FrameType)
    /\ unwinding \in {"no", "error", "panic"} /\ brokenPipe \in BOOLEAN
    /\ exit \in {"running", "success", "failure", "panic"}
    /\ disk \in [report : {"absent", "partial", "whole"}, output : Seq(OutputParts)]
    /\ builder \in [partial_eq : BOOLEAN, eq : BOOLEAN, error : {""} \union {s.trait : s \in Setters}]
    /\ account \in [seen : Nat, table : SUBSET ({m.name : m \in Macros} \X (ValueKinds \union {"None"})),
                    skipped : SUBSET {m.name : m \in Macros}, counts : [ValueKinds -> Nat]]

\* What is left of a frame's steps is the end of its session's.
EndOf(steps, all) ==
    /\ Len(steps) <= Len(all)
    /\ \A i \in DOMAIN steps : steps[i] = all[Len(all) - Len(steps) + i]
Left == Len(frames[1].steps)
ReportSteps == IF runJob.report THEN 1 ELSE 0
FramesSound ==
    /\ frames = <<>> <=> runJob = NoJob
    /\ frames = <<>> => unwinding = "no" /\ exit = "running" /\ disk.output = <<>> /\ account = NoAccount
                        /\ ~ builder.eq /\ ~ brokenPipe
    /\ frames # <<>> => /\ EndOf(frames[1].steps, Program(runJob)) /\ frames[1].session = "main"
                        /\ frames[1].thread = MainThread /\ ~ frames[1].spawned
    /\ \A i \in DOMAIN frames : i > 1 =>
          /\ frames[i].session \in Sessions /\ EndOf(frames[i].steps, Body(runJob, frames[i].session))
          /\ frames[i].thread = 1 /\ frames[i].spawned = (i = 2)
          /\ frames[i].session = "bindings" => i = 2 /\ runJob.command = "bindgen" /\ Left = 2 + ReportSteps
          /\ frames[i].session = "binding_parts" => runJob.command = "builder"
WorkerSound ==
    /\ live = (IF Len(frames) > 1 THEN {1} ELSE {}) /\ flagged = live /\ work \subseteq {1}

\* How far the writing is follows from the steps that are left.
WrittenSoFar ==
    IF runJob.command # "builder" THEN IF Left = 0 THEN Parts(runJob) ELSE <<>>
    ELSE CASE Left = 0 -> Parts(runJob)
           [] Left = 1 -> <<"banner">> \o runJob.raw
           [] Left = 2 -> <<"banner">>
           [] OTHER -> <<>>
OutputSoFar ==
    /\ builder.eq => builder.partial_eq
    /\ brokenPipe => unwinding = "error"
    /\ ~ Needed => disk.output = <<>>
    /\ Needed /\ unwinding = "no" => disk.output = WrittenSoFar
    /\ Needed /\ unwinding # "no" => disk.output # Parts(runJob)
    /\ Needed /\ Len(frames) > 1 => Left > 0
    /\ runJob.command = "bindgen" =>
          /\ runJob.report /\ Left <= 2 => disk.report = "whole"
          /\ runJob.deny /\ Left <= 1 => account.skipped = {}
          /\ disk.output # <<>> => Left <= 1
    /\ exit # "running" =>
          /\ Len(frames) = 1 /\ (unwinding # "no" \/ Left = 0)
          /\ exit = CASE unwinding = "no" -> "success" [] unwinding = "panic" -> "panic"
                      [] OTHER -> IF brokenPipe THEN "success" ELSE "failure"

\* The account of the macros in `settled`, those with a smaller index than the one being evaluated.
Object(job, m) == Considered(job, m) /\ ~ m.function
Named(m) == <<m.name, IF m.kind \in ValueKinds THEN m.kind ELSE "None">>
TableOf(job, settled) == {Named(job.macros[i]) : i \in {j \in settled : Object(job, job.macros[j]) /\ job.macros[j].kind # "self"}}
IsSkipped(job, m) == Considered(job, m) /\ (m.function \/ m.kind \notin ValueKinds \union {"self"})
SkippedOf(job, settled) == {job.macros[i].name : i \in {j \in settled : IsSkipped(job, job.macros[j])}}
OfKind(job, settled, kind) == {i \in settled : Object(job, job.macros[i]) /\ job.macros[i].kind = kind}
Accounted(job, tally, settled, hidden) ==
    /\ tally.table = TableOf(job, settled) \union hidden
    /\ tally.skipped = SkippedOf(job, settled)
    /\ tally.counts = [k \in ValueKinds |-> Cardinality(OfKind(job, settled, k))]
\* Steps left of the macro being evaluated.
Behind == Len(frames[2].steps) - 3 * (Len(runJob.macros) - account.seen) - 1
AccountSoFar ==
    /\ runJob.command = "bindgen" /\ Left > 2 + ReportSteps => account = NoAccount
    /\ Len(frames) > 1 /\ frames[2].session = "bindings" =>
          /\ account.seen <= Len(runJob.macros) /\ Behind \in -1 .. 2 /\ (Behind = -1 => frames[2].steps = <<>>)
          /\ Behind <= 0 => Accounted(runJob, account, 1 .. account.seen, {})
          /\ Behind > 0 =>
                LET m == runJob.macros[account.seen]
                IN account.seen > 0 /\ Object(runJob, m) /\ Accounted(runJob, account, 1 .. account.seen - 1, {<<m.name, "None">>})
RunInv == RunTypes /\ FramesSound /\ WorkerSound /\ (frames # <<>> => OutputSoFar /\ AccountSoFar)
=============================================================================
