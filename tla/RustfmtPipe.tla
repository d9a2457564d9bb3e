---------------------------- MODULE RustfmtPipe ----------------------------
(***************************************************************************)
(* Options::format of toucan_bindgen/src/formatting.rs: the generated      *)
(* source is piped through a rustfmt child process.  Four activities run   *)
(* concurrently: the calling thread (spawn, drain stdout, reap, decode),   *)
(* a scoped writer thread that feeds the child's stdin, the child itself,  *)
(* and the two bounded kernel pipes between them.  Bytes are counted, not  *)
(* stored: which bytes they are matters to no property.                    *)
(*                                                                         *)
(* The child is external code.  It may interleave reads, writes, closing   *)
(* its stdin and exiting in any order, and once it has begun a blocking    *)
(* call it can do nothing else until the call returns.                     *)
(***************************************************************************)
EXTENDS Naturals

CONSTANTS SourceLen,   \* bytes of generated source
          OutputMax,   \* most bytes the child writes to its stdout
          PipeCap      \* capacity of each kernel pipe

ASSUME PipeAssumption ==
    /\ SourceLen \in Nat
    /\ OutputMax \in Nat
    /\ PipeCap \in Nat \ {0}

\* None is status.code() of a child killed by a signal.
ExitCodes == {"0", "1", "2", "3", "None"}

VARIABLES main,      \* the calling thread
          writer,    \* the scoped thread: "none", "write", "drop", "ended"
          unsent,    \* source bytes write_all has not handed to the pipe
          stdin,     \* [bytes, wopen, ropen] of the child's stdin pipe
          stdout,    \* [bytes, wopen, ropen] of the child's stdout pipe
          child,     \* what the child is doing
          produced,  \* bytes the child wrote to stdout
          utf8,      \* whether those bytes are UTF-8
          code,      \* the exit status the child leaves
          drained,   \* bytes wait_with_output has collected
          result     \* what format returns

vars == <<main, writer, unsent, stdin, stdout, child, produced, utf8, code,
          drained, result>>

childVars == <<child, produced, utf8, code>>

ClosedPipe == [bytes |-> 0, wopen |-> FALSE, ropen |-> FALSE]
OpenPipe == [bytes |-> 0, wopen |-> TRUE, ropen |-> TRUE]
Pipe == [bytes : 0..PipeCap, wopen : BOOLEAN, ropen : BOOLEAN]

ChildStates == {"unborn", "choose", "read", "write", "exited"}

Results == {"pending", "spawn error", "panic", "source", "formatted",
            "parsing error", "internal error"}

TypeOK ==
    /\ main \in {"spawn", "thread", "drain", "reap", "join", "decode", "done"}
    /\ writer \in {"none", "write", "drop", "ended"}
    /\ unsent \in 0..SourceLen
    /\ stdin \in Pipe /\ stdout \in Pipe
    /\ child \in ChildStates
    /\ produced \in 0..OutputMax
    /\ drained \in 0..OutputMax
    /\ utf8 \in BOOLEAN
    /\ code \in ExitCodes
    /\ result \in Results

Init ==
    /\ main = "spawn" /\ writer = "none" /\ unsent = SourceLen
    /\ stdin = ClosedPipe /\ stdout = ClosedPipe
    /\ child = "unborn" /\ produced = 0 /\ utf8 = TRUE /\ code = "None"
    /\ drained = 0 /\ result = "pending"

-----------------------------------------------------------------------------
(* The calling thread *)

\* command.spawn()? : both pipes exist once the child runs.
SpawnChild ==
    /\ main = "spawn"
    /\ main' = "thread" /\ child' = "choose"
    /\ stdin' = OpenPipe /\ stdout' = OpenPipe
    /\ UNCHANGED <<writer, unsent, produced, utf8, code, drained, result>>

SpawnError ==
    /\ main = "spawn"
    /\ main' = "done" /\ result' = "spawn error"
    /\ UNCHANGED <<writer, unsent, stdin, stdout, childVars, drained>>

\* scope.spawn moves the write end of stdin to the new thread, or panics when
\* the thread cannot be created; unwinding then drops both parent pipe ends.
StartWriter ==
    /\ main = "thread"
    /\ main' = "drain" /\ writer' = "write"
    /\ UNCHANGED <<unsent, stdin, stdout, childVars, drained, result>>

StartWriterPanics ==
    /\ main = "thread"
    /\ main' = "done" /\ result' = "panic"
    /\ stdin' = [stdin EXCEPT !.wopen = FALSE]
    /\ stdout' = [stdout EXCEPT !.ropen = FALSE]
    /\ UNCHANGED <<writer, unsent, childVars, drained>>

\* wait_with_output, first half: read stdout until end of file.
Drain ==
    /\ main = "drain"
    /\ stdout.bytes > 0
    /\ \E n \in 1..stdout.bytes :
          /\ drained' = drained + n
          /\ stdout' = [stdout EXCEPT !.bytes = @ - n]
    /\ UNCHANGED <<main, writer, unsent, stdin, childVars, result>>

DrainEof ==
    /\ main = "drain"
    /\ stdout.bytes = 0 /\ ~stdout.wopen
    /\ main' = "reap"
    /\ stdout' = [stdout EXCEPT !.ropen = FALSE]
    /\ UNCHANGED <<writer, unsent, stdin, childVars, drained, result>>

\* wait_with_output, second half: wait for the exit status.
Reap ==
    /\ main = "reap" /\ child = "exited"
    /\ main' = "join"
    /\ UNCHANGED <<writer, unsent, stdin, stdout, childVars, drained, result>>

\* Leaving the scope joins the writer.
Join ==
    /\ main = "join" /\ writer = "ended"
    /\ main' = "decode"
    /\ UNCHANGED <<writer, unsent, stdin, stdout, childVars, drained, result>>

\* Mutant: a child without a status code counts as a success.
StatusResultDefault(status) ==
    CASE status \in {"0", "3", "None"} -> "formatted"
      [] status = "2"                  -> "parsing error"
      [] OTHER                         -> "internal error"

StatusResult(status) ==
    CASE status \in {"0", "3"} -> "formatted"
      [] status = "2"          -> "parsing error"
      [] OTHER                 -> "internal error"

\* The encoding is looked at before the status.
Decode ==
    /\ main = "decode"
    /\ main' = "done"
    /\ result' = IF utf8 THEN StatusResult(code) ELSE "source"
    /\ UNCHANGED <<writer, unsent, stdin, stdout, childVars, drained>>

-----------------------------------------------------------------------------
(* The writer thread *)

\* One write(2) of write_all: it blocks on a full pipe and may be partial.
WriteSome ==
    /\ writer = "write" /\ unsent > 0
    /\ stdin.ropen
    /\ \E n \in 1..(PipeCap - stdin.bytes) :
          /\ n <= unsent
          /\ unsent' = unsent - n
          /\ stdin' = [stdin EXCEPT !.bytes = @ + n]
    /\ UNCHANGED <<main, writer, stdout, childVars, drained, result>>

\* write_all is finished, or failed with EPIPE: its result is ignored.
WriteReturns ==
    /\ writer = "write"
    /\ unsent = 0 \/ ~stdin.ropen
    /\ writer' = "drop"
    /\ UNCHANGED <<main, unsent, stdin, stdout, childVars, drained, result>>

DropStdin ==
    /\ writer = "drop"
    /\ writer' = "ended"
    /\ stdin' = [stdin EXCEPT !.wopen = FALSE]
    /\ UNCHANGED <<main, unsent, stdout, childVars, drained, result>>

-----------------------------------------------------------------------------
(* The child process, external *)

ChildBegins(call) ==
    /\ child = "choose"
    /\ \/ call = "read" /\ stdin.ropen
       \/ call = "write" /\ produced < OutputMax
    /\ child' = call
    /\ UNCHANGED <<main, writer, unsent, stdin, stdout, produced, utf8, code,
                   drained, result>>

\* A read returns some bytes, or end of file, after which it reads no more.
ChildReads ==
    /\ child = "read"
    /\ \/ \E n \in 1..stdin.bytes : stdin' = [stdin EXCEPT !.bytes = @ - n]
       \/ /\ stdin.bytes = 0 /\ ~stdin.wopen
          /\ stdin' = [stdin EXCEPT !.ropen = FALSE]
    /\ child' = "choose"
    /\ UNCHANGED <<main, writer, unsent, stdout, produced, utf8, code, drained,
                   result>>

ChildWrites ==
    /\ child = "write"
    /\ stdout.ropen
    /\ \E n \in 1..(PipeCap - stdout.bytes), valid \in BOOLEAN :
          /\ produced + n <= OutputMax
          /\ produced' = produced + n
          /\ stdout' = [stdout EXCEPT !.bytes = @ + n]
          /\ utf8' = (utf8 /\ valid)
    /\ child' = "choose"
    /\ UNCHANGED <<main, writer, unsent, stdin, code, drained, result>>

\* Writing to a pipe nobody reads kills the child.
ChildSigpipe ==
    /\ child = "write" /\ ~stdout.ropen
    /\ child' = "exited" /\ code' = "None"
    /\ stdin' = [stdin EXCEPT !.ropen = FALSE]
    /\ stdout' = [stdout EXCEPT !.wopen = FALSE]
    /\ UNCHANGED <<main, writer, unsent, produced, utf8, drained, result>>

ChildClosesStdin ==
    /\ child = "choose" /\ stdin.ropen
    /\ stdin' = [stdin EXCEPT !.ropen = FALSE]
    /\ UNCHANGED <<main, writer, unsent, stdout, childVars, drained, result>>

ChildClosesStdout ==
    /\ child = "choose" /\ stdout.wopen /\ produced = OutputMax
    /\ stdout' = [stdout EXCEPT !.wopen = FALSE]
    /\ UNCHANGED <<main, writer, unsent, stdin, childVars, drained, result>>

ChildExits ==
    /\ child = "choose"
    /\ child' = "exited"
    /\ code' \in ExitCodes
    /\ stdin' = [stdin EXCEPT !.ropen = FALSE]
    /\ stdout' = [stdout EXCEPT !.wopen = FALSE]
    /\ UNCHANGED <<main, writer, unsent, produced, utf8, drained, result>>

-----------------------------------------------------------------------------
Main == \/ SpawnChild \/ SpawnError \/ StartWriter \/ StartWriterPanics
        \/ Drain \/ DrainEof \/ Reap \/ Join \/ Decode

Writer == WriteSome \/ WriteReturns \/ DropStdin

Child == \/ \E call \in {"read", "write"} : ChildBegins(call)
         \/ ChildReads \/ ChildWrites \/ ChildSigpipe
         \/ ChildClosesStdin \/ ChildClosesStdout \/ ChildExits

\* A finished call, with the child it spawned gone, is the end of the run.
Finished ==
    /\ main = "done"
    /\ child \in {"unborn", "exited"}
    /\ UNCHANGED vars

Next == Main \/ Writer \/ Child \/ Finished

\* The scheduler runs every thread that is not blocked, and the child process
\* makes progress whenever the call it has begun can return.
Fairness == WF_vars(Main) /\ WF_vars(Writer) /\ WF_vars(Child)

Spec == Init /\ [][Next]_vars /\ Fairness

-----------------------------------------------------------------------------
(* Properties *)

\* formatting.rs:61-62 "The child may fill stdout before consuming stdin.
\* Drain its output while this thread writes, including when the child closes
\* stdin early": whatever order the child reads, writes and exits in, format
\* returns; neither pipe can wedge the three activities.
FormatReturns == <>(main = "done")

\* The text handed back as formatted is everything the child wrote and nothing
\* is left in the pipe, the child was reaped with a status that permits it, and
\* the scoped writer holds no end of stdin any more.
FormattedIsComplete ==
    result = "formatted" =>
        /\ drained = produced /\ stdout.bytes = 0
        /\ child = "exited" /\ code \in {"0", "3"} /\ utf8
        /\ writer = "ended" /\ ~stdin.wopen

\* Bytes are neither lost nor invented between the child and the collected
\* output while the parent still reads.
OutputConserved ==
    stdout.ropen => drained + stdout.bytes = produced

\* The state is well typed and the output conserved: no read of wait_with_output
\* loses what an earlier one collected.
PipeInv == TypeOK /\ OutputConserved

\* Whatever order the child reads, writes and exits in, text handed back as
\* formatted is everything the child wrote, from a child that was reaped with a
\* status that permits it.
FormatExact == PipeInv /\ FormattedIsComplete

\* What the caller has seen pass at each of its steps: the end of the child's
\* output, its exit, and the end of the writer, which closed stdin's write end.
WhatPassed ==
    /\ main = "spawn" => child = "unborn" /\ drained = produced
    /\ main \in {"spawn", "thread"} => writer = "none"
    /\ main \in {"thread", "drain"} => stdout.ropen
    /\ main \in {"reap", "join", "decode"} =>
          stdout.bytes = 0 /\ ~stdout.wopen /\ ~stdout.ropen /\ drained = produced
    /\ main \in {"join", "decode"} => child = "exited"
    /\ main = "decode" => writer = "ended"
    /\ writer = "ended" => ~stdin.wopen
    /\ stdout.wopen => child # "exited"
    /\ main # "done" => result = "pending"

\* The inductive invariant of format.
FormatInv == FormatExact /\ WhatPassed
=============================================================================
