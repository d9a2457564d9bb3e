--------------------------- MODULE MCPreprocessor ---------------------------
(* Line sets, file systems and calls for the runs of Preprocessor.         *)
EXTENDS Preprocessor

\* Lines
If0 == [kind |-> "if", pragma |-> None]
IfPragma(p) == [kind |-> "if", pragma |-> p]
Elif0 == [kind |-> "elif", pragma |-> None]
ElifPragma(p) == [kind |-> "elif", pragma |-> p]
Named(kind, n) == [kind |-> kind, name |-> n]
Bare(kind) == [kind |-> kind]
DefineLine(n, v) == [kind |-> "define", name |-> n, value |-> v]
Include(t) == [kind |-> "include", target |-> t]
PragmaLine(p) == [kind |-> "pragma", pragma |-> p]
Marker(t, f, system) == [kind |-> "marker", transition |-> t, file |-> f, system |-> system]
Text(toks) == [kind |-> "text", tokens |-> toks]

\* Pragmas and text tokens
Once == [op |-> "once"]
Pack == [op |-> "pack"]
SystemHeader == [op |-> "system_header"]
Message == [op |-> "ignored"]
Unsupported == [op |-> "unsupported"]
Push(n) == [op |-> "push_macro", name |-> n]
Pop(n) == [op |-> "pop_macro", name |-> n]
Name(n) == [kind |-> "name", name |-> n, seen |-> None]
Other == [kind |-> "other"]
PragmaOp(p) == [kind |-> "pragma", pragma |-> p]

\* A source named by the caller of preprocess_str, and in-memory sources.
StrMain == "<str>"
Forced == "<forced>"
Builtin == "<builtin>/v.h"

NoBytes == [v \in Values |-> 1]
EmptyOrPair == [v \in Values |-> IF v = "v1" THEN 0 ELSE 2]
NoDefines == [n \in {} |-> "v1"]

MCSites == Files \cup Virtual \cup {StrMain}

\* Conditional groups, across an include
GroupLines ==
    {If0, Elif0, Bare("else"), Bare("endif"), Named("ifdef", "m"), Named("ifndef", "m"),
     DefineLine("m", "v1"), Named("undef", "m"), Include("a"), Bare("null"), Bare("error")}
GroupInode == [f \in {"a"} |-> 1]
StrJob(name) == [name |-> name, kind |-> "str", forced |-> <<>>, headers |-> <<>>, main |-> StrMain]

\* Inclusion: two names of one inode, another file, a virtual header, forced
\* inputs, and every order of #pragma once and #include
OnceLines ==
    {PragmaLine(Once), Include("a"), Include("b"), Include("c"), Include(Builtin), Include("gone"),
     PragmaLine(SystemHeader), Named("undef", "__clang__")}
OnceInode == [f \in {"a", "b", "c"} |-> IF f = "c" THEN 2 ELSE 1]
OnceDefines == [n \in {"__clang__"} |-> "v1"]
OnceJobs ==
    {[name |-> "once", kind |-> "main", forced |-> <<>>, headers |-> <<>>, main |-> "a"],
     [name |-> "once", kind |-> "main", forced |-> <<Forced>>, headers |-> <<"b", "c">>, main |-> "a"],
     [name |-> "once", kind |-> "str", forced |-> <<Forced, Forced>>, headers |-> <<>>, main |-> StrMain]}

\* Text, the flush, and pragmas in directives, in text and in conditions
TextLines ==
    {Text(<<Name("m")>>), Text(<<PragmaOp(Push("m")), Name("m")>>),
     Text(<<Other, PragmaOp(Pop("m")), Name("m")>>), Text(<<PragmaOp(Pack)>>),
     PragmaLine(Pack), PragmaLine(Message), PragmaLine(Unsupported),
     PragmaLine(Push("m")), PragmaLine(Pop("m")), DefineLine("m", "v1"), DefineLine("m", "v2"),
     Named("undef", "m"), IfPragma(Push("m")), IfPragma(Pack), ElifPragma(Pop("m")),
     Bare("endif"), Include("a")}

\* Recursion: a file that includes itself or another without guards, with text
\* that may expand to nothing
LoopLines ==
    {Text(<<Name("m")>>), Text(<<PragmaOp(Message), Name("m")>>), DefineLine("m", "v1"),
     PragmaLine(Once), Include("a"), Include(Builtin), If0, Bare("endif")}

\* Line markers and the system flag
MarkerLines ==
    {Marker(0, "p", TRUE), Marker(1, "p", FALSE), Marker(1, "q", TRUE), Marker(2, "p", FALSE),
     Marker(2, StrMain, FALSE), [kind |-> "line", file |-> "q"], Text(<<Other>>), Include("a"),
     Include(Builtin), PragmaLine(SystemHeader), If0, Bare("else"), Bare("endif")}

\* The runs
DirectiveLines == [job \in {"groups", "markers", "text"} |->
                     CASE job = "groups" -> GroupLines [] job = "markers" -> MarkerLines [] job = "text" -> TextLines]
DirectiveLengths == [job \in {"groups", "markers", "text"} |-> IF job = "groups" THEN 6 ELSE 4]
DirectiveJobs == {StrJob("groups"), StrJob("markers"), StrJob("text")}

\* A guarded header: definitions up to the limit of their records, behind conditionals and markers
GuardLines ==
    {Named("ifdef", "m"), DefineLine("m", "v1"), Elif0, Bare("else"), [kind |-> "line", file |-> "q"], Marker(1, "p", FALSE)}

InclusionLines == [job \in {"once", "loops", "guards"} |->
                     CASE job = "once" -> OnceLines [] job = "loops" -> LoopLines [] job = "guards" -> GuardLines]
InclusionLengths == [job \in {"once", "loops", "guards"} |-> IF job = "guards" THEN 4 ELSE 3]
InclusionJobs == OnceJobs \cup {StrJob("loops"), StrJob("guards")}

=============================================================================
