--------------------------- MODULE BindgenProofs ---------------------------
(***************************************************************************)
(* Proofs about toucan_bindgen.  RustfmtPipe: a source and an output of    *)
(* any length and pipes of any capacity.  Selection: any set of units.     *)
(***************************************************************************)
EXTENDS RustfmtPipe, Selection, Integers, SequenceTheorems, WellFoundedInduction, TLAPS

-----------------------------------------------------------------------------
(* The parties of a formatter run                                              *)

\* Each use of a pipe changes one of its fields.
LEMMA PipeFields ==
    ASSUME NEW p \in Pipe
    PROVE  p.bytes \in 0..PipeCap /\ p.wopen \in BOOLEAN /\ p.ropen \in BOOLEAN
  BY DEF Pipe

LEMMA TakesBytes ==
    ASSUME NEW p \in Pipe, NEW n \in 1..p.bytes, NEW q, q = [p EXCEPT !.bytes = p.bytes - n]
    PROVE  q \in Pipe /\ q.bytes = p.bytes - n /\ q.wopen = p.wopen /\ q.ropen = p.ropen
  <1>1. p.bytes - n \in 0..PipeCap BY PipeAssumption DEF Pipe
  <1> QED BY <1>1 DEF Pipe

LEMMA PutsBytes ==
    ASSUME NEW p \in Pipe, NEW n \in 1..(PipeCap - p.bytes), NEW q,
           q = [p EXCEPT !.bytes = p.bytes + n]
    PROVE  q \in Pipe /\ q.bytes = p.bytes + n /\ q.wopen = p.wopen /\ q.ropen = p.ropen
  <1>1. p.bytes + n \in 0..PipeCap BY PipeAssumption DEF Pipe
  <1> QED BY <1>1 DEF Pipe

LEMMA ClosesWriteEnd ==
    ASSUME NEW p \in Pipe, NEW q, q = [p EXCEPT !.wopen = FALSE]
    PROVE  q \in Pipe /\ q.bytes = p.bytes /\ q.wopen = FALSE /\ q.ropen = p.ropen
  BY DEF Pipe

LEMMA OpenedPipe ==
    OpenPipe \in Pipe /\ OpenPipe.bytes = 0 /\ OpenPipe.wopen = TRUE /\ OpenPipe.ropen = TRUE
  BY PipeAssumption DEF OpenPipe, Pipe

LEMMA ClosesReadEnd ==
    ASSUME NEW p \in Pipe, NEW q, q = [p EXCEPT !.ropen = FALSE]
    PROVE  q \in Pipe /\ q.bytes = p.bytes /\ q.wopen = p.wopen /\ q.ropen = FALSE
  BY DEF Pipe

\* Counting bytes within their limits.
LEMMA Counting ==
    ASSUME NEW cap \in Nat, NEW held \in 0..cap, NEW n \in 1..(cap - held),
           NEW limit \in Nat, NEW count \in 0..limit
    PROVE  /\ n <= count => count - n \in 0..limit
           /\ count + n <= limit => count + n \in 0..limit
           /\ \A d \in Nat : d + held = count => d + (held + n) = count + n
  OBVIOUS

\* Init puts both pipes and all three activities to rest.
LEMMA FormatStarts == Init => FormatInv
  <1> SUFFICES ASSUME Init PROVE FormatInv
    OBVIOUS
  <1>1. ClosedPipe \in Pipe /\ ClosedPipe.bytes = 0 /\ ClosedPipe.wopen = FALSE /\ ClosedPipe.ropen = FALSE
    BY PipeAssumption DEF ClosedPipe, Pipe
  <1> QED
    BY <1>1, PipeAssumption
    DEF Init, FormatInv, FormatExact, PipeInv, TypeOK, OutputConserved, WhatPassed, FormattedIsComplete,
        ChildStates, Results, ExitCodes

\* Every step of the caller, the writer and the child keeps the invariant.
LEMMA FormatStep == FormatInv /\ [Next]_vars => FormatInv'
  <1> SUFFICES ASSUME FormatInv, [Next]_vars PROVE FormatInv'
    OBVIOUS
  <1>1. /\ stdin \in Pipe /\ stdout \in Pipe
        /\ stdin.bytes \in 0..PipeCap /\ stdin.wopen \in BOOLEAN /\ stdin.ropen \in BOOLEAN
        /\ stdout.bytes \in 0..PipeCap /\ stdout.wopen \in BOOLEAN /\ stdout.ropen \in BOOLEAN
    BY PipeFields DEF FormatInv, FormatExact, PipeInv, TypeOK
  <1>0. produced \in 0..OutputMax /\ drained \in Nat /\ OutputConserved
    BY PipeAssumption DEF FormatInv, FormatExact, PipeInv, TypeOK
  <1> USE <1>1, PipeAssumption
      DEF FormatInv, FormatExact, PipeInv, TypeOK, OutputConserved, WhatPassed, FormattedIsComplete,
          ChildStates, Results, ExitCodes, childVars
  <1>2. CASE SpawnChild
    <2>a. TypeOK' BY <1>2, OpenedPipe DEF SpawnChild
    <2>b. OutputConserved' BY <1>2, OpenedPipe DEF SpawnChild
    <2>c. WhatPassed' BY <1>2, OpenedPipe DEF SpawnChild
    <2>d. FormattedIsComplete' BY <1>2, OpenedPipe DEF SpawnChild
    <2> QED BY ONLY <2>a, <2>b, <2>c, <2>d DEF FormatInv, FormatExact, PipeInv
  <1>3. CASE SpawnError
    <2>a. TypeOK' BY <1>3 DEF SpawnError
    <2>b. OutputConserved' BY <1>3 DEF SpawnError
    <2>c. WhatPassed' BY <1>3 DEF SpawnError
    <2>d. FormattedIsComplete' BY <1>3 DEF SpawnError
    <2> QED BY ONLY <2>a, <2>b, <2>c, <2>d DEF FormatInv, FormatExact, PipeInv
  <1>4. CASE StartWriter
    <2>a. TypeOK' BY <1>4 DEF StartWriter
    <2>b. OutputConserved' BY <1>4 DEF StartWriter
    <2>c. WhatPassed' BY <1>4 DEF StartWriter
    <2>d. FormattedIsComplete' BY <1>4 DEF StartWriter
    <2> QED BY ONLY <2>a, <2>b, <2>c, <2>d DEF FormatInv, FormatExact, PipeInv
  <1>5. CASE StartWriterPanics
    <2>1. /\ stdin' \in Pipe /\ stdin'.wopen = FALSE
          /\ stdout' \in Pipe /\ stdout'.bytes = stdout.bytes
          /\ stdout'.wopen = stdout.wopen /\ stdout'.ropen = FALSE
      BY <1>5, ClosesWriteEnd, ClosesReadEnd, ZenonT(60) DEF StartWriterPanics
    <2>a. TypeOK' BY <1>5, <2>1 DEF StartWriterPanics
    <2>b. OutputConserved' BY <1>5, <2>1 DEF StartWriterPanics
    <2>c. WhatPassed' BY <1>5, <2>1 DEF StartWriterPanics
    <2>d. FormattedIsComplete' BY <1>5, <2>1 DEF StartWriterPanics
    <2> QED BY ONLY <2>a, <2>b, <2>c, <2>d DEF FormatInv, FormatExact, PipeInv
  <1>6. CASE Drain
    <2>1. PICK n \in 1..stdout.bytes :
             drained' = drained + n /\ stdout' = [stdout EXCEPT !.bytes = stdout.bytes - n]
      BY <1>6 DEF Drain
    <2>2. /\ stdout' \in Pipe /\ stdout'.bytes = stdout.bytes - n
          /\ stdout'.wopen = stdout.wopen /\ stdout'.ropen = stdout.ropen
      BY <2>1, TakesBytes
    <2>a. TypeOK' BY <1>6, <2>1, <2>2 DEF Drain
    <2>b. OutputConserved' BY <1>6, <2>1, <2>2 DEF Drain
    <2>c. WhatPassed' BY <1>6, <2>1, <2>2 DEF Drain
    <2>d. FormattedIsComplete' BY <1>6, <2>1, <2>2 DEF Drain
    <2> QED BY ONLY <2>a, <2>b, <2>c, <2>d DEF FormatInv, FormatExact, PipeInv
  <1>7. CASE DrainEof
    <2>1. /\ stdout' \in Pipe /\ stdout'.bytes = stdout.bytes
          /\ stdout'.wopen = stdout.wopen /\ stdout'.ropen = FALSE
      BY <1>7, ClosesReadEnd DEF DrainEof
    <2>a. TypeOK' BY <1>7, <2>1 DEF DrainEof
    <2>b. OutputConserved' BY <1>7, <2>1 DEF DrainEof
    <2>c. WhatPassed' BY <1>7, <2>1 DEF DrainEof
    <2>d. FormattedIsComplete' BY <1>7, <2>1 DEF DrainEof
    <2> QED BY ONLY <2>a, <2>b, <2>c, <2>d DEF FormatInv, FormatExact, PipeInv
  <1>8. CASE Reap
    <2>a. TypeOK' BY <1>8 DEF Reap
    <2>b. OutputConserved' BY <1>8 DEF Reap
    <2>c. WhatPassed' BY <1>8 DEF Reap
    <2>d. FormattedIsComplete' BY <1>8 DEF Reap
    <2> QED BY ONLY <2>a, <2>b, <2>c, <2>d DEF FormatInv, FormatExact, PipeInv
  <1>9. CASE Join
    <2>a. TypeOK' BY <1>9 DEF Join
    <2>b. OutputConserved' BY <1>9 DEF Join
    <2>c. WhatPassed' BY <1>9 DEF Join
    <2>d. FormattedIsComplete' BY <1>9 DEF Join
    <2> QED BY ONLY <2>a, <2>b, <2>c, <2>d DEF FormatInv, FormatExact, PipeInv
  <1>10. CASE Decode
    <2>1. CASE utf8
      BY <1>10, <2>1 DEF Decode, StatusResult
    <2>2. CASE ~utf8
      BY <1>10, <2>2 DEF Decode
    <2> QED BY <2>1, <2>2
  <1>11. CASE WriteSome
    <2>1. PICK n \in 1..(PipeCap - stdin.bytes) :
             /\ n <= unsent /\ unsent' = unsent - n
             /\ stdin' = [stdin EXCEPT !.bytes = stdin.bytes + n]
      BY <1>11 DEF WriteSome
    <2>2. stdin' \in Pipe /\ stdin'.wopen = stdin.wopen
      BY <2>1, PutsBytes
    <2>3. unsent' \in 0..SourceLen
      <3>1. unsent \in 0..SourceLen OBVIOUS
      <3>2. n <= unsent => unsent - n \in 0..SourceLen
        BY ONLY <1>1, <2>1, <3>1, PipeAssumption, Counting
      <3> QED BY <2>1, <3>2
    <2>a. TypeOK' BY <1>11, <2>2, <2>3 DEF WriteSome
    <2>b. OutputConserved' BY <1>11, <2>1, <2>2 DEF WriteSome
    <2>c. WhatPassed' BY <1>11, <2>1, <2>2 DEF WriteSome
    <2>d. FormattedIsComplete' BY <1>11, <2>1, <2>2 DEF WriteSome
    <2> QED BY ONLY <2>a, <2>b, <2>c, <2>d DEF FormatInv, FormatExact, PipeInv
  <1>12. CASE WriteReturns
    <2>a. TypeOK' BY <1>12 DEF WriteReturns
    <2>b. OutputConserved' BY <1>12 DEF WriteReturns
    <2>c. WhatPassed' BY <1>12 DEF WriteReturns
    <2>d. FormattedIsComplete' BY <1>12 DEF WriteReturns
    <2> QED BY ONLY <2>a, <2>b, <2>c, <2>d DEF FormatInv, FormatExact, PipeInv
  <1>13. CASE DropStdin
    <2>1. stdin' \in Pipe /\ stdin'.wopen = FALSE
      BY <1>13, ClosesWriteEnd DEF DropStdin
    <2>a. TypeOK' BY <1>13, <2>1 DEF DropStdin
    <2>b. OutputConserved' BY <1>13, <2>1 DEF DropStdin
    <2>c. WhatPassed' BY <1>13, <2>1 DEF DropStdin
    <2>d. FormattedIsComplete' BY <1>13, <2>1 DEF DropStdin
    <2> QED BY ONLY <2>a, <2>b, <2>c, <2>d DEF FormatInv, FormatExact, PipeInv
  <1>14. ASSUME NEW call \in {"read", "write"}, ChildBegins(call)
         PROVE  FormatInv'
    <2>a. TypeOK' BY <1>14, ZenonT(60) DEF ChildBegins
    <2>b. OutputConserved' BY <1>14 DEF ChildBegins
    <2>c. WhatPassed' BY <1>14 DEF ChildBegins
    <2>d. FormattedIsComplete' BY <1>14 DEF ChildBegins
    <2> QED BY ONLY <2>a, <2>b, <2>c, <2>d DEF FormatInv, FormatExact, PipeInv
  <1>15. CASE ChildReads
    <2>1. stdin' \in Pipe /\ stdin'.wopen = stdin.wopen
      <3>1. ASSUME NEW n \in 1..stdin.bytes, stdin' = [stdin EXCEPT !.bytes = stdin.bytes - n]
            PROVE  stdin' \in Pipe /\ stdin'.wopen = stdin.wopen
        BY <3>1, TakesBytes
      <3>2. ASSUME stdin' = [stdin EXCEPT !.ropen = FALSE]
            PROVE  stdin' \in Pipe /\ stdin'.wopen = stdin.wopen
        BY <3>2, ClosesReadEnd
      <3> QED BY <1>15, <3>1, <3>2 DEF ChildReads
    <2>a. TypeOK' BY <1>15, <2>1 DEF ChildReads
    <2>b. OutputConserved' BY <1>15, <2>1 DEF ChildReads
    <2>c. WhatPassed' BY <1>15, <2>1 DEF ChildReads
    <2>d. FormattedIsComplete' BY <1>15, <2>1 DEF ChildReads
    <2> QED BY ONLY <2>a, <2>b, <2>c, <2>d DEF FormatInv, FormatExact, PipeInv
  <1>16. CASE ChildWrites
    <2>1. PICK n \in 1..(PipeCap - stdout.bytes), valid \in BOOLEAN :
             /\ produced + n <= OutputMax
             /\ produced' = produced + n
             /\ stdout' = [stdout EXCEPT !.bytes = stdout.bytes + n]
             /\ utf8' = (utf8 /\ valid)
      BY <1>16 DEF ChildWrites
    <2>2. /\ stdout' \in Pipe /\ stdout'.bytes = stdout.bytes + n
          /\ stdout'.wopen = stdout.wopen /\ stdout'.ropen = stdout.ropen
      BY <2>1, PutsBytes
    <2>3. produced' \in 0..OutputMax /\ OutputConserved'
      <3>1. drained' = drained
        BY <1>16 DEF ChildWrites
      <3>2. /\ produced + n <= OutputMax => produced + n \in 0..OutputMax
            /\ drained + stdout.bytes = produced => drained + (stdout.bytes + n) = produced + n
        BY ONLY <1>0, <1>1, <2>1, PipeAssumption, Counting
      <3>3. produced' \in 0..OutputMax
        BY ONLY <2>1, <3>2
      <3>4. OutputConserved'
        BY ONLY <1>0, <2>1, <2>2, <3>1, <3>2 DEF OutputConserved
      <3> QED BY ONLY <3>3, <3>4
    <2>4. utf8' \in BOOLEAN BY <2>1, Zenon
    <2>a. TypeOK' BY <1>16, <2>2, <2>3, <2>4 DEF ChildWrites
    <2>c. WhatPassed' BY <1>16, <2>1, <2>2 DEF ChildWrites
    <2>d. FormattedIsComplete' BY <1>16, <2>1, <2>2 DEF ChildWrites
    <2> QED BY ONLY <2>3, <2>a, <2>c, <2>d DEF FormatInv, FormatExact, PipeInv
  <1>17. ASSUME ChildSigpipe \/ ChildExits
         PROVE  FormatInv'
    <2>1. /\ stdin' \in Pipe /\ stdin'.wopen = stdin.wopen
          /\ stdout' \in Pipe /\ stdout'.bytes = stdout.bytes
          /\ stdout'.wopen = FALSE /\ stdout'.ropen = stdout.ropen
      BY <1>17, ClosesReadEnd, ClosesWriteEnd DEF ChildSigpipe, ChildExits
    <2>a. TypeOK' BY <1>17, <2>1 DEF ChildSigpipe, ChildExits
    <2>b. OutputConserved' BY <1>17, <2>1 DEF ChildSigpipe, ChildExits
    <2>c. WhatPassed' BY <1>17, <2>1 DEF ChildSigpipe, ChildExits
    <2>d. FormattedIsComplete' BY <1>17, <2>1 DEF ChildSigpipe, ChildExits
    <2> QED BY ONLY <2>a, <2>b, <2>c, <2>d DEF FormatInv, FormatExact, PipeInv
  <1>18. CASE ChildClosesStdin
    <2>1. stdin' \in Pipe /\ stdin'.wopen = stdin.wopen
      BY <1>18, ClosesReadEnd DEF ChildClosesStdin
    <2>a. TypeOK' BY <1>18, <2>1 DEF ChildClosesStdin
    <2>b. OutputConserved' BY <1>18, <2>1 DEF ChildClosesStdin
    <2>c. WhatPassed' BY <1>18, <2>1 DEF ChildClosesStdin
    <2>d. FormattedIsComplete' BY <1>18, <2>1 DEF ChildClosesStdin
    <2> QED BY ONLY <2>a, <2>b, <2>c, <2>d DEF FormatInv, FormatExact, PipeInv
  <1>19. CASE ChildClosesStdout
    <2>1. /\ stdout' \in Pipe /\ stdout'.bytes = stdout.bytes
          /\ stdout'.wopen = FALSE /\ stdout'.ropen = stdout.ropen
      BY <1>19, ClosesWriteEnd DEF ChildClosesStdout
    <2>a. TypeOK' BY <1>19, <2>1 DEF ChildClosesStdout
    <2>b. OutputConserved' BY <1>19, <2>1 DEF ChildClosesStdout
    <2>c. WhatPassed' BY <1>19, <2>1 DEF ChildClosesStdout
    <2>d. FormattedIsComplete' BY <1>19, <2>1 DEF ChildClosesStdout
    <2> QED BY ONLY <2>a, <2>b, <2>c, <2>d DEF FormatInv, FormatExact, PipeInv
  <1>20. CASE UNCHANGED vars
    <2>a. TypeOK' BY <1>20, ZenonT(60) DEF vars
    <2>b. OutputConserved' BY <1>20 DEF vars
    <2>c. WhatPassed' BY <1>20 DEF vars
    <2>d. FormattedIsComplete' BY <1>20 DEF vars
    <2> QED BY ONLY <2>a, <2>b, <2>c, <2>d DEF FormatInv, FormatExact, PipeInv
  <1> QED
    BY <1>2, <1>3, <1>4, <1>5, <1>6, <1>7, <1>8, <1>9, <1>10, <1>11, <1>12, <1>13, <1>14,
       <1>15, <1>16, <1>17, <1>18, <1>19, <1>20 DEF Next, Main, Writer, Child, Finished

\* Options::format hands back as formatted only everything the child wrote, from
\* a child reaped with a permitting status, for any source, output and pipe size.
THEOREM FormatHolds == Spec => []FormatExact
  <1>1. FormatInv => FormatExact
    BY DEF FormatInv, FormatExact
  <1> QED BY <1>1, FormatStarts, FormatStep, PTL DEF Spec


-----------------------------------------------------------------------------
(* The inductive invariant of a selection                                      *)

\* Chosen declarations among the first occurrences.
Chosen(n) == {i \in DOMAIN Entries : i < n /\ Entries[i].target = "declaration" /\ Wanted(i).yes}

\* Names, roots and offsets are those of the occurrences read; each name is that of the first chosen one.
DeclarationsSoFar(n) ==
    /\ chosenSet = Chosen(n)
    /\ roots.declarations = {Entries[i].id : i \in Chosen(n)}
    /\ named = [id \in roots.declarations |-> named[id]]
    /\ \A i \in Chosen(n) : \E f \in Chosen(n) :
          /\ Entries[f].id = Entries[i].id /\ named[Entries[i].id] = Wanted(f).name
          /\ \A j \in Chosen(n) : Entries[j].id = Entries[i].id => f <= j
    /\ DOMAIN extra = {i \in Chosen(n) : Entries[i].kind = "variable" /\ Wanted(i).name # named[Entries[i].id]}
    /\ \A i \in DOMAIN extra : extra[i] = Wanted(i).name

\* Mentions and writings of a tag among the first occurrences.
Mentions(t, n) == {i \in DOMAIN Entries : i < n /\ Entries[i].target = selUnit.tags[t].kind /\ Entries[i].id = t}
Writings(t, n) == {i \in Mentions(t, n) : ~ Entries[i].reference}
Listed(t) == \/ selUnit.tags[t].name \in Patterns.types
             \/ selUnit.tags[t].kind = "enum" /\ selUnit.tags[t].variants \intersect Patterns.vars # {}
\* Where a tag may be chosen: at its first writing or a definition, in a file that is allowed.
ChosenAt(t, n, i) ==
    /\ matches_file(TagFile(Entries[i]))
    /\ \/ Entries[i].definition
       \/ i \in Writings(t, n) /\ \A j \in Writings(t, n) : i <= j
Wants(t, n) == Visible(selUnit, t) /\ (Listed(t) \/ \E i \in Mentions(t, n) : ChosenAt(t, n, i))
IsRoot(t) == t \in roots[FieldOf(selUnit.tags[t].kind)]
TagsSoFar(n) ==
    \A t \in DOMAIN selUnit.tags :
       /\ t \in written <=> Visible(selUnit, t) /\ Writings(t, n) # {}
       /\ IsRoot(t) <=> Wants(t, n)
TagsSettled(n) ==
    \A t \in DOMAIN selUnit.tags : IsRoot(t) <=> Wants(t, n) /\ Writings(t, n) # {}

\* Objects bound so far: further names to an object of their declaration, others to the first chosen one.
Before(n) == {Objects[k] : k \in {j \in DOMAIN Objects : j < n}}
Plain(n) == {o \in Before(n) : o \in chosenSet /\ o \notin DOMAIN extra}
ObjectsSoFar(n) ==
    /\ \A o \in Before(n) : o \in DOMAIN extra =>
          extra[o] \in DOMAIN bindings /\ Entries[bindings[extra[o]]].id = Entries[o].id
    /\ DOMAIN bound = {Entries[o].name : o \in Plain(n)}
    /\ \A o \in Plain(n) : \E f \in Plain(n) :
          /\ Entries[f].name = Entries[o].name /\ bound[Entries[o].name] = f
          /\ \A j \in Plain(n) : Entries[j].name = Entries[o].name => f <= j

End == Len(Entries) + 1
SelectionTypes ==
    /\ selPhase \in {"idle", "origins", "objects", "done", "failed"}
    /\ selAt \in Nat
    /\ roots = [declarations |-> roots.declarations, records |-> roots.records, enums |-> roots.enums,
                constants |-> roots.constants]
    /\ selPhase = "idle" =>
          /\ roots.declarations = {} /\ roots.records = {} /\ roots.enums = {}
          /\ written = {} /\ chosenSet = {}
    /\ selPhase \in {"idle", "origins"} => bound = << >> /\ bindings = << >>
    /\ selPhase = "idle" => named = << >> /\ extra = << >>
    /\ selPhase # "idle" => WellFormed(selUnit) /\ selAt > 0

SelectionInv ==
    /\ SelectionTypes
    /\ selPhase = "origins" => DeclarationsSoFar(selAt) /\ TagsSoFar(selAt)
    /\ selPhase \in {"objects", "done"} /\ retain_declaration_origins(selUnit) =>
          /\ DeclarationsSoFar(End) /\ TagsSettled(End) /\ ObjectsSoFar(selAt)
          /\ selPhase = "done" => selAt > Len(Objects)
          /\ selUnit.callbacks > 0 =>
                blocked = IF selUnit.blocklist = {} THEN {} ELSE blocklist_functions

-----------------------------------------------------------------------------
(* What is read in one occurrence                                              *)

LEMMA SequenceParts ==
    ASSUME NEW s, IsSeq(s)
    PROVE  /\ Len(s) \in Nat /\ DOMAIN s = 1 .. Len(s)
           /\ s = [i \in 1 .. Len(s) |-> s[i]]
  <1>1. PICK S : s \in Seq(S) BY Zenon DEF IsSeq
  <1>2. Len(s) \in Nat /\ DOMAIN s = 1 .. Len(s) /\ s \in [1 .. Len(s) -> S] BY <1>1, LenProperties
  <1> QED BY <1>2

LEMMA LastExists ==
    ASSUME NEW n \in Nat, NEW S \in SUBSET (1 .. n), S # {}
    PROVE  \E m \in S : \A k \in S : k <= m
  <1> DEFINE T == {n - k : k \in S}
  <1>1. T \in SUBSET Nat /\ T # {}
    <2>1. \A k \in S : n - k \in Nat OBVIOUS
    <2>2. PICK k \in S : TRUE OBVIOUS
    <2> QED BY <2>1, <2>2
  <1>2. PICK d \in T : \A e \in T : <<e, d>> \notin OpToRel(<, Nat)
    BY <1>1, NatLessThanWellFounded, WFMin
  <1>3. PICK m \in S : d = n - m BY <1>2
  <1>4. ASSUME NEW k \in S PROVE k <= m
    <2>1. n - k \in T /\ n - k \in Nat /\ d \in Nat BY <1>1, <1>2
    <2>2. ~(n - k < d) BY <1>2, <2>1 DEF OpToRel
    <2>3. k \in Nat /\ m \in Nat OBVIOUS
    <2> QED BY ONLY <2>2, <2>3, <1>3, n \in Nat
  <1> QED BY <1>4

LEMMA LeastIs ==
    ASSUME NEW S \in SUBSET Nat, NEW i \in S, \A j \in S : i <= j
    PROVE  Least(S) = i
  <1>1. \E m \in S : \A j \in S : m <= j OBVIOUS
  <1>2. Least(S) \in S /\ \A j \in S : Least(S) <= j BY <1>1, Zenon DEF Least
  <1>3. Least(S) <= i /\ i <= Least(S) /\ i \in Nat /\ Least(S) \in Nat BY <1>2
  <1> QED BY ONLY <1>3

\* The name and the choice of an occurrence are those the reference reads in it.
LEMMA ReadAlike ==
    ASSUME WellFormed(selUnit), NEW i \in DOMAIN Entries, Entries[i].target = "declaration"
    PROVE  /\ ItemName(Entries[i]) = Wanted(i).name
           /\ Selected(Entries[i]) <=> Wanted(i).yes
  <1> DEFINE e == Entries[i]
             answers == {k \in DOMAIN e.renames : e.renames[k] # NoName}
             last == CHOOSE k \in answers : \A j \in answers : j <= k
  <1>1. IsSeq(e.renames) /\ e.kind \in {"function", "variable", "typedef"}
    BY DEF WellFormed, Entries
  <1>2. answers # {} => e.renames[last] # NoName
    <2> SUFFICES ASSUME answers # {} PROVE last \in answers
      OBVIOUS
    <2>1. answers \in SUBSET (1 .. Len(e.renames)) /\ Len(e.renames) \in Nat BY <1>1, SequenceParts
    <2>2. \E k \in answers : \A j \in answers : j <= k BY <2>1, LastExists
    <2> HIDE DEF answers
    <2> QED BY <2>2, Zenon
  <1>3. ItemName(e) = Wanted(i).name
    <2>1. CASE ItemKind(e) = "none"
      <3>1. {k \in DOMAIN e.renames : e.renames[k] # NoName /\ ItemKind(e) # "none"} = {} BY <2>1
      <3>2. Wanted(i).name = e.name BY <3>1 DEF Wanted
      <3>3. generated_name_override(e) = NoName BY <2>1, Zenon DEF NewestName, generated_name_override
      <3> QED BY <3>2, <3>3, Zenon DEF ItemName
    <2>2. CASE ItemKind(e) # "none"
      <3>1. {k \in DOMAIN e.renames : e.renames[k] # NoName /\ ItemKind(e) # "none"} = answers BY <2>2
      <3>2. Wanted(i).name = IF answers = {} THEN e.name ELSE e.renames[last]
        <4> DEFINE read == {k \in DOMAIN e.renames : e.renames[k] # NoName /\ ItemKind(e) # "none"}
        <4>1. Wanted(i).name = IF read = {} THEN e.name ELSE e.renames[CHOOSE k \in read : \A j \in read : j <= k]
          BY DEF Wanted
        <4> HIDE DEF read, answers, e
        <4> QED BY <3>1, <4>1, Zenon DEF read
      <3>3. NewestName(e) = IF ItemKind(e) = "none" \/ answers = {} THEN NoName ELSE e.renames[last]
        BY Zenon DEF NewestName
      <3>4. generated_name_override(e) = IF answers = {} THEN NoName ELSE e.renames[last]
        <4> HIDE DEF answers, e, last
        <4> QED BY <2>2, <3>3, Zenon DEF generated_name_override
      <3> HIDE DEF last, answers
      <3> HIDE DEF e
      <3> QED BY ONLY <1>2, <3>2, <3>4 DEF ItemName
    <2> QED BY <2>1, <2>2
  <1>4. ItemKind(e) # "none" <=> IF e.kind = "function" THEN ~ e.inline /\ e.id \notin selUnit.inline
                                ELSE e.kind = "variable" /\ e.external
    BY <1>1 DEF ItemKind
  <1>5. Wanted(i).yes <=>
          /\ e.kind = "function" => ~ e.inline /\ e.id \notin selUnit.inline
          /\ \/ ~ is_restricted(Patterns)
             \/ e.file \in Patterns.files \ {Builtin}
             \/ /\ \/ e.kind = "function" /\ ItemName(e) \in Patterns.functions
                   \/ e.kind = "variable" /\ ItemName(e) \in Patterns.vars
                   \/ e.kind = "typedef" /\ ItemName(e) \in Patterns.types
                /\ e.kind = "typedef" => e.file # Builtin
    <2> DEFINE name == Wanted(i).name
               pattern == CASE e.kind = "function" -> Patterns.functions [] e.kind = "variable" -> Patterns.vars
                            [] OTHER -> Patterns.types
    <2>1. Wanted(i).yes <=>
            /\ e.kind = "function" => ~ e.inline /\ e.id \notin selUnit.inline
            /\ \/ ~ is_restricted(Patterns)
               \/ e.file \in Patterns.files \ {Builtin}
               \/ name \in pattern /\ (e.kind = "typedef" => e.file # Builtin)
      BY DEF Wanted
    <2>2. pattern = IF e.kind = "function" THEN Patterns.functions ELSE IF e.kind = "variable" THEN Patterns.vars
                    ELSE Patterns.types
      OBVIOUS
    <2> HIDE DEF pattern
    <2> QED BY <1>1, <1>3, <2>1, <2>2
  <1>6. ByName(e) <=> \/ e.kind = "function" /\ ItemKind(e) # "none" /\ ItemName(e) \in Patterns.functions
                      \/ e.kind = "variable" /\ ItemName(e) \in Patterns.vars
                      \/ e.kind = "typedef" /\ ItemName(e) \in Patterns.types /\ e.file # Builtin
    BY <1>1 DEF ByName
  <1>7. matches_file(e.file) <=> ~ is_restricted(Patterns) \/ e.file \in Patterns.files \ {Builtin}
    BY DEF matches_file
  <1>8. Selected(e) <=> (matches_file(e.file) \/ ByName(e)) /\ (ItemKind(e) # "none" \/ e.kind # "function")
    BY Zenon DEF Selected
  <1>9. Selected(e) <=> Wanted(i).yes
    <2> HIDE DEF e
    <2> QED BY ONLY <1>1, <1>4, <1>5, <1>6, <1>7, <1>8
  <1> QED BY <1>3, <1>9

-----------------------------------------------------------------------------
(* What does not depend on the step                                            *)

LEMMA SameUnit ==
    ASSUME selUnit' = selUnit
    PROVE  /\ Entries' = Entries /\ Objects' = Objects /\ End' = End /\ WellFormed(selUnit)' = WellFormed(selUnit)
           /\ retain_declaration_origins(selUnit)' = retain_declaration_origins(selUnit)
           /\ \A i : Wanted(i)' = Wanted(i)
           /\ \A n : Chosen(n)' = Chosen(n)
  <1>1. Entries' = Entries BY Zenon DEF Entries
  <1>2. \A i : Wanted(i)' = Wanted(i)
    <2> SUFFICES ASSUME NEW i PROVE Wanted(i)' = Wanted(i)
      OBVIOUS
    <2>1. Patterns' = Patterns BY Zenon DEF Patterns
    <2>2. \A e : ItemKind(e)' = ItemKind(e) BY DEF ItemKind
    <2> QED BY DEF Wanted, Entries, Patterns, ItemKind
  <1>3. ASSUME NEW n PROVE Chosen(n)' = Chosen(n) BY <1>1, <1>2, Zenon DEF Chosen
  <1> QED BY <1>1, <1>2, <1>3, Zenon DEF Objects, End

LEMMA EntryParts ==
    ASSUME WellFormed(selUnit)
    PROVE  /\ Len(Entries) \in Nat /\ DOMAIN Entries = 1 .. Len(Entries)
           /\ Len(Objects) \in Nat /\ DOMAIN Objects = 1 .. Len(Objects)
           /\ \A o \in DOMAIN Objects :
                 /\ Objects[o] \in DOMAIN Entries /\ Entries[Objects[o]].target = "declaration"
                 /\ Entries[Objects[o]].kind = "variable"
                 /\ \A j \in DOMAIN Objects : j < o => Objects[j] < Objects[o]
  <1>1. IsSeq(Entries) /\ IsSeq(Objects) BY DEF WellFormed, Entries, Objects
  <1>2. \A o \in DOMAIN Objects :
           /\ Objects[o] \in DOMAIN Entries /\ Entries[Objects[o]].target = "declaration"
           /\ Entries[Objects[o]].kind = "variable"
           /\ \A j \in DOMAIN Objects : j < o => Objects[j] < Objects[o]
    BY DEF WellFormed, Entries, Objects
  <1> QED BY <1>1, <1>2, SequenceParts

LEMMA DeclarationsLater ==
    ASSUME selUnit' = selUnit, NEW m, NEW S, Chosen(m) = S, chosenSet' = S,
           roots'.declarations = {Entries[i].id : i \in S},
           named' = [id \in roots'.declarations |-> named'[id]],
           \A i \in S : \E f \in S :
              /\ Entries[f].id = Entries[i].id /\ named'[Entries[i].id] = Wanted(f).name
              /\ \A j \in S : Entries[j].id = Entries[i].id => f <= j,
           DOMAIN extra' = {i \in S : Entries[i].kind = "variable" /\ Wanted(i).name # named'[Entries[i].id]},
           \A i \in DOMAIN extra' : extra'[i] = Wanted(i).name
    PROVE  DeclarationsSoFar(m)'
  <1>1. Entries' = Entries /\ (\A i : Wanted(i)' = Wanted(i)) /\ Chosen(m)' = S
    BY SameUnit
  <1>2. {(Entries[i].id)' : i \in Chosen(m)'} = {Entries[i].id : i \in S} BY <1>1
  <1>3. \A i \in Chosen(m)' : \E f \in Chosen(m)' :
              /\ Entries'[f].id = Entries'[i].id /\ named'[Entries'[i].id] = Wanted(f)'.name
              /\ \A j \in Chosen(m)' : Entries'[j].id = Entries'[i].id => f <= j
    BY <1>1
  <1>4. DOMAIN extra' = {i \in Chosen(m)' : Entries'[i].kind = "variable" /\ Wanted(i)'.name # named'[Entries'[i].id]}
    BY <1>1
  <1>5. \A i \in DOMAIN extra' : extra'[i] = Wanted(i)'.name BY <1>1
  <1>6. chosenSet' = Chosen(m)' BY <1>1
  <1> QED BY <1>2, <1>3, <1>4, <1>5, <1>6, Zenon DEF DeclarationsSoFar

LEMMA DeclarationsStay ==
    ASSUME selUnit' = selUnit, UNCHANGED <<chosenSet, named, extra>>, roots'.declarations = roots.declarations,
           NEW n, NEW m, Chosen(m) = Chosen(n), DeclarationsSoFar(n)
    PROVE  DeclarationsSoFar(m)'
  <1> DEFINE S == Chosen(n)
  <1>1. named' = [id \in roots'.declarations |-> named'[id]] BY DEF DeclarationsSoFar
  <1>2. /\ chosenSet' = S /\ roots'.declarations = {Entries[i].id : i \in S}
        /\ \A i \in S : \E f \in S :
              /\ Entries[f].id = Entries[i].id /\ named'[Entries[i].id] = Wanted(f).name
              /\ \A j \in S : Entries[j].id = Entries[i].id => f <= j
        /\ DOMAIN extra' = {i \in S : Entries[i].kind = "variable" /\ Wanted(i).name # named'[Entries[i].id]}
        /\ \A i \in DOMAIN extra' : extra'[i] = Wanted(i).name
    BY DEF DeclarationsSoFar
  <1> HIDE DEF S
  <1> QED BY <1>1, <1>2, DeclarationsLater DEF S

\* One more occurrence is chosen, or none.
LEMMA OneMore ==
    ASSUME WellFormed(selUnit), NEW k \in DOMAIN Entries
    PROVE  /\ Chosen(k + 1) = IF Entries[k].target = "declaration" /\ Wanted(k).yes THEN Chosen(k) \union {k} ELSE Chosen(k)
           /\ \A i \in Chosen(k) : i < k /\ i \in Nat
           /\ k \in Nat
  <1>1. DOMAIN Entries = 1 .. Len(Entries) /\ Len(Entries) \in Nat BY EntryParts
  <1>2. \A i \in DOMAIN Entries : i < k + 1 <=> i < k \/ i = k BY <1>1
  <1> QED BY <1>1, <1>2 DEF Chosen

LEMMA DeclarationRead ==
    ASSUME SelectionTypes, WellFormed(selUnit), NEW k, k = selAt, DeclarationsSoFar(k), ApplyDeclaration,
           selPhase' = "origins"
    PROVE  DeclarationsSoFar(k + 1)'
  <1> DEFINE e == Entries[k]
             C == Chosen(k)
  <1>1. k \in DOMAIN Entries /\ e.target = "declaration" /\ selUnit' = selUnit
    BY EntryParts DEF ApplyDeclaration, SelectionTypes
  <1>2. ItemName(e) = Wanted(k).name /\ (Selected(e) <=> Wanted(k).yes) BY <1>1, ReadAlike
  <1>3. IF Selected(e)
        THEN /\ chosenSet' = chosenSet \union {k}
             /\ extra' = IF additional(e) THEN Put(extra, k, ItemName(e)) ELSE extra
             /\ named' = generated_names(e)
             /\ roots' = [roots EXCEPT !.declarations = @ \union {e.id}]
        ELSE UNCHANGED <<roots, named, chosenSet, extra>>
    BY DEF ApplyDeclaration
  <1>4. Chosen(k + 1) = (IF Wanted(k).yes THEN C \union {k} ELSE C) /\ (\A i \in C : i < k /\ i \in Nat) /\ k \in Nat
    BY <1>1, OneMore
  <1>5. Entries' = Entries /\ (\A i : Wanted(i)' = Wanted(i)) /\ Chosen(k + 1)' = Chosen(k + 1) BY <1>1, SameUnit
  <1>6. CASE ~ Selected(e)
    <2>1. Chosen(k + 1) = Chosen(k) BY <1>2, <1>4, <1>6
    <2>2. UNCHANGED <<chosenSet, named, extra>> /\ roots'.declarations = roots.declarations BY <1>3, <1>6
    <2> QED BY <1>1, <2>1, <2>2, DeclarationsStay
  <1>7. CASE Selected(e)
    <2> DEFINE S == C \union {k}
               new == ItemName(e)
    <2>1. Chosen(k + 1)' = S BY <1>2, <1>4, <1>5, <1>7
    <2>2. /\ chosenSet = C /\ roots.declarations = {Entries[i].id : i \in C}
          /\ named = [id \in roots.declarations |-> named[id]]
          /\ \A i \in C : \E f \in C :
                /\ Entries[f].id = Entries[i].id /\ named[Entries[i].id] = Wanted(f).name
                /\ \A j \in C : Entries[j].id = Entries[i].id => f <= j
          /\ DOMAIN extra = {i \in C : Entries[i].kind = "variable" /\ Wanted(i).name # named[Entries[i].id]}
          /\ \A i \in DOMAIN extra : extra[i] = Wanted(i).name
      BY Zenon DEF DeclarationsSoFar
    <2>3. roots'.declarations = roots.declarations \union {e.id} BY <1>3, <1>7 DEF SelectionTypes
    <2>4. DOMAIN named = roots.declarations BY <2>2
    <2>5. /\ named' = [id \in DOMAIN named' |-> named'[id]] /\ DOMAIN named' = DOMAIN named \union {e.id}
          /\ \A id \in DOMAIN named : named'[id] = named[id]
          /\ e.id \notin DOMAIN named => named'[e.id] = new
      <3>1. CASE e.id \in DOMAIN named
        <4>1. named' = named BY <1>3, <1>7, <3>1 DEF generated_names, KeepsFirstName
        <4> HIDE DEF e
        <4> QED BY <2>2, <2>4, <3>1, <4>1
      <3>2. CASE e.id \notin DOMAIN named
        <4>1. named' = [x \in DOMAIN named \union {e.id} |-> IF x = e.id THEN new ELSE named[x]]
          BY <1>3, <1>7, <3>2 DEF generated_names, KeepsFirstName, Put
        <4> HIDE DEF e, new
        <4> QED BY <3>2, <4>1
      <3> QED BY <3>1, <3>2
    <2>6. DOMAIN extra' = DOMAIN extra \union (IF additional(e) THEN {k} ELSE {})
          /\ \A i \in DOMAIN extra' : extra'[i] = IF i = k THEN new ELSE extra[i]
      <3>0. k \notin DOMAIN extra BY <1>4, <2>2
      <3>1. CASE additional(e)
        <4>1. extra' = [x \in DOMAIN extra \union {k} |-> IF x = k THEN new ELSE extra[x]]
          BY <1>3, <1>7, <3>1 DEF Put
        <4> HIDE DEF e, new
        <4> QED BY <3>1, <4>1
      <3>2. CASE ~ additional(e)
        <4>1. extra' = extra BY <1>3, <1>7, <3>2
        <4> HIDE DEF e, new
        <4> QED BY <3>0, <3>2, <4>1
      <3> QED BY <3>1, <3>2
    <2>7. additional(e) <=> e.kind = "variable" /\ e.id \in DOMAIN named /\ named[e.id] # new
      BY Zenon DEF additional
    <2>8. chosenSet' = S BY <1>3, <1>7, <2>2
    <2>9. roots'.declarations = {Entries[i].id : i \in S} BY <2>2, <2>3
    <2>10. named' = [id \in roots'.declarations |-> named'[id]] BY <2>3, <2>4, <2>5
    <2>11. ASSUME NEW i \in S
           PROVE  \E f \in S : /\ Entries[f].id = Entries[i].id /\ named'[Entries[i].id] = Wanted(f).name
                               /\ \A j \in S : Entries[j].id = Entries[i].id => f <= j
      <3>1. CASE \E c \in C : Entries[c].id = Entries[i].id
        <4>1. PICK c \in C : Entries[c].id = Entries[i].id BY <3>1
        <4>2. PICK f \in C : /\ Entries[f].id = Entries[c].id /\ named[Entries[c].id] = Wanted(f).name
                              /\ \A j \in C : Entries[j].id = Entries[c].id => f <= j
          BY <2>2
        <4>3. Entries[i].id \in DOMAIN named BY <2>2, <2>4, <4>1
        <4>4. named'[Entries[i].id] = Wanted(f).name BY <2>5, <4>1, <4>2, <4>3
        <4>5. \A j \in S : Entries[j].id = Entries[i].id => f <= j BY <1>4, <4>1, <4>2
        <4> QED BY <4>1, <4>2, <4>4, <4>5
      <3>2. CASE ~ \E c \in C : Entries[c].id = Entries[i].id
        <4>1. i = k BY <3>2
        <4>2. e.id \notin DOMAIN named BY <2>2, <2>4, <3>2, <4>1
        <4>3. named'[Entries[i].id] = Wanted(k).name BY <1>2, <2>5, <4>1, <4>2
        <4>4. \A j \in S : Entries[j].id = Entries[i].id => k <= j BY <1>4, <3>2
        <4> QED BY <4>1, <4>3, <4>4
      <3> QED BY <3>1, <3>2
    <2>12. ASSUME NEW i \in C
           PROVE  Entries[i].id \in DOMAIN named /\ named'[Entries[i].id] = named[Entries[i].id]
      <3>1. Entries[i].id \in DOMAIN named BY <2>2, <2>4
      <3> QED BY <2>5, <3>1
    <2>13. DOMAIN extra' = {i \in S : Entries[i].kind = "variable" /\ Wanted(i).name # named'[Entries[i].id]}
      <3>1. k \notin C BY <1>4
      <3>2. additional(e) <=> Entries[k].kind = "variable" /\ Wanted(k).name # named'[Entries[k].id]
        BY <1>2, <2>5, <2>7
      <3>3. DOMAIN extra = {i \in C : Entries[i].kind = "variable" /\ Wanted(i).name # named[Entries[i].id]}
        BY <2>2
      <3>4. DOMAIN extra' = DOMAIN extra \union (IF additional(e) THEN {k} ELSE {}) BY <2>6
      <3> HIDE DEF e, C
      <3>5. ASSUME NEW i \in C
            PROVE  i \in DOMAIN extra' <=> Entries[i].kind = "variable" /\ Wanted(i).name # named'[Entries[i].id]
        BY ONLY <2>12, <3>1, <3>3, <3>4, <3>5
      <3>6. k \in DOMAIN extra' <=> Entries[k].kind = "variable" /\ Wanted(k).name # named'[Entries[k].id]
        BY ONLY <3>1, <3>2, <3>3, <3>4
      <3>7. DOMAIN extra' \subseteq C \union {k} BY ONLY <3>3, <3>4
      <3> DEFINE further(i) == Entries[i].kind = "variable" /\ Wanted(i).name # named'[Entries[i].id]
      <3>8. \A i \in S : i \in DOMAIN extra' <=> further(i) BY ONLY <3>5, <3>6, S = C \union {k}
      <3> HIDE DEF further
      <3>9. DOMAIN extra' = {i \in S : further(i)} BY ONLY <3>7, <3>8, S = C \union {k}
      <3> QED BY ONLY <3>9 DEF further
    <2>14. \A i \in DOMAIN extra' : extra'[i] = Wanted(i).name
      <3>1. \A i \in DOMAIN extra : extra[i] = Wanted(i).name BY <2>2
      <3>2. \A i \in DOMAIN extra' : i = k \/ i \in DOMAIN extra BY <2>6
      <3>3. new = Wanted(k).name BY <1>2
      <3> HIDE DEF e, new
      <3> QED BY ONLY <2>6, <3>1, <3>2, <3>3
    <2> HIDE DEF S, C, e, new
    <2>15. Chosen(k + 1) = S BY <1>5, <2>1
    <2> QED BY <1>1, <2>15, <2>8, <2>9, <2>10, <2>11, <2>13, <2>14, DeclarationsLater
  <1> QED BY <1>6, <1>7

-----------------------------------------------------------------------------
(* Tags                                                                        *)

LEMMA SameTags ==
    ASSUME selUnit' = selUnit, NEW t, NEW n
    PROVE  /\ Visible(selUnit, t)' = Visible(selUnit, t)
           /\ Mentions(t, n)' = Mentions(t, n) /\ Writings(t, n)' = Writings(t, n)
           /\ Wants(t, n)' = Wants(t, n)
  <1>1. Visible(selUnit, t)' = Visible(selUnit, t) BY Zenon DEF Visible
  <1>2. Entries' = Entries /\ Patterns' = Patterns BY Zenon DEF Entries, Patterns
  <1>3. Mentions(t, n)' = Mentions(t, n) BY <1>2, Zenon DEF Mentions
  <1>4. Writings(t, n)' = Writings(t, n) BY <1>2, <1>3, Zenon DEF Writings
  <1>5. Listed(t)' = Listed(t) BY <1>2, Zenon DEF Listed
  <1>6. ASSUME NEW i PROVE ChosenAt(t, n, i)' = ChosenAt(t, n, i)
    <2>1. TagFile(Entries[i])' = TagFile(Entries[i]) BY <1>2 DEF TagFile
    <2>2. matches_file(TagFile(Entries[i]))' = matches_file(TagFile(Entries[i]))
      BY <1>2, <2>1 DEF matches_file
    <2> QED BY <1>2, <1>4, <2>2, Zenon DEF ChosenAt
  <1>7. Wants(t, n)' = Wants(t, n)
    <2>1. (\E i \in Mentions(t, n) : ChosenAt(t, n, i))' = (\E i \in Mentions(t, n) : ChosenAt(t, n, i))
      BY <1>3, <1>6, Zenon
    <2> QED BY <1>1, <1>5, <2>1, Zenon DEF Wants
  <1> QED BY <1>1, <1>3, <1>4, <1>7

\* One more occurrence mentions one tag, or none.
LEMMA OneMention ==
    ASSUME WellFormed(selUnit), NEW k \in DOMAIN Entries, NEW t \in DOMAIN selUnit.tags
    PROVE  /\ Mentions(t, k + 1) = IF Entries[k].target \in {"record", "enum"} /\ Entries[k].id = t
                                   THEN Mentions(t, k) \union {k} ELSE Mentions(t, k)
           /\ \A i \in Mentions(t, k) : i < k /\ i \in Nat
           /\ k \in Nat /\ k \notin Mentions(t, k)
  <1>1. DOMAIN Entries = 1 .. Len(Entries) /\ Len(Entries) \in Nat BY EntryParts
  <1>2. \A i \in DOMAIN Entries : i < k + 1 <=> i < k \/ i = k BY <1>1
  <1>3. selUnit.tags[t].kind \in {"record", "enum"} BY DEF WellFormed
  <1>4. Entries[k].target \in {"record", "enum"} /\ Entries[k].id = t => Entries[k].target = selUnit.tags[t].kind
    BY DEF WellFormed, Entries
  <1>5. Entries[k].target = selUnit.tags[t].kind => Entries[k].target \in {"record", "enum"} BY <1>3
  <1>6. k \in Nat /\ \A i \in Mentions(t, k) : i < k /\ i \in Nat BY <1>1 DEF Mentions
  <1>7. ~ (k < k) BY <1>6
  <1> QED BY <1>2, <1>4, <1>5, <1>6, <1>7 DEF Mentions

\* Occurrences that mention no tag leave all tags as they are.
LEMMA TagsStay ==
    ASSUME WellFormed(selUnit), selUnit' = selUnit, NEW k \in DOMAIN Entries, TagsSoFar(k), written' = written,
           Entries[k].target \notin {"record", "enum"},
           roots'.records = roots.records, roots'.enums = roots.enums
    PROVE  TagsSoFar(k + 1)'
  <1> SUFFICES ASSUME NEW t \in DOMAIN selUnit.tags
               PROVE  /\ t \in written <=> Visible(selUnit, t)' /\ Writings(t, k + 1)' # {}
                      /\ IsRoot(t)' <=> Wants(t, k + 1)'
    BY Zenon DEF TagsSoFar
  <1>1. /\ t \in written <=> Visible(selUnit, t) /\ Writings(t, k) # {}
        /\ IsRoot(t) <=> Wants(t, k)
    BY Zenon DEF TagsSoFar
  <1>2. Mentions(t, k + 1) = Mentions(t, k) BY OneMention
  <1>3. Writings(t, k + 1) = Writings(t, k) BY <1>2 DEF Writings
  <1>4. \A i : ChosenAt(t, k + 1, i) = ChosenAt(t, k, i) BY <1>3 DEF ChosenAt
  <1>5. Wants(t, k + 1) <=> Wants(t, k) BY <1>2, <1>4 DEF Wants
  <1>6. IsRoot(t)' <=> IsRoot(t) BY DEF IsRoot, FieldOf
  <1>7. /\ Visible(selUnit, t)' = Visible(selUnit, t) /\ Writings(t, k + 1)' = Writings(t, k + 1)
        /\ Wants(t, k + 1)' = Wants(t, k + 1)
    BY SameTags
  <1> QED BY <1>1, <1>3, <1>5, <1>6, <1>7

LEMMA TagRead ==
    ASSUME SelectionTypes, WellFormed(selUnit), NEW k, k = selAt, TagsSoFar(k), ApplyTag
    PROVE  TagsSoFar(k + 1)'
  <1> DEFINE e == Entries[k]
  <1>1. k \in DOMAIN Entries /\ e.target \in {"record", "enum"} /\ selUnit' = selUnit
    BY EntryParts DEF ApplyTag, SelectionTypes
  <1>2. e.id \in DOMAIN selUnit.tags /\ selUnit.tags[e.id].kind = e.target BY <1>1 DEF WellFormed, Entries
  <1> DEFINE seen == Visible(selUnit, e.id)
             first == ~ e.reference /\ e.id \notin written
             taken == seen /\ matches_file(TagFile(e)) /\ (first \/ e.definition)
  <1>3. /\ written' = IF ~ seen \/ e.reference THEN written ELSE written \union {e.id}
        /\ roots' = IF taken THEN [roots EXCEPT ![FieldOf(e.target)] = @ \union {e.id}] ELSE roots
    BY DEF ApplyTag
  <1> SUFFICES ASSUME NEW t \in DOMAIN selUnit.tags
               PROVE  /\ t \in written' <=> Visible(selUnit, t)' /\ Writings(t, k + 1)' # {}
                      /\ IsRoot(t)' <=> Wants(t, k + 1)'
    BY <1>1, Zenon DEF TagsSoFar
  <1>4. /\ t \in written <=> Visible(selUnit, t) /\ Writings(t, k) # {}
        /\ IsRoot(t) <=> Wants(t, k)
    BY Zenon DEF TagsSoFar
  <1>5. /\ Visible(selUnit, t)' = Visible(selUnit, t) /\ Writings(t, k + 1)' = Writings(t, k + 1)
        /\ Wants(t, k + 1)' = Wants(t, k + 1)
    BY <1>1, SameTags
  <1>6. /\ Mentions(t, k + 1) = IF e.id = t THEN Mentions(t, k) \union {k} ELSE Mentions(t, k)
        /\ \A i \in Mentions(t, k) : i < k /\ i \in Nat
        /\ k \in Nat /\ k \notin Mentions(t, k)
    BY <1>1, OneMention
  <1>7. Writings(t, k + 1) = IF e.id = t /\ ~ e.reference THEN Writings(t, k) \union {k} ELSE Writings(t, k)
    <2> HIDE DEF Mentions
    <2> QED BY <1>6 DEF Writings
  <1>8. Writings(t, k) \subseteq Mentions(t, k) BY Zenon DEF Writings
  <1>9. IsRoot(t)' <=> IsRoot(t) \/ (taken /\ t = e.id)
    <2>1. FieldOf(e.target) \in {"records", "enums"} BY DEF FieldOf
    <2>2. FieldOf(selUnit.tags[t].kind) \in {"records", "enums"} BY DEF FieldOf
    <2>3. \A f \in {"records", "enums"} : taken => roots'[f] = IF f = FieldOf(e.target) THEN roots[f] \union {e.id} ELSE roots[f]
      <3> HIDE DEF taken, e
      <3> QED BY <1>3, <2>1 DEF SelectionTypes
    <2>4. ~ taken => roots' = roots BY <1>3
    <2> HIDE DEF taken, e
    <2> QED BY <1>1, <1>2, <2>1, <2>2, <2>3, <2>4 DEF IsRoot
  <1>10. \A i \in Mentions(t, k) : ChosenAt(t, k + 1, i) <=> ChosenAt(t, k, i)
    <2> SUFFICES ASSUME NEW i \in Mentions(t, k) PROVE ChosenAt(t, k + 1, i) <=> ChosenAt(t, k, i)
      OBVIOUS
    <2>1. i \in Writings(t, k + 1) <=> i \in Writings(t, k) BY <1>6, <1>7
    <2>2. (\A j \in Writings(t, k + 1) : i <= j) <=> \A j \in Writings(t, k) : i <= j BY <1>6, <1>7, <1>8
    <2> QED BY <2>1, <2>2, Zenon DEF ChosenAt
  <1>11. CASE t # e.id
    <2>1. Wants(t, k + 1) <=> Wants(t, k) BY <1>6, <1>10, <1>11 DEF Wants
    <2>2. t \in written' <=> t \in written BY <1>3, <1>11
    <2> HIDE DEF taken, e
    <2> QED BY <1>4, <1>5, <1>7, <1>9, <1>11, <2>1, <2>2
  <1>12. CASE t = e.id
    <2>1. t \in written' <=> t \in written \/ (seen /\ ~ e.reference) BY <1>3, <1>12
    <2>2. ChosenAt(t, k + 1, k) <=>
            matches_file(TagFile(e)) /\ (e.definition \/ (~ e.reference /\ Writings(t, k) = {}))
      <3>1. k \in Writings(t, k + 1) <=> ~ e.reference BY <1>6, <1>7, <1>8, <1>12
      <3>2. (\A j \in Writings(t, k + 1) : k <= j) <=> Writings(t, k) = {} BY <1>6, <1>7, <1>8
      <3> QED BY <3>1, <3>2 DEF ChosenAt
    <2>3. Wants(t, k + 1) <=> Wants(t, k) \/ (seen /\ ChosenAt(t, k + 1, k))
      <3>1. (\E i \in Mentions(t, k + 1) : ChosenAt(t, k + 1, i))
              <=> (\E i \in Mentions(t, k) : ChosenAt(t, k, i)) \/ ChosenAt(t, k + 1, k)
        BY <1>6, <1>10, <1>12
      <3> QED BY <1>12, <3>1 DEF Wants
    <2>4. Writings(t, k + 1) # {} <=> Writings(t, k) # {} \/ ~ e.reference BY <1>7, <1>12
    <2> QED BY <1>4, <1>5, <1>9, <1>12, <2>1, <2>2, <2>3, <2>4
  <1> QED BY <1>11, <1>12

\* At the end of the occurrences, tags that were never written are dropped.
LEMMA TagsEnd ==
    ASSUME SelectionTypes, WellFormed(selUnit), NEW k, k = selAt, TagsSoFar(k), EndOrigins
    PROVE  TagsSettled(End)'
  <1>1. selUnit' = selUnit /\ roots' = [roots EXCEPT !.records = @ \intersect written, !.enums = @ \intersect written]
        /\ k > Len(Entries) /\ k \in Nat
    BY DEF EndOrigins, SelectionTypes
  <1>2. DOMAIN Entries = 1 .. Len(Entries) /\ Len(Entries) \in Nat BY EntryParts
  <1>3. End' = End BY <1>1, SameUnit
  <1> SUFFICES ASSUME NEW t \in DOMAIN selUnit.tags
               PROVE  IsRoot(t)' <=> Wants(t, End)' /\ Writings(t, End)' # {}
    BY <1>1, Zenon DEF TagsSettled
  <1>4. /\ t \in written <=> Visible(selUnit, t) /\ Writings(t, k) # {}
        /\ IsRoot(t) <=> Wants(t, k)
    BY Zenon DEF TagsSoFar
  <1>5. PICK n : n = End OBVIOUS
  <1>6. Mentions(t, k) = Mentions(t, n) BY <1>1, <1>2, <1>5 DEF Mentions, End
  <1>7. Writings(t, k) = Writings(t, n) BY <1>6, Zenon DEF Writings
  <1>8. Wants(t, k) = Wants(t, n) BY <1>6, <1>7, Zenon DEF Wants, ChosenAt
  <1>9. Wants(t, n)' = Wants(t, n) /\ Writings(t, n)' = Writings(t, n) BY <1>1, SameTags
  <1>10. Wants(t, End)' = Wants(t, n)' /\ Writings(t, End)' = Writings(t, n)' BY <1>3, <1>5
  <1>11. IsRoot(t)' <=> IsRoot(t) /\ t \in written
    <2>1. roots'.records = roots.records \intersect written /\ roots'.enums = roots.enums \intersect written
      BY <1>1 DEF SelectionTypes
    <2> QED BY <1>1, <2>1 DEF IsRoot, FieldOf
  <1>12. Wants(t, k) => Visible(selUnit, t) BY Zenon DEF Wants
  <1> QED BY <1>4, <1>7, <1>8, <1>9, <1>10, <1>11, <1>12

-----------------------------------------------------------------------------
(* Objects                                                                     *)

LEMMA ObjectsStart ==
    ASSUME WellFormed(selUnit), selUnit' = selUnit, bound' = << >>
    PROVE  ObjectsSoFar(1)'
  <1>1. Objects' = Objects /\ DOMAIN Objects = 1 .. Len(Objects) /\ Len(Objects) \in Nat
    BY SameUnit, EntryParts
  <1>2. Before(1)' = {}
    <2>1. {j \in DOMAIN Objects : j < 1} = {} BY <1>1
    <2> QED BY <1>1, <2>1 DEF Before
  <1>3. Plain(1)' = {} BY <1>2 DEF Plain
  <1>4. DOMAIN bound' = {} OBVIOUS
  <1> HIDE DEF Before, Plain
  <1> QED BY <1>2, <1>3, <1>4 DEF ObjectsSoFar

\* One more object, later in the source than all before it.
LEMMA OneObject ==
    ASSUME WellFormed(selUnit), NEW k \in DOMAIN Objects
    PROVE  /\ Before(k + 1) = Before(k) \union {Objects[k]}
           /\ Objects[k] \in Nat /\ Objects[k] \notin Before(k) /\ \A o \in Before(k) : o < Objects[k] /\ o \in Nat
  <1>1. /\ DOMAIN Objects = 1 .. Len(Objects) /\ Len(Objects) \in Nat
        /\ DOMAIN Entries = 1 .. Len(Entries) /\ Len(Entries) \in Nat
        /\ \A o \in DOMAIN Objects : Objects[o] \in DOMAIN Entries
        /\ \A j \in DOMAIN Objects : j < k => Objects[j] < Objects[k]
    BY EntryParts
  <1>2. {j \in DOMAIN Objects : j < k + 1} = {j \in DOMAIN Objects : j < k} \union {k} BY <1>1
  <1>3. \A o \in DOMAIN Objects : Objects[o] \in Nat BY <1>1
  <1>4. \A o \in Before(k) : o < Objects[k] /\ o \in Nat BY <1>1, <1>3 DEF Before
  <1>5. Before(k + 1) = Before(k) \union {Objects[k]} BY <1>2 DEF Before
  <1>6. ~ (Objects[k] < Objects[k]) BY <1>3
  <1> QED BY <1>3, <1>4, <1>5, <1>6

LEMMA ObjectsLater ==
    ASSUME selUnit' = selUnit, UNCHANGED <<chosenSet, extra>>, NEW n,
           \A o \in Before(n) : o \in DOMAIN extra =>
              extra[o] \in DOMAIN bindings' /\ Entries[bindings'[extra[o]]].id = Entries[o].id,
           DOMAIN bound' = {Entries[o].name : o \in Plain(n)},
           \A o \in Plain(n) : \E f \in Plain(n) :
              /\ Entries[f].name = Entries[o].name /\ bound'[Entries[o].name] = f
              /\ \A j \in Plain(n) : Entries[j].name = Entries[o].name => f <= j
    PROVE  ObjectsSoFar(n)'
  <1>1. Entries' = Entries /\ Objects' = Objects BY SameUnit
  <1>2. Before(n)' = Before(n) BY <1>1 DEF Before
  <1>3. extra' = extra /\ chosenSet' = chosenSet OBVIOUS
  <1>4. Plain(n)' = Plain(n)
    <2> HIDE DEF Before
    <2> QED BY <1>2, <1>3 DEF Plain
  <1>5. \A o \in Before(n)' : o \in DOMAIN extra' =>
            extra'[o] \in DOMAIN bindings' /\ Entries'[bindings'[extra'[o]]].id = Entries'[o].id
    BY <1>1, <1>2, <1>3
  <1>6. DOMAIN bound' = {Entries'[o].name : o \in Plain(n)'} BY <1>1, <1>4
  <1>7. \A o \in Plain(n)' : \E f \in Plain(n)' :
            /\ Entries'[f].name = Entries'[o].name /\ bound'[Entries'[o].name] = f
            /\ \A j \in Plain(n)' : Entries'[j].name = Entries'[o].name => f <= j
    BY <1>1, <1>4
  <1> QED BY <1>5, <1>6, <1>7, Zenon DEF ObjectsSoFar

LEMMA ObjectRead ==
    ASSUME SelectionTypes, WellFormed(selUnit), retain_declaration_origins(selUnit),
           NEW k, k = selAt, ObjectsSoFar(k), select, selPhase' = "objects"
    PROVE  ObjectsSoFar(k + 1)'
  <1> DEFINE offset == Objects[k]
             e == Entries[offset]
             further == offset \in DOMAIN extra
             taken == further /\ extra[offset] \in DOMAIN bindings
             binds == ~ further /\ offset \in chosenSet /\ e.name \notin DOMAIN bound
  <1>1. k \in DOMAIN Objects /\ selUnit' = selUnit /\ UNCHANGED <<chosenSet, extra>>
    BY EntryParts DEF select, SelectionTypes
  <1>2. /\ taken => Entries[bindings[extra[offset]]].id = e.id
        /\ bindings' = IF further /\ ~ taken THEN Put(bindings, extra[offset], offset) ELSE bindings
        /\ bound' = IF binds THEN Put(bound, e.name, offset) ELSE bound
    BY DEF select
  <1>3. /\ Before(k + 1) = Before(k) \union {offset}
        /\ offset \in Nat /\ offset \notin Before(k) /\ \A o \in Before(k) : o < offset /\ o \in Nat
    BY <1>1, OneObject
  <1>4. Plain(k + 1) = IF offset \in chosenSet /\ ~ further THEN Plain(k) \union {offset} ELSE Plain(k)
    <2> HIDE DEF Before, offset
    <2> QED BY <1>3 DEF Plain
  <1>5. Plain(k) \subseteq Before(k) BY DEF Plain
  <1>6. /\ \A o \in Before(k) : o \in DOMAIN extra =>
              extra[o] \in DOMAIN bindings /\ Entries[bindings[extra[o]]].id = Entries[o].id
        /\ DOMAIN bound = {Entries[o].name : o \in Plain(k)}
        /\ \A o \in Plain(k) : \E f \in Plain(k) :
              /\ Entries[f].name = Entries[o].name /\ bound[Entries[o].name] = f
              /\ \A j \in Plain(k) : Entries[j].name = Entries[o].name => f <= j
    BY Zenon DEF ObjectsSoFar
  <1>7. /\ \A x \in DOMAIN bindings : x \in DOMAIN bindings' /\ bindings'[x] = bindings[x]
        /\ further /\ ~ taken => extra[offset] \in DOMAIN bindings' /\ bindings'[extra[offset]] = offset
    <2>1. CASE further /\ ~ taken
      <3>1. bindings' = [x \in DOMAIN bindings \union {extra[offset]} |-> IF x = extra[offset] THEN offset ELSE bindings[x]]
        BY <1>2, <2>1 DEF Put
      <3>2. extra[offset] \notin DOMAIN bindings BY <2>1
      <3> HIDE DEF offset, taken, further
      <3> QED BY <3>1, <3>2
    <2>2. CASE ~ (further /\ ~ taken)
      <3>1. bindings' = bindings BY <1>2, <2>2
      <3> HIDE DEF offset, taken, further
      <3> QED BY <2>2, <3>1
    <2> QED BY <2>1, <2>2
  <1>8. ASSUME NEW o \in Before(k + 1), o \in DOMAIN extra
        PROVE  extra[o] \in DOMAIN bindings' /\ Entries[bindings'[extra[o]]].id = Entries[o].id
    <2>1. CASE o \in Before(k)
      <3>1. extra[o] \in DOMAIN bindings /\ Entries[bindings[extra[o]]].id = Entries[o].id BY <1>6, <1>8, <2>1
      <3> QED BY <1>7, <3>1
    <2>2. CASE o = offset
      <3>1. further BY <1>8, <2>2
      <3>2. CASE taken
        <4>1. extra[o] \in DOMAIN bindings /\ Entries[bindings[extra[o]]].id = Entries[o].id BY <1>2, <2>2, <3>2
        <4> QED BY <1>7, <4>1
      <3>3. CASE ~ taken
        <4>1. extra[o] \in DOMAIN bindings' /\ bindings'[extra[o]] = o BY <1>7, <2>2, <3>1, <3>3
        <4> QED BY <4>1
      <3> QED BY <3>2, <3>3
    <2> QED BY <1>3, <1>8, <2>1, <2>2
  <1>9. /\ DOMAIN bound' = DOMAIN bound \union (IF binds THEN {e.name} ELSE {})
        /\ \A x \in DOMAIN bound : bound'[x] = bound[x]
        /\ binds => bound'[e.name] = offset
    <2>1. CASE binds
      <3>1. bound' = [x \in DOMAIN bound \union {e.name} |-> IF x = e.name THEN offset ELSE bound[x]]
        BY <1>2, <2>1 DEF Put
      <3>2. e.name \notin DOMAIN bound BY <2>1
      <3> HIDE DEF offset, e, binds
      <3> QED BY <2>1, <3>1, <3>2
    <2>2. CASE ~ binds
      <3>1. bound' = bound BY <1>2, <2>2
      <3> HIDE DEF offset, e, binds
      <3> QED BY <2>2, <3>1
    <2> QED BY <2>1, <2>2
  <1>10. DOMAIN bound' = {Entries[o].name : o \in Plain(k + 1)}
    <2>1. CASE binds
      <3>1. Plain(k + 1) = Plain(k) \union {offset} BY <1>4, <2>1
      <3> HIDE DEF offset, binds, Plain
      <3> QED BY <1>6, <1>9, <2>1, <3>1
    <2>2. CASE offset \in chosenSet /\ ~ further /\ ~ binds
      <3>1. Plain(k + 1) = Plain(k) \union {offset} BY <1>4, <2>2
      <3>2. e.name \in DOMAIN bound BY <2>2
      <3> HIDE DEF offset, binds, Plain
      <3> QED BY <1>6, <1>9, <2>2, <3>1, <3>2
    <2>3. CASE ~ (offset \in chosenSet /\ ~ further)
      <3>1. Plain(k + 1) = Plain(k) /\ ~ binds BY <1>4, <2>3
      <3> HIDE DEF offset, binds, Plain
      <3> QED BY <1>6, <1>9, <3>1
    <2> QED BY <2>1, <2>2, <2>3
  <1>11. ASSUME NEW o \in Plain(k + 1)
         PROVE  \E f \in Plain(k + 1) :
                   /\ Entries[f].name = Entries[o].name /\ bound'[Entries[o].name] = f
                   /\ \A j \in Plain(k + 1) : Entries[j].name = Entries[o].name => f <= j
    <2> HIDE DEF offset
    <2>1. CASE \E c \in Plain(k) : Entries[c].name = Entries[o].name
      <3>1. PICK c \in Plain(k) : Entries[c].name = Entries[o].name BY <2>1
      <3>2. PICK f \in Plain(k) : /\ Entries[f].name = Entries[c].name /\ bound[Entries[c].name] = f
                                  /\ \A j \in Plain(k) : Entries[j].name = Entries[c].name => f <= j
        BY <1>6
      <3>3. Entries[c].name \in DOMAIN bound BY <1>6
      <3>4. bound'[Entries[o].name] = f BY <1>9, <3>1, <3>2, <3>3
      <3>5. f \in Nat /\ f <= offset BY <1>3, <1>5
      <3>6. \A j \in Plain(k + 1) : Entries[j].name = Entries[o].name => f <= j BY <1>4, <3>1, <3>2, <3>5
      <3> QED BY <1>4, <3>1, <3>2, <3>4, <3>6
    <2>2. CASE ~ \E c \in Plain(k) : Entries[c].name = Entries[o].name
      <3>1. o = offset /\ offset \in chosenSet /\ ~ further BY <1>4, <2>2
      <3>2. e.name \notin DOMAIN bound BY <1>6, <2>2, <3>1
      <3>3. bound'[Entries[o].name] = offset BY <1>9, <3>1, <3>2
      <3>4. \A j \in Plain(k + 1) : Entries[j].name = Entries[o].name => offset <= j BY <1>3, <1>4, <2>2
      <3> QED BY <3>1, <3>3, <3>4
    <2> QED BY <2>1, <2>2
  <1> HIDE DEF offset, e, further, taken, binds
  <1> QED BY <1>1, <1>8, <1>10, <1>11, ObjectsLater

-----------------------------------------------------------------------------
(* The invariant                                                               *)

LEMMA SelectionStarts == SelectionInit => SelectionInv
  <1> SUFFICES ASSUME SelectionInit PROVE SelectionInv
    OBVIOUS
  <1>1. SelectionTypes BY DEF SelectionInit, SelectionTypes
  <1>2. selPhase = "idle" BY DEF SelectionInit
  <1> QED BY <1>1, <1>2 DEF SelectionInv

LEMMA UnitRead ==
    ASSUME SelectionInv, StartSelection
    PROVE  SelectionInv'
  <1>1. /\ selPhase = "idle" /\ selAt' = 1
        /\ UNCHANGED <<written, named, chosenSet, extra, bound, bindings>>
    BY DEF StartSelection
  <1>2. PICK unit \in SelectionUnits :
          /\ selUnit' = unit
          /\ blocked' = unit.blocklist
          /\ roots' = [roots EXCEPT !.records = TagsByName(unit, "record"), !.enums = TagsByName(unit, "enum")]
          /\ selPhase' = IF retain_declaration_origins(unit) THEN "origins" ELSE "objects"
    BY Zenon DEF StartSelection
  <1>3. /\ SelectionTypes /\ roots.declarations = {} /\ written = {} /\ chosenSet = {}
        /\ bound = << >> /\ bindings = << >> /\ named = << >> /\ extra = << >>
    BY <1>1 DEF SelectionInv, SelectionTypes
  <1>4. WellFormed(selUnit)' BY <1>2, SelectionAssumption
  <1>5. /\ roots' = [declarations |-> roots'.declarations, records |-> roots'.records, enums |-> roots'.enums,
                     constants |-> roots'.constants]
        /\ roots'.declarations = {}
        /\ roots'.records = TagsByName(unit, "record") /\ roots'.enums = TagsByName(unit, "enum")
    BY <1>2, <1>3 DEF SelectionTypes
  <1>6. SelectionTypes'
    BY <1>1, <1>2, <1>3, <1>4, <1>5 DEF SelectionTypes
  <1>7. selPhase' = "objects" => ~ retain_declaration_origins(selUnit)' BY <1>2
  <1>8. DOMAIN Entries' = 1 .. Len(Entries') /\ Len(Entries') \in Nat
    <2>1. IsSeq(Entries') BY <1>4 DEF WellFormed, Entries
    <2> QED BY <2>1, SequenceParts
  <1>9. {i \in DOMAIN Entries' : i < 1} = {} BY <1>8
  <1>10. DeclarationsSoFar(1)'
    <2>1. Chosen(1)' = {} BY <1>9 DEF Chosen
    <2>2. named' = [id \in {} |-> named'[id]] /\ DOMAIN extra' = {}
      <3>1. << >> = [id \in {} |-> << >>[id]] OBVIOUS
      <3> QED BY <1>1, <1>3, <3>1
    <2> HIDE DEF Chosen
    <2> QED BY <1>1, <1>3, <1>5, <2>1, <2>2 DEF DeclarationsSoFar
  <1>11. TagsSoFar(1)'
    <2> SUFFICES ASSUME NEW t \in DOMAIN selUnit'.tags
                 PROVE  /\ t \in written' <=> Visible(selUnit, t)' /\ Writings(t, 1)' # {}
                        /\ IsRoot(t)' <=> Wants(t, 1)'
      BY Zenon DEF TagsSoFar
    <2>1. Mentions(t, 1)' = {} BY <1>9 DEF Mentions
    <2>2. Writings(t, 1)' = {} BY <2>1 DEF Writings
    <2>3. Wants(t, 1)' <=> Visible(selUnit, t)' /\ Listed(t)' BY <2>1, Zenon DEF Wants
    <2>4. unit.tags[t].kind \in {"record", "enum"} BY <1>2, <1>4 DEF WellFormed
    <2>5. IsRoot(t)' <=> t \in TagsByName(unit, unit.tags[t].kind) BY <1>2, <1>5, <2>4 DEF IsRoot, FieldOf
    <2>6. t \in TagsByName(unit, unit.tags[t].kind)
            <=> Visible(unit, t) /\ (unit.tags[t].name \in unit.patterns.types
                                     \/ (unit.tags[t].kind = "enum" /\ unit.tags[t].variants \intersect unit.patterns.vars # {}))
      <3>1. t \in DOMAIN unit.tags BY <1>2
      <3> QED BY <3>1, Zenon DEF TagsByName, Tags
    <2>7. Listed(t)' <=> (unit.tags[t].name \in unit.patterns.types
                          \/ (unit.tags[t].kind = "enum" /\ unit.tags[t].variants \intersect unit.patterns.vars # {}))
      BY <1>2, Zenon DEF Listed, Patterns
    <2>8. Visible(selUnit, t)' <=> Visible(unit, t) BY <1>2, Zenon DEF Visible
    <2> QED BY <1>1, <1>3, <2>2, <2>3, <2>5, <2>6, <2>7, <2>8
  <1>12. selPhase' \in {"origins", "objects"} BY <1>2
  <1> QED BY <1>1, <1>6, <1>7, <1>10, <1>11, <1>12 DEF SelectionInv

\* Occurrences, one of each kind, and their end.
LEMMA OccurrenceRead ==
    ASSUME SelectionInv, ApplyDeclaration \/ ApplyTag \/ ApplyEnumerator
    PROVE  SelectionInv'
  <1>1. PICK k : k = selAt OBVIOUS
  <1>2. /\ selPhase = "origins" /\ k \in Nat /\ k > 0 /\ k <= Len(Entries) /\ selUnit' = selUnit
        /\ SelectionTypes /\ WellFormed(selUnit) /\ DeclarationsSoFar(k) /\ TagsSoFar(k)
    BY <1>1 DEF SelectionInv, SelectionTypes, ApplyDeclaration, ApplyTag, ApplyEnumerator
  <1>3. k \in DOMAIN Entries BY <1>2, EntryParts
  <1>4. CASE selPhase' = "failed"
    <2>1. ApplyDeclaration /\ UNCHANGED <<selAt, roots>> BY <1>2, <1>4 DEF ApplyDeclaration, ApplyTag, ApplyEnumerator
    <2> QED BY <1>2, <1>4, <2>1 DEF SelectionInv, SelectionTypes
  <1>5. CASE selPhase' # "failed"
    <2>1. selPhase' = "origins" /\ selAt' = k + 1 /\ bound' = bound /\ bindings' = bindings
      BY <1>1, <1>2, <1>5 DEF ApplyDeclaration, ApplyTag, ApplyEnumerator
    <2>2. roots' = [declarations |-> roots'.declarations, records |-> roots'.records, enums |-> roots'.enums,
                    constants |-> roots'.constants]
      BY <1>2, <2>1 DEF SelectionTypes, ApplyDeclaration, ApplyTag, ApplyEnumerator, FieldOf
    <2>3. SelectionTypes' BY <1>2, <2>1, <2>2 DEF SelectionTypes
    <2>4. DeclarationsSoFar(k + 1)' /\ TagsSoFar(k + 1)'
      <3>1. CASE ApplyDeclaration
        <4>1. DeclarationsSoFar(k + 1)' BY <1>1, <1>2, <2>1, <3>1, DeclarationRead
        <4>2. /\ Entries[k].target \notin {"record", "enum"} /\ written' = written
              /\ roots'.records = roots.records /\ roots'.enums = roots.enums
          BY <1>1, <1>2, <3>1 DEF ApplyDeclaration, SelectionTypes
        <4> QED BY <1>2, <1>3, <4>1, <4>2, TagsStay
      <3>2. CASE ApplyTag \/ ApplyEnumerator
        <4>1. /\ Entries[k].target # "declaration" /\ UNCHANGED <<chosenSet, named, extra>>
              /\ roots'.declarations = roots.declarations
          BY <1>1, <1>2, <3>2 DEF ApplyTag, ApplyEnumerator, SelectionTypes, FieldOf
        <4>2. Chosen(k + 1) = Chosen(k) BY <1>2, <1>3, <4>1, OneMore
        <4>3. DeclarationsSoFar(k + 1)' BY <1>2, <4>1, <4>2, DeclarationsStay
        <4>4. CASE ApplyTag
          <5>1. TagsSoFar(k + 1)' BY <1>1, <1>2, <4>4, TagRead
          <5> QED BY <4>3, <5>1
        <4>5. CASE ApplyEnumerator
          <5>1. /\ Entries[k].target \notin {"record", "enum"} /\ written' = written
                /\ roots'.records = roots.records /\ roots'.enums = roots.enums
            BY <1>1, <1>2, <4>5 DEF ApplyEnumerator, SelectionTypes
          <5> QED BY <1>2, <1>3, <4>3, <5>1, TagsStay
        <4> QED BY <3>2, <4>4, <4>5
      <3> QED BY <3>1, <3>2
    <2>5. PICK n : n = k + 1 OBVIOUS
    <2>6. DeclarationsSoFar(n)' /\ TagsSoFar(n)' /\ selAt' = n BY <2>1, <2>4, <2>5
    <2>7. DeclarationsSoFar(selAt)' /\ TagsSoFar(selAt)'
      <3>1. DeclarationsSoFar(selAt)' <=> DeclarationsSoFar(n)' BY <2>6, Zenon DEF DeclarationsSoFar, Chosen
      <3>2. TagsSoFar(selAt)' <=> TagsSoFar(n)'
        <4>1. ASSUME NEW t PROVE Writings(t, selAt)' = Writings(t, n)' /\ Wants(t, selAt)' = Wants(t, n)'
          <5>1. Mentions(t, selAt)' = Mentions(t, n)' BY <2>6, Zenon DEF Mentions
          <5>2. Writings(t, selAt)' = Writings(t, n)' BY <5>1, Zenon DEF Writings
          <5>3. Wants(t, selAt)' = Wants(t, n)' BY <5>1, <5>2, Zenon DEF Wants, ChosenAt
          <5> QED BY <5>2, <5>3
        <4> QED BY <4>1, Zenon DEF TagsSoFar
      <3> QED BY <2>6, <3>1, <3>2
    <2> QED BY <2>1, <2>3, <2>7 DEF SelectionInv
  <1> QED BY <1>4, <1>5

\* The same holds for another number that is as large.
LEMMA SameNumber ==
    ASSUME NEW n, End' = n
    PROVE  /\ DeclarationsSoFar(End)' <=> DeclarationsSoFar(n)'
           /\ TagsSettled(End)' <=> TagsSettled(n)'
  <1>0. Chosen(End)' = Chosen(n)' BY Zenon DEF Chosen
  <1>1. DeclarationsSoFar(End)' <=> DeclarationsSoFar(n)' BY <1>0, Zenon DEF DeclarationsSoFar
  <1>2. TagsSettled(End)' <=> TagsSettled(n)'
    <2>1. ASSUME NEW t PROVE Writings(t, End)' = Writings(t, n)' /\ Wants(t, End)' = Wants(t, n)'
      <3>1. Mentions(t, End)' = Mentions(t, n)' BY Zenon DEF Mentions
      <3>2. Writings(t, End)' = Writings(t, n)' BY <3>1, Zenon DEF Writings
      <3>3. Wants(t, End)' = Wants(t, n)' BY <3>1, <3>2, Zenon DEF Wants, ChosenAt
      <3> QED BY <3>2, <3>3
    <2> QED BY <2>1, Zenon DEF TagsSettled
  <1> QED BY <1>1, <1>2

Blocked == selUnit.callbacks > 0 => blocked = IF selUnit.blocklist = {} THEN {} ELSE blocklist_functions
Settled == DeclarationsSoFar(End) /\ TagsSettled(End) /\ Blocked

LEMMA BlockedBy ==
    ASSUME UNCHANGED <<selUnit, named>>
    PROVE  (blocklist_functions)' = blocklist_functions
  <1>1. Entries' = Entries BY Zenon DEF Entries
  <1>2. Functions' = Functions BY <1>1, Zenon DEF Functions
  <1>3. ASSUME NEW i PROVE GeneratedName(Entries[i])' = GeneratedName(Entries[i]) BY <1>1 DEF GeneratedName
  <1>4. {j \in Functions : GeneratedName(Entries[j]) \in selUnit.blocklist}'
          = {j \in Functions : GeneratedName(Entries[j]) \in selUnit.blocklist}
    BY <1>2, <1>3
  <1> DEFINE J == {j \in Functions : GeneratedName(Entries[j]) \in selUnit.blocklist}
  <1>5. BlockedByGeneratedName' = {Entries[i].name : i \in J}' /\ BlockedByGeneratedName = {Entries[i].name : i \in J}
    BY Zenon DEF BlockedByGeneratedName
  <1>6. {Entries[i].name : i \in J}' = {Entries[i].name : i \in J}
    <2> HIDE DEF J
    <2>1. J' = J BY <1>4 DEF J
    <2> QED BY <1>1, <2>1
  <1> QED BY <1>5, <1>6, Zenon DEF blocklist_functions

LEMMA SettledStays ==
    ASSUME UNCHANGED <<selUnit, roots, chosenSet, named, extra, blocked>>, Settled
    PROVE  Settled'
  <1>1. PICK n : n = End OBVIOUS
  <1>2. End' = n BY <1>1, SameUnit
  <1>3. DeclarationsSoFar(n) /\ TagsSettled(n)
    <2>1. DeclarationsSoFar(n) BY <1>1, Zenon DEF Settled
    <2>2. TagsSettled(n) BY <1>1, Zenon DEF Settled
    <2> QED BY <2>1, <2>2
  <1>4. DeclarationsSoFar(n)' BY <1>3, DeclarationsStay
  <1>5. TagsSettled(n)'
    <2> SUFFICES ASSUME NEW t \in DOMAIN selUnit.tags
                 PROVE  IsRoot(t)' <=> Wants(t, n)' /\ Writings(t, n)' # {}
      BY Zenon DEF TagsSettled
    <2>1. IsRoot(t) <=> Wants(t, n) /\ Writings(t, n) # {} BY <1>3, Zenon DEF TagsSettled
    <2>2. Wants(t, n)' = Wants(t, n) /\ Writings(t, n)' = Writings(t, n) BY SameTags
    <2>3. IsRoot(t)' = IsRoot(t) BY DEF IsRoot
    <2> QED BY <2>1, <2>2, <2>3
  <1>6. Blocked' BY BlockedBy DEF Settled, Blocked
  <1> QED BY <1>2, <1>4, <1>5, <1>6, SameNumber DEF Settled

LEMMA OccurrencesEnd ==
    ASSUME SelectionInv, EndOrigins
    PROVE  SelectionInv'
  <1>1. PICK k : k = selAt OBVIOUS
  <1>2. /\ selPhase = "origins" /\ k \in Nat /\ k > Len(Entries) /\ selPhase' = "objects" /\ selAt' = 1
        /\ UNCHANGED <<selUnit, written, named, chosenSet, extra, bound, bindings>>
        /\ SelectionTypes /\ WellFormed(selUnit) /\ DeclarationsSoFar(k) /\ TagsSoFar(k)
        /\ bound = << >> /\ bindings = << >>
    BY <1>1 DEF SelectionInv, SelectionTypes, EndOrigins
  <1>3. roots' = [roots EXCEPT !.records = @ \intersect written, !.enums = @ \intersect written] BY DEF EndOrigins
  <1>4. /\ roots' = [declarations |-> roots'.declarations, records |-> roots'.records, enums |-> roots'.enums,
                     constants |-> roots'.constants]
        /\ roots'.declarations = roots.declarations
    BY <1>2, <1>3 DEF SelectionTypes
  <1>5. SelectionTypes' BY <1>2, <1>4 DEF SelectionTypes
  <1>6. PICK n : n = End OBVIOUS
  <1>7. End' = n BY <1>2, <1>6, SameUnit
  <1>8. Chosen(n) = Chosen(k)
    <2>1. DOMAIN Entries = 1 .. Len(Entries) /\ Len(Entries) \in Nat BY <1>2, EntryParts
    <2> QED BY <1>2, <1>6, <2>1 DEF Chosen, End
  <1>9. DeclarationsSoFar(n)' BY <1>2, <1>4, <1>8, DeclarationsStay
  <1>10. TagsSettled(End)' BY <1>1, <1>2, TagsEnd
  <1>11. Blocked'
    <2>1. blocked' = IF selUnit.callbacks > 0 /\ selUnit.blocklist # {} THEN blocklist_functions ELSE selUnit.blocklist
      BY DEF EndOrigins
    <2>2. (blocklist_functions)' = blocklist_functions BY <1>2, BlockedBy
    <2> QED BY <1>2, <2>1, <2>2 DEF Blocked
  <1>12. ObjectsSoFar(1)' BY <1>2, ObjectsStart
  <1>13. PICK one : one = 1 OBVIOUS
  <1>14. ObjectsSoFar(selAt)'
    <2>1. ObjectsSoFar(one)' BY <1>12, <1>13
    <2>2. selAt' = one BY <1>2, <1>13
    <2>3. Before(selAt)' = Before(one)' BY <2>2, Zenon DEF Before
    <2>4. Plain(selAt)' = Plain(one)' BY <2>3, Zenon DEF Plain
    <2> QED BY <2>1, <2>3, <2>4, Zenon DEF ObjectsSoFar
  <1>15. DeclarationsSoFar(End)' BY <1>7, <1>9, SameNumber
  <1> QED BY <1>2, <1>5, <1>10, <1>11, <1>14, <1>15 DEF SelectionInv, Blocked

LEMMA ObjectsRead ==
    ASSUME SelectionInv, select \/ EndSelection \/ UNCHANGED selectionVars
    PROVE  SelectionInv'
  <1>1. PICK k : k = selAt OBVIOUS
  <1>2. CASE select
    <2>1. /\ selPhase = "objects" /\ selAt' = k + 1 /\ selPhase' \in {"objects", "failed"}
          /\ UNCHANGED <<selUnit, roots, written, named, chosenSet, extra, blocked>>
          /\ SelectionTypes /\ WellFormed(selUnit) /\ k \in Nat /\ k > 0
      BY <1>1, <1>2 DEF SelectionInv, SelectionTypes, select
    <2>2. SelectionTypes' BY <2>1 DEF SelectionTypes
    <2>3. ASSUME retain_declaration_origins(selUnit), selPhase' = "objects"
          PROVE  Settled' /\ ObjectsSoFar(selAt)'
      <3>1. Settled /\ ObjectsSoFar(selAt) BY <2>1, <2>3 DEF SelectionInv, Settled, Blocked
      <3>2. Settled' BY <2>1, <3>1, SettledStays
      <3>3. ObjectsSoFar(k) BY <1>1, <3>1
      <3>4. ObjectsSoFar(k + 1)' BY <1>1, <1>2, <2>1, <2>3, <3>3, ObjectRead
      <3>5. PICK n : n = k + 1 OBVIOUS
      <3>6. ObjectsSoFar(n)' /\ selAt' = n BY <2>1, <3>4, <3>5
      <3>7. ObjectsSoFar(selAt)'
        <4>1. Before(selAt)' = Before(n)' BY <3>6, Zenon DEF Before
        <4>2. Plain(selAt)' = Plain(n)' BY <4>1, Zenon DEF Plain
        <4> QED BY <3>6, <4>1, <4>2, Zenon DEF ObjectsSoFar
      <3> QED BY <3>2, <3>7
    <2>4. retain_declaration_origins(selUnit)' <=> retain_declaration_origins(selUnit) BY <2>1, SameUnit
    <2> QED BY <2>1, <2>2, <2>3, <2>4 DEF SelectionInv, Settled, Blocked
  <1>3. CASE EndSelection \/ UNCHANGED selectionVars
    <2>1. /\ UNCHANGED <<selUnit, selAt, roots, written, named, chosenSet, extra, blocked, bound, bindings>>
          /\ selPhase' = selPhase \/ (selPhase = "objects" /\ selAt > Len(Objects) /\ selPhase' = "done")
      BY <1>3 DEF EndSelection, selectionVars
    <2>2. SelectionTypes' BY <2>1 DEF SelectionInv, SelectionTypes
    <2>3. ASSUME selPhase' = "origins" PROVE DeclarationsSoFar(selAt)' /\ TagsSoFar(selAt)'
      <3>1. selPhase = "origins" /\ selAt' = k BY <1>1, <2>1, <2>3
      <3>2. DeclarationsSoFar(k) /\ TagsSoFar(k) BY <1>1, <3>1 DEF SelectionInv
      <3>3. DeclarationsSoFar(k)' BY <2>1, <3>2, DeclarationsStay
      <3>4. TagsSoFar(k)'
        <4> SUFFICES ASSUME NEW t \in DOMAIN selUnit.tags
                     PROVE  /\ t \in written <=> Visible(selUnit, t)' /\ Writings(t, k)' # {}
                            /\ IsRoot(t)' <=> Wants(t, k)'
          BY <2>1, Zenon DEF TagsSoFar
        <4>1. /\ t \in written <=> Visible(selUnit, t) /\ Writings(t, k) # {}
              /\ IsRoot(t) <=> Wants(t, k)
          BY <3>2, Zenon DEF TagsSoFar
        <4>2. /\ Visible(selUnit, t)' = Visible(selUnit, t) /\ Writings(t, k)' = Writings(t, k)
              /\ Wants(t, k)' = Wants(t, k)
          BY <2>1, SameTags
        <4>3. IsRoot(t)' <=> IsRoot(t) BY <2>1 DEF IsRoot
        <4> QED BY <4>1, <4>2, <4>3
      <3>5. DeclarationsSoFar(selAt)' <=> DeclarationsSoFar(k)'
        <4>1. Chosen(selAt)' = Chosen(k)' BY <3>1, Zenon DEF Chosen
        <4> QED BY ONLY <4>1, Zenon DEF DeclarationsSoFar
      <3>6. TagsSoFar(selAt)' <=> TagsSoFar(k)'
        <4>1. ASSUME NEW t PROVE Writings(t, selAt)' = Writings(t, k)' /\ Wants(t, selAt)' = Wants(t, k)'
          <5>1. Mentions(t, selAt)' = Mentions(t, k)' BY <3>1, Zenon DEF Mentions
          <5>2. Writings(t, selAt)' = Writings(t, k)' BY <5>1, Zenon DEF Writings
          <5>3. Wants(t, selAt)' = Wants(t, k)' BY <5>1, <5>2, Zenon DEF Wants, ChosenAt
          <5> QED BY <5>2, <5>3
        <4> QED BY <4>1, Zenon DEF TagsSoFar
      <3> QED BY <3>3, <3>4, <3>5, <3>6
    <2>4. ASSUME selPhase' \in {"objects", "done"}, retain_declaration_origins(selUnit)
          PROVE  Settled' /\ ObjectsSoFar(selAt)' /\ (selPhase' = "done" => selAt' > Len(Objects'))
      <3>1. selPhase \in {"objects", "done"} BY <2>1, <2>4
      <3>2. Settled /\ ObjectsSoFar(selAt) /\ (selPhase = "done" => selAt > Len(Objects))
        BY <2>4, <3>1 DEF SelectionInv, Settled, Blocked
      <3>3. Settled' BY <2>1, <3>2, SettledStays
      <3>4. Entries' = Entries /\ Objects' = Objects BY <2>1, SameUnit
      <3>5. Before(selAt)' = Before(selAt) BY <2>1, <3>4 DEF Before
      <3>6. Plain(selAt)' = Plain(selAt)
        <4> HIDE DEF Before
        <4> QED BY <2>1, <3>5 DEF Plain
      <3>7. ObjectsSoFar(selAt)'
        <4> HIDE DEF Before, Plain
        <4> QED BY <2>1, <3>2, <3>4, <3>5, <3>6 DEF ObjectsSoFar
      <3> QED BY <2>1, <3>2, <3>3, <3>4, <3>7
    <2>5. retain_declaration_origins(selUnit)' <=> retain_declaration_origins(selUnit) BY <2>1, SameUnit
    <2> QED BY <2>1, <2>2, <2>3, <2>4, <2>5 DEF SelectionInv, Settled, Blocked
  <1> QED BY <1>2, <1>3

\* For every set of units, the inductive invariant of a selection holds (selection::apply, objects::select).
THEOREM SelectionInvariant == SelectionSpec => []SelectionInv
  <1>1. SelectionInv /\ [SelectionNext]_selectionVars => SelectionInv'
    BY UnitRead, OccurrenceRead, OccurrencesEnd, ObjectsRead, Zenon DEF SelectionNext
  <1> QED BY <1>1, SelectionStarts, PTL DEF SelectionSpec

-----------------------------------------------------------------------------
(* A finished selection is the one the reference reads                         *)

LEMMA LeastExists ==
    ASSUME NEW S \in SUBSET Nat, S # {}
    PROVE  Least(S) \in S /\ \A j \in S : Least(S) <= j
  <1>1. PICK m \in S : \A e \in S : <<e, m>> \notin OpToRel(<, Nat)
    BY NatLessThanWellFounded, WFMin
  <1>2. \A e \in S : ~ (e < m) /\ e \in Nat /\ m \in Nat BY <1>1 DEF OpToRel
  <1>3. \A e \in S : m <= e BY <1>2
  <1> QED BY <1>3, Zenon DEF Least

\* The names and roots of the first chosen occurrences are those of the declarations.
LEMMA NamedByFirst ==
    ASSUME WellFormed(selUnit), DeclarationsSoFar(End)
    PROVE  /\ \A id : Of(id) = {i \in Chosen(End) : Entries[i].id = id}
           /\ {id \in Declared : Of(id) # {}} = {Entries[i].id : i \in Chosen(End)}
           /\ roots.declarations = {id \in Declared : Of(id) # {}}
           /\ named = [id \in roots.declarations |-> NameOf(id)]
           /\ \A id \in roots.declarations : named[id] = NameOf(id)
           /\ DOMAIN named = roots.declarations
  <1> DEFINE C == Chosen(End)
             wanted == {id \in Declared : Of(id) # {}}
  <1>1. DOMAIN Entries = 1 .. Len(Entries) /\ Len(Entries) \in Nat BY EntryParts
  <1>2. C = {i \in DOMAIN Entries : Entries[i].target = "declaration" /\ Wanted(i).yes} BY <1>1 DEF Chosen, End
  <1>3. C \in SUBSET Nat BY <1>1, <1>2
  <1>4. \A id : Of(id) = {i \in C : Entries[i].id = id}
    <2> SUFFICES ASSUME NEW id PROVE Of(id) = {i \in C : Entries[i].id = id}
      OBVIOUS
    <2> HIDE DEF C
    <2> QED BY <1>2 DEF Of
  <1>5. wanted = {Entries[i].id : i \in C}
    <2>1. ASSUME NEW id \in wanted PROVE id \in {Entries[i].id : i \in C}
      <3> HIDE DEF C
      <3> QED BY <1>4, <2>1
    <2>2. ASSUME NEW i \in C PROVE Entries[i].id \in wanted
      <3>1. Entries[i].id \in Declared
        <4> HIDE DEF C
        <4> QED BY <1>2, <2>2 DEF Declared
      <3>2. i \in Of(Entries[i].id) BY <1>4, <2>2
      <3> QED BY <3>1, <3>2
    <2> HIDE DEF C, wanted
    <2> QED BY <2>1, <2>2 DEF wanted
  <1>6. /\ roots.declarations = {Entries[i].id : i \in C}
        /\ named = [id \in roots.declarations |-> named[id]]
        /\ \A i \in C : \E f \in C :
              /\ Entries[f].id = Entries[i].id /\ named[Entries[i].id] = Wanted(f).name
              /\ \A j \in C : Entries[j].id = Entries[i].id => f <= j
    BY Zenon DEF DeclarationsSoFar
  <1> HIDE DEF C
  <1>7. ASSUME NEW id \in roots.declarations PROVE named[id] = NameOf(id)
    <2>1. PICK i \in C : id = Entries[i].id BY <1>6, <1>7
    <2>2. PICK f \in C : /\ Entries[f].id = id /\ named[id] = Wanted(f).name
                         /\ \A j \in C : Entries[j].id = id => f <= j
      BY <1>6, <2>1
    <2>3. Of(id) \in SUBSET Nat /\ f \in Of(id) /\ \A j \in Of(id) : f <= j BY <1>3, <1>4, <2>2
    <2>4. Least(Of(id)) = f BY <2>3, LeastIs
    <2> QED BY <2>2, <2>4 DEF NameOf
  <1>8. named = [id \in roots.declarations |-> NameOf(id)] BY <1>6, <1>7
  <1> HIDE DEF wanted
  <1>9. roots.declarations = wanted BY <1>5, <1>6
  <1>10. DOMAIN named = roots.declarations BY <1>8
  <1> QED BY <1>4, <1>5, <1>7, <1>8, <1>9, <1>10 DEF C, wanted

LEMMA SelectionRead ==
    ASSUME SelectionInv
    PROVE  SelectionExact
  <1> SUFFICES ASSUME selPhase = "done", retain_declaration_origins(selUnit)
               PROVE  SelectionExact
    BY Zenon DEF SelectionExact
  <1> DEFINE rootsWanted == {id \in Declared : Of(id) # {}}
             byMain(i) == Wanted(i).name = NameOf(Entries[i].id)
             objects == {Objects[k] : k \in DOMAIN Objects}
             usable == {o \in objects : Wanted(o).yes}
  <1>1. /\ WellFormed(selUnit) /\ DeclarationsSoFar(End) /\ ObjectsSoFar(selAt) /\ Blocked
        /\ selAt > Len(Objects) /\ selAt \in Nat
    BY DEF SelectionInv, SelectionTypes, Blocked
  <1>2. /\ \A id : Of(id) = {i \in Chosen(End) : Entries[i].id = id}
        /\ roots.declarations = rootsWanted
        /\ named = [id \in roots.declarations |-> NameOf(id)]
        /\ \A id \in roots.declarations : named[id] = NameOf(id)
        /\ DOMAIN named = roots.declarations
    BY <1>1, NamedByFirst
  <1>3. /\ Len(Entries) \in Nat /\ DOMAIN Entries = 1 .. Len(Entries)
        /\ Len(Objects) \in Nat /\ DOMAIN Objects = 1 .. Len(Objects)
        /\ \A o \in objects : /\ o \in DOMAIN Entries /\ o \in Nat /\ Entries[o].target = "declaration"
                              /\ Entries[o].kind = "variable"
    BY <1>1, EntryParts
  <1>4. Before(selAt) = objects BY <1>1, <1>3 DEF Before
  <1>5. /\ chosenSet = Chosen(End) /\ roots.declarations = {Entries[i].id : i \in Chosen(End)}
        /\ DOMAIN extra = {i \in Chosen(End) : Entries[i].kind = "variable" /\ Wanted(i).name # named[Entries[i].id]}
        /\ \A i \in DOMAIN extra : extra[i] = Wanted(i).name
    BY <1>1, Zenon DEF DeclarationsSoFar
  <1> HIDE DEF objects, rootsWanted
  <1>6. \A o \in objects : o \in usable <=> o \in Chosen(End) BY <1>3 DEF Chosen, End
  <1> HIDE DEF usable
  <1>7. \A o \in usable : o \in objects /\ o \in Nat /\ o \in Chosen(End) BY <1>3, <1>6 DEF usable
  <1>8. \A o \in usable : named[Entries[o].id] = NameOf(Entries[o].id) BY <1>2, <1>5, <1>7
  <1>9. ASSUME NEW o \in usable PROVE byMain(o) <=> o \notin DOMAIN extra
    BY <1>3, <1>5, <1>7, <1>8
  <1>10. Plain(selAt) = {o \in usable : byMain(o)}
    <2>1. Plain(selAt) = {o \in objects : o \in Chosen(End) /\ o \notin DOMAIN extra} BY <1>4, <1>5 DEF Plain
    <2> HIDE DEF byMain
    <2> QED BY <1>6, <1>7, <1>9, <2>1
  <1>11. /\ \A o \in objects : o \in DOMAIN extra =>
               extra[o] \in DOMAIN bindings /\ Entries[bindings[extra[o]]].id = Entries[o].id
         /\ DOMAIN bound = {Entries[o].name : o \in Plain(selAt)}
         /\ \A o \in Plain(selAt) : \E f \in Plain(selAt) :
               /\ Entries[f].name = Entries[o].name /\ bound[Entries[o].name] = f
               /\ \A j \in Plain(selAt) : Entries[j].name = Entries[o].name => f <= j
    BY <1>1, <1>4, Zenon DEF ObjectsSoFar
  <1>12. \A o \in usable : ~ byMain(o) => Wanted(o).name \in DOMAIN bindings /\ Entries[bindings[Wanted(o).name]].id = Entries[o].id
    <2> SUFFICES ASSUME NEW o \in usable, ~ byMain(o)
                 PROVE  Wanted(o).name \in DOMAIN bindings /\ Entries[bindings[Wanted(o).name]].id = Entries[o].id
      OBVIOUS
    <2>1. o \in DOMAIN extra /\ o \in objects BY <1>7, <1>9
    <2>2. extra[o] = Wanted(o).name BY <1>5, <2>1
    <2> HIDE DEF byMain
    <2> QED BY <1>11, <2>1, <2>2
  <1> HIDE DEF byMain
  <1>13. ASSUME NEW n \in DOMAIN bound PROVE bound[n] = Least({o \in usable : Entries[o].name = n /\ byMain(o)})
    <2> DEFINE S == {o \in usable : Entries[o].name = n /\ byMain(o)}
    <2>1. PICK o \in Plain(selAt) : n = Entries[o].name BY <1>11, <1>13
    <2>2. PICK f \in Plain(selAt) : /\ Entries[f].name = n /\ bound[n] = f
                                    /\ \A j \in Plain(selAt) : Entries[j].name = n => f <= j
      BY <1>11, <2>1
    <2>3. S \in SUBSET Nat /\ f \in S /\ \A j \in S : f <= j BY <1>7, <1>10, <2>2
    <2> HIDE DEF S
    <2>4. Least(S) = f BY <2>3, LeastIs
    <2> QED BY <2>2, <2>4 DEF S
  <1>14. \A o \in usable : byMain(o) => Entries[o].name \in DOMAIN bound BY <1>10, <1>11
  <1> DEFINE listed == {j \in Functions : (IF Of(Entries[j].id) = {} THEN Entries[j].name ELSE NameOf(Entries[j].id)) \in selUnit.blocklist}
  <1>15. ASSUME selUnit.callbacks > 0 PROVE blocked = {Entries[i].name : i \in listed}
    <2>1. ASSUME NEW j \in Functions
          PROVE  GeneratedName(Entries[j]) = IF Of(Entries[j].id) = {} THEN Entries[j].name ELSE NameOf(Entries[j].id)
      <3>1. Entries[j].id \in Declared BY <2>1 DEF Functions, Declared
      <3>2. Entries[j].id \in DOMAIN named <=> Of(Entries[j].id) # {} BY <1>2, <3>1 DEF rootsWanted
      <3> QED BY <1>2, <3>2 DEF GeneratedName
    <2>2. {j \in Functions : GeneratedName(Entries[j]) \in selUnit.blocklist} = listed BY <2>1
    <2>3. blocklist_functions = {Entries[i].name : i \in {j \in Functions : GeneratedName(Entries[j]) \in selUnit.blocklist}}
      BY Zenon DEF blocklist_functions, BlockedByGeneratedName
    <2>4. blocklist_functions = {Entries[i].name : i \in listed}
      <3> HIDE DEF listed
      <3> QED BY <2>2, <2>3
    <2>5. selUnit.blocklist = {} => listed = {} OBVIOUS
    <2> HIDE DEF listed
    <2>6. blocked = IF selUnit.blocklist = {} THEN {} ELSE blocklist_functions BY <1>1, <1>15 DEF Blocked
    <2> QED BY <2>4, <2>5, <2>6
  <1> HIDE DEF listed
  <1> QED BY <1>2, <1>12, <1>13, <1>14, <1>15, Zenon
      DEF SelectionExact, rootsWanted, byMain, objects, usable, listed

LEMMA TagRootsRead ==
    ASSUME SelectionInv
    PROVE  TagRootsExact
  <1> SUFFICES ASSUME selPhase = "done", retain_declaration_origins(selUnit), NEW t \in DOMAIN selUnit.tags
               PROVE  LET tag == selUnit.tags[t]
                          here == {i \in DOMAIN Entries : Entries[i].target = tag.kind /\ Entries[i].id = t}
                          writings == {i \in here : ~ Entries[i].reference}
                          home(i) == IF tag.discovery = "discovered" THEN tag.file ELSE Entries[i].file
                          inFile(i) == ~ is_restricted(Patterns) \/ home(i) \in Patterns.files \ {Builtin}
                          listed == tag.name \in Patterns.types \/ (tag.kind = "enum" /\ tag.variants \intersect Patterns.vars # {})
                      IN (t \in roots[FieldOf(tag.kind)]) =
                            /\ tag.discovery # "hidden" /\ writings # {}
                            /\ \/ listed
                               \/ inFile(Least(writings))
                               \/ \E i \in here : Entries[i].definition /\ inFile(i)
    BY Zenon DEF TagRootsExact
  <1> DEFINE tag == selUnit.tags[t]
             here == {i \in DOMAIN Entries : Entries[i].target = tag.kind /\ Entries[i].id = t}
             writings == {i \in here : ~ Entries[i].reference}
             home(i) == IF tag.discovery = "discovered" THEN tag.file ELSE Entries[i].file
             inFile(i) == ~ is_restricted(Patterns) \/ home(i) \in Patterns.files \ {Builtin}
             listed == tag.name \in Patterns.types \/ (tag.kind = "enum" /\ tag.variants \intersect Patterns.vars # {})
  <1>1. WellFormed(selUnit) /\ TagsSettled(End) BY DEF SelectionInv, SelectionTypes
  <1>2. Len(Entries) \in Nat /\ DOMAIN Entries = 1 .. Len(Entries) BY <1>1, EntryParts
  <1>3. Mentions(t, End) = here BY <1>2 DEF Mentions, End
  <1>4. Writings(t, End) = writings BY <1>3 DEF Writings
  <1>5. Listed(t) <=> listed BY DEF Listed
  <1>6. ASSUME NEW i \in here PROVE matches_file(TagFile(Entries[i])) <=> inFile(i)
    BY <1>6 DEF matches_file, TagFile
  <1>7. here \in SUBSET Nat /\ writings \in SUBSET here BY <1>2
  <1>8. IsRoot(t) <=> Wants(t, End) /\ Writings(t, End) # {} BY <1>1, Zenon DEF TagsSettled
  <1>9. IsRoot(t) <=> t \in roots[FieldOf(tag.kind)] BY DEF IsRoot
  <1>10. Visible(selUnit, t) <=> tag.discovery # "hidden" BY DEF Visible
  <1> HIDE DEF inFile, here, listed
  <1>11. Wants(t, End) <=> Visible(selUnit, t) /\ (listed \/ \E i \in here : ChosenAt(t, End, i))
    BY <1>3, <1>5 DEF Wants
  <1> HIDE DEF writings
  <1>12. ASSUME NEW i \in here
         PROVE  ChosenAt(t, End, i) <=>
                   inFile(i) /\ (Entries[i].definition \/ (i \in writings /\ \A j \in writings : i <= j))
    BY <1>4, <1>6 DEF ChosenAt
  <1>13. ASSUME writings # {}
         PROVE  (\E i \in here : ChosenAt(t, End, i)) <=>
                   inFile(Least(writings)) \/ \E i \in here : Entries[i].definition /\ inFile(i)
    <2>1. Least(writings) \in writings /\ \A j \in writings : Least(writings) <= j BY <1>7, <1>13, LeastExists
    <2>2. \A i \in writings : (\A j \in writings : i <= j) => Least(writings) = i BY <1>7, LeastIs
    <2> QED BY <1>7, <1>12, <2>1, <2>2
  <1> DEFINE chosen == /\ tag.discovery # "hidden" /\ writings # {}
                       /\ \/ listed
                          \/ inFile(Least(writings))
                          \/ \E i \in here : Entries[i].definition /\ inFile(i)
  <1>14. IsRoot(t) <=> chosen BY <1>4, <1>8, <1>10, <1>11, <1>13
  <1>15. (t \in roots[FieldOf(tag.kind)]) = chosen
    <2>1. chosen \in BOOLEAN OBVIOUS
    <2> HIDE DEF chosen
    <2> QED BY <1>9, <1>14, <2>1
  <1> QED BY <1>15, Zenon DEF here, writings, inFile, listed, chosen

\* For every set of units whose occurrences and objects are in source order, a finished selection is the one the
\* reference reads in the whole header: roots, names, further names, bound objects, blocked functions and tags.
THEOREM SelectedHolds == SelectionSpec => []SelectedExact
  <1>1. SelectionInv => SelectedExact BY SelectionRead, TagRootsRead, Zenon DEF SelectedExact
  <1> QED BY <1>1, SelectionInvariant, PTL

=============================================================================
