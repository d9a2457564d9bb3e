------------------------- MODULE FunctionBodyProofs -------------------------
(***************************************************************************)
(* Proofs about FunctionBody, for every set of jobs and every width of the *)
(* type of a switch.                                                       *)
(***************************************************************************)
EXTENDS FunctionBody, SequenceTheorems, WellFoundedInduction, TLAPS

-----------------------------------------------------------------------------
(* The inductive invariant                                                 *)

Numbers == Nat \cup {None}

\* m is the greatest number of S, or None if there is none.
Summit(m, S) == IF S = {} THEN m = None ELSE m \in S /\ \A x \in S : x <= m

\* Scopes a frame has opened and not closed yet.
Controls == {"if", "else", "while", "for", "do", "switch"}
Width(f) ==
    IF f.kind \in {"body", "compound", "statement_expression"} THEN 1
    ELSE IF f.kind \in Controls
         THEN IF f.pc \in {"statement", "after"} THEN 2 * ControlScopes ELSE ControlScopes
         ELSE 0

\* A switch whose body is being checked.
OpenSwitch(f) == f.kind = "switch" /\ f.pc \in {"statement", "after"}

Kinds == {"body", "compound", "label", "expression", "vm", "object", "typedef", "statement_expression",
          "if", "else", "while", "for", "do", "switch"}
Places == {"items", "statement", "after", "operand", "initializer", "init"}
FrameSet == [kind : Kinds, pc : Places, base : Nat, expects : {"any", "quiet", "other"},
             held : Seq(Nat), previous : Numbers, expression : Numbers]

FramesShaped ==
    /\ frames \in Seq(FrameSet) /\ Len(frames) > 0
    /\ \A i \in DOMAIN frames : frames[i].kind = "body" <=> i = 1
    /\ \A i \in DOMAIN frames : frames[i].held # <<>> => frames[i].kind \in {"statement_expression", "else"}

\* Every scope belongs to the frame that opened it.
ScopesFramed ==
    /\ Len(scopes) = Top.base + Width(Top)
    /\ frames[1].base = 0
    /\ \A i \in 1 .. Len(frames) - 1 : frames[i + 1].base = frames[i].base + Width(frames[i])
    /\ \A i, j \in DOMAIN frames : i < j => frames[i].base + Width(frames[i]) <= frames[j].base

ScopeSet == [variably_modified : Numbers, live : SUBSET Nat]

\* Numbers of VM identifiers grow from scope to scope, and every scope keeps its last.
ScopesNumbered ==
    /\ scopes \in Seq(ScopeSet) /\ vm_parents \in Seq(Numbers)
    /\ \A i \in DOMAIN scopes :
          /\ Summit(scopes[i].variably_modified, scopes[i].live)
          /\ scopes[i].live \subseteq 1 .. Len(vm_parents)
    /\ \A i, j \in DOMAIN scopes :
          i < j => \A x \in scopes[i].live, y \in scopes[j].live : x < y

\* The same for statement expressions, each of which remembers the one around it.
InsideOf(n) == {frames[i].expression : i \in 1 .. n} \ {None}
ExpressionsNumbered ==
    /\ expression_parents \in Seq(Numbers)
    /\ \A i \in DOMAIN frames :
          /\ frames[i].expression # None => frames[i].expression \in 1 .. Len(expression_parents)
          /\ frames[i].kind = "statement_expression" => Summit(frames[i].previous, InsideOf(i - 1))
          /\ frames[i].expression # None <=> frames[i].kind = "statement_expression"
    /\ \A i, j \in DOMAIN frames :
          i < j /\ frames[i].expression # None /\ frames[j].expression # None
             => frames[i].expression < frames[j].expression
    /\ Summit(active_expression, Inside)

\* Ranges are apart, and cover the values between their ends.
Origin(signed) == IF signed THEN SignBit ELSE 0
RangeSet == [low : Nat, high : Nat, covered : SUBSET Int]
CoversItself(r, signed) ==
    /\ r.low <= r.high /\ r.high < 2 * SignBit
    /\ r.covered = {x \in TypeValues(signed) : r.low <= x + Origin(signed) /\ x + Origin(signed) <= r.high}
RangesApart(ranges, signed) ==
    /\ ranges \subseteq RangeSet
    /\ \A r \in ranges : CoversItself(r, signed)
    /\ \A r, q \in ranges : r # q => r.high < q.low \/ q.high < r.low

SwitchSet == [offset : Nat, signed : BOOLEAN, ranges : SUBSET RangeSet, has_default : BOOLEAN,
              variably_modified : Numbers, statement_expression : Numbers,
              live : SUBSET Nat, inside : SUBSET Nat]

\* A switch recorded by the frame k: what was in scope then still is, and what
\* came later has larger numbers.
LiveOf(n) == UNION {scopes[i].live : i \in 1 .. n}
Recorded(s, k) ==
    /\ Summit(s.variably_modified, s.live)
    /\ s.live \subseteq LiveOf(frames[k].base + ControlScopes)
    /\ \A x \in Live \ s.live, y \in s.live : y < x
    /\ Summit(s.statement_expression, s.inside)
    /\ s.inside = InsideOf(k - 1)

SwitchesTyped ==
    /\ switches \in Seq(SwitchSet) /\ switch_count \in Nat
    /\ \A m \in DOMAIN switches : RangesApart(switches[m].ranges, switches[m].signed)

\* `at' names the frame of every switch.
SwitchesFramed(at) ==
    /\ \A m \in DOMAIN switches : OpenSwitch(frames[at[m]]) /\ Recorded(switches[m], at[m])
    /\ \A m, n \in DOMAIN switches : m < n => at[m] < at[n]
    /\ \A i \in DOMAIN frames : OpenSwitch(frames[i]) => \E m \in DOMAIN switches : at[m] = i

\* Annotations wait for the innermost switch, those put aside by a frame for the
\* switch that was innermost there.
AnnotationsPlaced(at) ==
    /\ fallthrough \in Seq(Nat)
    /\ \A e \in RangeOf(fallthrough) : switches # <<>> /\ e = Innermost.offset
    /\ \A i \in DOMAIN frames : \A e \in RangeOf(frames[i].held) :
          \E m \in DOMAIN switches :
             /\ at[m] < i /\ \A n \in DOMAIN switches : m < n => i < at[n]
             /\ e = switches[m].offset

\* No annotation waits where the operand of a switch is checked.
OperandsClear ==
    \A i \in DOMAIN frames :
       frames[i].kind = "switch" /\ frames[i].pc = "operand" =>
          IF i = Len(frames) THEN fallthrough = <<>>
          ELSE frames[i + 1].kind = "statement_expression" /\ frames[i + 1].held = <<>>

BodyInv ==
    /\ job \in Jobs
    /\ FramesShaped /\ ScopesFramed /\ ScopesNumbered /\ ExpressionsNumbered
    /\ SwitchesTyped /\ OperandsClear
    /\ \E at \in [DOMAIN switches -> DOMAIN frames] : SwitchesFramed(at) /\ AnnotationsPlaced(at)

-----------------------------------------------------------------------------
(* Parts of the state                                                      *)

LEMMA JobParts ==
    ASSUME job \in Jobs
    PROVE  /\ job.cases \subseteq Int \X Int /\ job.c90 \in BOOLEAN
           /\ ControlScopes \in {0, 1} /\ None \notin Nat
  BY BodyAssumption DEF ControlScopes

LEMMA WidthIsNat ==
    ASSUME job \in Jobs, NEW f
    PROVE  Width(f) \in Nat
  BY JobParts DEF Width

LEMMA FrameParts ==
    ASSUME FramesShaped, NEW i \in DOMAIN frames
    PROVE  /\ DOMAIN frames = 1 .. Len(frames) /\ Len(frames) \in Nat
           /\ frames[i] \in FrameSet
           /\ frames[i].base \in Nat /\ frames[i].held \in Seq(Nat)
           /\ frames[i].previous \in Numbers /\ frames[i].expression \in Numbers
  <1>1. frames \in Seq(FrameSet) BY DEF FramesShaped
  <1>2. frames[i] \in FrameSet BY <1>1, ElementOfSeq, LenProperties
  <1>3. DOMAIN frames = 1 .. Len(frames) /\ Len(frames) \in Nat BY <1>1, LenProperties
  <1> QED BY <1>2, <1>3 DEF FrameSet

LEMMA TopParts ==
    ASSUME FramesShaped
    PROVE  /\ Len(frames) \in Nat \ {0} /\ DOMAIN frames = 1 .. Len(frames)
           /\ frames \in Seq(FrameSet)
           /\ Len(frames) \in DOMAIN frames
           /\ Top \in FrameSet /\ Top.base \in Nat /\ Top.held \in Seq(Nat)
           /\ Top.previous \in Numbers /\ Top.expression \in Numbers
  <1>1. Len(frames) \in Nat \ {0} /\ DOMAIN frames = 1 .. Len(frames)
    BY LenProperties DEF FramesShaped
  <1>2. Len(frames) \in DOMAIN frames BY <1>1
  <1> QED BY <1>1, <1>2, FrameParts DEF Top, FramesShaped

-----------------------------------------------------------------------------
(* How frames move                                                         *)

\* The frame f, whose statement may have been taken.
Alike(f, g) ==
    /\ g.kind = f.kind /\ g.base = f.base /\ g.held = f.held
    /\ g.previous = f.previous /\ g.expression = f.expression
    /\ (g.pc = f.pc \/ (f.pc = "statement" /\ g.pc = "after"))

\* Scopes up to the frame n.
End(n) == frames[n].base + Width(frames[n])

HoldsNothing(f) == f.held # <<>> => f.kind \in {"statement_expression", "else"}

\* The first n frames stay, the next one, if there was one, is left or becomes
\* another, and the scopes are those of the frames.
Moves(n) ==
    /\ job' = job
    /\ n \in 1 .. Len(frames) /\ Len(frames) \in {n, n + 1}
    /\ frames' \in Seq(FrameSet) /\ Len(frames') \in {n, n + 1}
    /\ \A i \in 1 .. n : Alike(frames[i], frames'[i])
    /\ IF Len(frames') = n THEN Len(scopes') = End(n)
       ELSE /\ frames'[n + 1].kind # "body" /\ HoldsNothing(frames'[n + 1])
            /\ frames'[n + 1].base = End(n)
            /\ Len(scopes') = End(n) + Width(frames'[n + 1])

LEMMA AlikeFrames ==
    ASSUME job' = job, NEW f, NEW g, Alike(f, g)
    PROVE  /\ Width(g) = Width(f) /\ OpenSwitch(g) = OpenSwitch(f)
           /\ g.pc = "operand" <=> f.pc = "operand"
  BY Zenon DEF Alike, Width, OpenSwitch

\* Frames further out end earlier.
LEMMA EndsGrow ==
    ASSUME job \in Jobs, FramesShaped, ScopesFramed, NEW i \in DOMAIN frames, NEW j \in DOMAIN frames, i <= j
    PROVE  /\ End(i) \in Nat /\ End(i) <= End(j) /\ End(j) <= Len(scopes)
           /\ i < j => End(i) <= frames[j].base
  <1>1. /\ frames[i].base \in Nat /\ frames[j].base \in Nat /\ DOMAIN frames = 1 .. Len(frames)
        /\ Len(frames) \in Nat /\ frames[Len(frames)].base \in Nat
    BY FrameParts, TopParts DEF Top
  <1>2. Width(frames[i]) \in Nat /\ Width(frames[j]) \in Nat /\ Width(frames[Len(frames)]) \in Nat
    BY WidthIsNat
  <1>3. i < j => End(i) <= frames[j].base BY DEF ScopesFramed, End
  <1>4. j < Len(frames) => End(j) <= frames[Len(frames)].base
    BY <1>1, TopParts DEF ScopesFramed, End
  <1>5. Len(scopes) = frames[Len(frames)].base + Width(frames[Len(frames)])
    BY DEF ScopesFramed, Top
  <1>6. /\ End(i) \in Nat /\ End(i) = frames[i].base + Width(frames[i])
        /\ End(j) \in Nat /\ End(j) = frames[j].base + Width(frames[j])
    <2>1. \A a, b \in Nat : a + b \in Nat OBVIOUS
    <2> QED BY <1>1, <1>2, <2>1, Zenon DEF End
  <1>7. i \in 1 .. Len(frames) /\ j \in 1 .. Len(frames) BY <1>1
  <1>8. End(i) <= End(j)
    <2>1. CASE i < j BY ONLY <2>1, <1>1, <1>2, <1>3, <1>6, SMTT(60)
    <2>2. CASE i = j BY ONLY <2>2, <1>6
    <2> QED BY ONLY <2>1, <2>2, <1>7, <1>1, i <= j
  <1>9. End(j) <= Len(scopes)
    <2>1. CASE j < Len(frames) BY ONLY <2>1, <1>1, <1>2, <1>4, <1>5, <1>6, SMTT(60)
    <2>2. CASE j = Len(frames) BY ONLY <2>2, <1>5, <1>6
    <2> QED BY ONLY <2>1, <2>2, <1>7, <1>1
  <1> QED BY <1>3, <1>6, <1>8, <1>9, Zenon

LEMMA MovesFramed ==
    ASSUME job \in Jobs, FramesShaped, ScopesFramed, NEW n, Moves(n)
    PROVE  FramesShaped' /\ ScopesFramed'
  <1>1. /\ n \in Nat \ {0} /\ Len(frames) \in Nat /\ n \in DOMAIN frames
        /\ DOMAIN frames = 1 .. Len(frames)
    <2>1. n \in 1 .. Len(frames) BY DEF Moves
    <2> QED BY <2>1, TopParts
  <1>2. /\ frames' \in Seq(FrameSet) /\ Len(frames') \in Nat /\ DOMAIN frames' = 1 .. Len(frames')
        /\ Len(frames') \in {n, n + 1}
    BY LenProperties DEF Moves
  <1>3. ASSUME NEW i \in 1 .. n
        PROVE  /\ i \in DOMAIN frames /\ frames'[i].kind = frames[i].kind /\ frames'[i].held = frames[i].held
               /\ frames'[i].base = frames[i].base /\ Width(frames'[i]) = Width(frames[i])
               /\ frames[i].base \in Nat /\ Width(frames[i]) \in Nat
    <2>1. Alike(frames[i], frames'[i]) /\ job' = job BY DEF Moves
    <2>2. i \in DOMAIN frames BY <1>1
    <2> QED BY <2>1, <2>2, AlikeFrames, FrameParts, WidthIsNat DEF Alike
  <1>6. ControlScopes' = ControlScopes BY DEF Moves, ControlScopes
  <1>4. CASE Len(frames') = n + 1
    <2>1. /\ frames'[n + 1].kind # "body" /\ HoldsNothing(frames'[n + 1])
          /\ frames'[n + 1].base = End(n)
          /\ Len(scopes') = frames'[n + 1].base + Width(frames'[n + 1])
      <3>1. Len(frames') # n BY <1>1, <1>4
      <3> QED BY <3>1 DEF Moves
    <2>2. FramesShaped'
      <3>1. ASSUME NEW i \in DOMAIN frames'
            PROVE  /\ frames'[i].kind = "body" <=> i = 1
                   /\ frames'[i].held # <<>> => frames'[i].kind \in {"statement_expression", "else"}
        <4>1. CASE i = n + 1 BY <4>1, <2>1, <1>1 DEF HoldsNothing
        <4>2. CASE i # n + 1
          <5>1. i \in 1 .. n BY <1>1, <1>2, <1>4, <4>2
          <5> QED BY <5>1, <1>3 DEF FramesShaped
        <4> QED BY <4>1, <4>2
      <3> QED BY <3>1, <1>1, <1>2, <1>4 DEF FramesShaped
    <2>3. ScopesFramed'
      <3>1. Len(scopes') = Top'.base + Width(Top)' BY <2>1, <1>4, <1>6 DEF Top, Width
      <3>2. frames'[1].base = 0 BY <1>1, <1>3 DEF ScopesFramed
      <3>3. ASSUME NEW i \in DOMAIN frames', NEW j \in DOMAIN frames', i < j
            PROVE  frames'[i].base + Width(frames'[i]) <= frames'[j].base
        <4>1. i \in 1 .. n BY <1>1, <1>2, <1>4, <3>3
        <4>2. CASE j = n + 1
          <5>1. End(i) <= End(n) BY <1>1, <1>3, <4>1, EndsGrow
          <5> QED BY <4>1, <4>2, <5>1, <2>1, <1>3 DEF End
        <4>3. CASE j # n + 1
          <5>1. j \in 1 .. n BY <1>1, <1>2, <1>4, <4>3
          <5> QED BY <3>3, <4>1, <5>1, <1>3 DEF ScopesFramed
        <4> QED BY <4>2, <4>3
      <3>4. ASSUME NEW i \in 1 .. Len(frames') - 1
            PROVE  frames'[i + 1].base = frames'[i].base + Width(frames'[i])
        <4>1. i \in 1 .. n BY <1>1, <1>2, <1>4
        <4>2. CASE i = n BY <4>2, <2>1, <1>1, <1>3 DEF End
        <4>3. CASE i # n
          <5>1. i + 1 \in 1 .. n /\ i \in 1 .. Len(frames) - 1 BY <1>1, <1>3, <4>1, <4>3
          <5> QED BY <4>1, <5>1, <1>3 DEF ScopesFramed
        <4> QED BY <4>2, <4>3
      <3> QED BY <3>1, <3>2, <3>3, <3>4, <1>6 DEF ScopesFramed, Width
    <2> QED BY <2>2, <2>3
  <1>5. CASE Len(frames') = n
    <2>1. FramesShaped'
      <3>1. ASSUME NEW i \in DOMAIN frames'
            PROVE  /\ frames'[i].kind = "body" <=> i = 1
                   /\ frames'[i].held # <<>> => frames'[i].kind \in {"statement_expression", "else"}
        <4>1. i \in 1 .. n BY <1>2, <1>5
        <4> QED BY <4>1, <1>3 DEF FramesShaped
      <3> QED BY <3>1, <1>1, <1>2, <1>5 DEF FramesShaped
    <2>2. Len(scopes') = Top'.base + Width(Top)'
      <3>1. Len(scopes') = End(n) BY <1>5 DEF Moves
      <3>2. n \in 1 .. n BY <1>1
      <3>3. Top' = frames'[n] BY <1>5 DEF Top
      <3>4. Width(Top)' = Width(frames'[n]) BY <3>3, <1>6 DEF Width
      <3> QED BY <3>1, <3>2, <3>3, <3>4, <1>3 DEF End
    <2>3. frames'[1].base = 0 BY <1>1, <1>3 DEF ScopesFramed
    <2>4. ASSUME NEW i \in DOMAIN frames', NEW j \in DOMAIN frames', i < j
          PROVE  frames'[i].base + Width(frames'[i]) <= frames'[j].base
      BY <2>4, <1>2, <1>3, <1>5 DEF ScopesFramed
    <2>5. ASSUME NEW i \in 1 .. Len(frames') - 1
          PROVE  frames'[i + 1].base = frames'[i].base + Width(frames'[i])
      <3>1. i \in 1 .. n /\ i + 1 \in 1 .. n /\ i \in 1 .. Len(frames) - 1 BY <1>1, <1>3, <1>5
      <3> QED BY <3>1, <1>3 DEF ScopesFramed
    <2> QED BY <2>1, <2>2, <2>3, <2>4, <2>5, <1>6 DEF ScopesFramed, Width
  <1> QED BY <1>2, <1>4, <1>5

-----------------------------------------------------------------------------
(* How scopes move                                                         *)

\* The first p scopes stay, those behind them are new.
Closes(p) ==
    /\ p \in 0 .. Len(scopes) /\ scopes' \in Seq(ScopeSet) /\ p <= Len(scopes')
    /\ \A i \in 1 .. p : scopes'[i] = scopes[i]
    /\ \A i \in p + 1 .. Len(scopes') : scopes'[i] = EmptyScope
    /\ vm_parents' = vm_parents

\* What is live in the first p scopes stays, what comes has greater numbers.
LiveMoves(p) ==
    /\ \A j \in 0 .. p : LiveOf(j) \subseteq LiveOf(j)'
    /\ \A x \in Live' \ Live, y \in Live : y < x

LEMMA ScopeParts ==
    ASSUME ScopesNumbered
    PROVE  /\ Len(scopes) \in Nat /\ DOMAIN scopes = 1 .. Len(scopes) /\ Len(vm_parents) \in Nat
           /\ \A i \in 1 .. Len(scopes) :
                 /\ scopes[i] \in ScopeSet /\ scopes[i].live \subseteq Nat
                 /\ scopes[i].variably_modified \in Numbers
                 /\ Summit(scopes[i].variably_modified, scopes[i].live)
                 /\ scopes[i].live \subseteq 1 .. Len(vm_parents)
                 /\ scopes[i].live \subseteq Live
           /\ Live \subseteq 1 .. Len(vm_parents)
           /\ Live = LiveOf(Len(scopes))
  <1>1. /\ Len(scopes) \in Nat /\ DOMAIN scopes = 1 .. Len(scopes) /\ Len(vm_parents) \in Nat
    BY LenProperties DEF ScopesNumbered
  <1>2. ASSUME NEW i \in 1 .. Len(scopes)
        PROVE  /\ scopes[i] \in ScopeSet /\ scopes[i].live \subseteq Nat
               /\ scopes[i].variably_modified \in Numbers
    <2>1. scopes[i] \in ScopeSet BY <1>1, ElementOfSeq DEF ScopesNumbered
    <2> QED BY <2>1 DEF ScopeSet
  <1> QED BY <1>1, <1>2 DEF ScopesNumbered, Live, LiveOf

LEMMA EmptyScopeParts ==
    /\ EmptyScope \in ScopeSet /\ EmptyScope.live = {} /\ EmptyScope.variably_modified = None
    /\ Summit(EmptyScope.variably_modified, EmptyScope.live)
  BY DEF EmptyScope, ScopeSet, Numbers, Summit

LEMMA ClosesNumbered ==
    ASSUME ScopesNumbered, NEW p, Closes(p)
    PROVE  ScopesNumbered' /\ LiveMoves(p)
  <1>1. /\ p \in Nat /\ p <= Len(scopes) /\ p <= Len(scopes') /\ Len(scopes') \in Nat
        /\ DOMAIN scopes' = 1 .. Len(scopes')
    BY ScopeParts, LenProperties DEF Closes
  <1>2. ASSUME NEW i \in 1 .. p
        PROVE  scopes'[i] = scopes[i] /\ i \in 1 .. Len(scopes) /\ i \in DOMAIN scopes
    BY <1>1, ScopeParts DEF Closes
  <1>3. ASSUME NEW i \in 1 .. Len(scopes'), i \notin 1 .. p
        PROVE  scopes'[i] = EmptyScope
    BY <1>1, <1>3 DEF Closes
  <1>4. ASSUME NEW i \in DOMAIN scopes'
        PROVE  /\ Summit(scopes'[i].variably_modified, scopes'[i].live)
               /\ scopes'[i].live \subseteq 1 .. Len(vm_parents')
               /\ scopes'[i].live \subseteq Live
    <2>1. CASE i \in 1 .. p BY <2>1, <1>2, ScopeParts DEF Closes
    <2>2. CASE i \notin 1 .. p BY <2>2, <1>1, <1>3, EmptyScopeParts
    <2> QED BY <2>1, <2>2
  <1>5. ASSUME NEW i \in DOMAIN scopes', NEW j \in DOMAIN scopes', i < j,
               NEW x \in scopes'[i].live, NEW y \in scopes'[j].live
        PROVE  x < y
    <2>1. i \in 1 .. p /\ j \in 1 .. p BY <1>1, <1>3, <1>5, EmptyScopeParts
    <2> QED BY <2>1, <1>2, <1>5 DEF ScopesNumbered
  <1>6. ScopesNumbered' BY <1>4, <1>5 DEF ScopesNumbered, Closes
  <1>7. ASSUME NEW j \in 0 .. p PROVE LiveOf(j) \subseteq LiveOf(j)'
    <2>1. \A i \in 1 .. j : scopes'[i] = scopes[i] BY <1>1, <1>2
    <2> QED BY <2>1 DEF LiveOf
  <1>8. Live' \subseteq Live BY <1>4 DEF Live
  <1> QED BY <1>6, <1>7, <1>8 DEF LiveMoves

\* declare_variably_modified.
LEMMA DeclaresNumbered ==
    ASSUME ScopesNumbered, Len(scopes) > 0, declare_variably_modified,
           active_variably_modified \in Numbers
    PROVE  ScopesNumbered' /\ LiveMoves(Len(scopes)) /\ Len(scopes') = Len(scopes)
  <1> DEFINE id == Len(vm_parents) + 1
             n == Len(scopes)
  <1>1. id \in Nat /\ n \in Nat \ {0} /\ n \in DOMAIN scopes /\ DOMAIN scopes = 1 .. n
    BY ScopeParts
  <1>2. /\ vm_parents' = Append(vm_parents, active_variably_modified)
        /\ scopes' = [scopes EXCEPT ![n] = Holding(scopes[n], id)]
    BY DEF declare_variably_modified
  <1>3. vm_parents' \in Seq(Numbers) /\ Len(vm_parents') = id
    BY <1>2, AppendProperties DEF ScopesNumbered
  <1>4. scopes[n] \in ScopeSet /\ scopes[n].live \subseteq 1 .. Len(vm_parents)
    BY <1>1, ScopeParts
  <1> DEFINE new == Holding(scopes[n], id)
  <1>5. /\ new \in ScopeSet /\ new.variably_modified = id /\ new.live = scopes[n].live \cup {id}
    BY <1>1, <1>4 DEF ScopeSet, Numbers, Holding
  <1>6. scopes' = [scopes EXCEPT ![n] = new] BY <1>2
  <1> HIDE DEF id, new
  <1>7. scopes' \in Seq(ScopeSet) /\ Len(scopes') = n /\ DOMAIN scopes' = 1 .. n
    <2>1. PICK t : t = [scopes EXCEPT ![n] = new] OBVIOUS
    <2>2. scopes \in Seq(ScopeSet) /\ n \in 1 .. Len(scopes) /\ Len(scopes) = n
      BY <1>1 DEF ScopesNumbered
    <2>3. t \in Seq(ScopeSet) /\ Len(t) = Len(scopes) BY <2>1, <2>2, <1>5, ExceptSeq
    <2>4. DOMAIN t = 1 .. n BY <2>2, <2>3, LenProperties
    <2> QED BY <2>1, <2>2, <2>3, <2>4, <1>6, Zenon
  <1>8. /\ scopes'[n] = new
        /\ \A i \in 1 .. n : i # n => scopes'[i] = scopes[i]
    BY <1>1, <1>6
  <1>9. \A i \in 1 .. n : scopes[i].live \subseteq scopes'[i].live /\ scopes'[i].live \subseteq scopes[i].live \cup {id}
    BY <1>5, <1>8
  <1>10. \A x \in Live : x \in Nat /\ x < id BY <1>1, ScopeParts DEF id
  <1>11. \A i \in 1 .. n : scopes[i].live \subseteq Live BY ScopeParts
  <1>12. ASSUME NEW i \in DOMAIN scopes'
         PROVE  /\ Summit(scopes'[i].variably_modified, scopes'[i].live)
                /\ scopes'[i].live \subseteq 1 .. Len(vm_parents')
    <2>1. CASE i = n
      <3>1. \A x \in new.live : x \in Nat /\ x <= id BY <1>1, <1>5, <1>10, <1>11
      <3>2. Summit(new.variably_modified, new.live) BY <3>1, <1>5 DEF Summit
      <3>3. new.live \subseteq 1 .. id
        <4>1. Len(vm_parents) \in Nat BY ScopeParts
        <4> QED BY <4>1, <1>4, <1>5 DEF id
      <3> QED BY <2>1, <3>2, <3>3, <1>3, <1>8
    <2>2. CASE i # n
      <3>1. i \in 1 .. n /\ scopes'[i] = scopes[i] BY <2>2, <1>7, <1>8
      <3>2. scopes[i].live \subseteq 1 .. Len(vm_parents) /\ Len(vm_parents) \in Nat BY <3>1, ScopeParts
      <3>3. 1 .. Len(vm_parents) \subseteq 1 .. id BY <3>2 DEF id
      <3>4. Summit(scopes[i].variably_modified, scopes[i].live) BY <3>1, ScopeParts
      <3>5. Len(vm_parents') = id BY <1>3
      <3>6. scopes[i].live \subseteq 1 .. Len(vm_parents') BY <3>2, <3>3, <3>5
      <3> QED BY <3>1, <3>4, <3>6, Zenon
    <2> QED BY <2>1, <2>2
  <1>13. ASSUME NEW i \in DOMAIN scopes', NEW j \in DOMAIN scopes', i < j,
                NEW x \in scopes'[i].live, NEW y \in scopes'[j].live
         PROVE  x < y
    <2>1. i \in 1 .. n /\ j \in 1 .. n /\ i # n BY <1>1, <1>7, <1>13
    <2>2. x \in scopes[i].live BY <2>1, <1>8
    <2>3. CASE y \in scopes[j].live BY <2>1, <2>2, <2>3, <1>1, <1>13 DEF ScopesNumbered
    <2>4. CASE y = id BY <2>1, <2>2, <2>4, <1>10, <1>11
    <2> QED BY <2>1, <2>3, <2>4, <1>9
  <1>14. ScopesNumbered' BY <1>3, <1>7, <1>12, <1>13 DEF ScopesNumbered
  <1>15. ASSUME NEW j \in 0 .. n PROVE LiveOf(j) \subseteq LiveOf(j)'
    <2>1. \A i \in 1 .. j : i \in 1 .. n BY <1>1
    <2> QED BY <2>1, <1>9 DEF LiveOf
  <1>16. Live' \subseteq Live \cup {id} BY <1>1, <1>7, <1>9, <1>11 DEF Live
  <1>17. \A x \in Live' \ Live, y \in Live : y < x BY <1>10, <1>16
  <1> QED BY <1>7, <1>14, <1>15, <1>17 DEF LiveMoves

-----------------------------------------------------------------------------
(* The innermost VM identifier                                             *)

LEMMA GreatestExists ==
    ASSUME NEW n \in Nat, NEW S \in SUBSET (0 .. n), S # {}
    PROVE  \E m \in S : \A k \in S : k <= m
  <1> DEFINE T == {n - k : k \in S}
  <1>1. T \in SUBSET Nat /\ T # {}
    <2>1. \A k \in S : n - k \in Nat OBVIOUS
    <2>2. PICK k \in S : TRUE OBVIOUS
    <2> QED BY <2>1, <2>2
  <1>2. PICK d \in T : \A e \in T : <<e, d>> \notin OpToRel(<, Nat)
    BY <1>1, NatLessThanWellFounded, WFMin
  <1>3. PICK m \in S : d = n - m BY <1>2
  <1>4. ASSUME NEW k \in S PROVE k <= m
    <2>1. n - k \in T /\ n - k \in Nat /\ d \in Nat BY <1>1, <1>2
    <2>2. ~(n - k < d) BY <1>2, <2>1 DEF OpToRel
    <2>3. k \in Nat /\ m \in Nat OBVIOUS
    <2> QED BY ONLY <2>2, <2>3, <1>3, n \in Nat
  <1> QED BY <1>4

LEMMA SummitParts ==
    ASSUME NEW m, NEW S \in SUBSET Nat, Summit(m, S)
    PROVE  m \in Numbers /\ (m = None <=> S = {}) /\ (m # None => m \in S /\ \A x \in S : x <= m)
  BY BodyAssumption DEF Summit, Numbers

LEMMA ActiveIsSummit ==
    ASSUME ScopesNumbered
    PROVE  Summit(active_variably_modified, Live) /\ active_variably_modified \in Numbers
  <1>1. /\ Len(scopes) \in Nat /\ DOMAIN scopes = 1 .. Len(scopes) BY ScopeParts
  <1>2. ASSUME NEW i \in DOMAIN scopes
        PROVE  /\ i \in Holders <=> scopes[i].live # {}
               /\ scopes[i].live \in SUBSET Nat
               /\ i \in Holders => /\ scopes[i].variably_modified \in scopes[i].live
                                   /\ \A x \in scopes[i].live : x <= scopes[i].variably_modified
    <2>1. scopes[i].live \in SUBSET Nat /\ Summit(scopes[i].variably_modified, scopes[i].live)
      BY <1>1, ScopeParts
    <2> QED BY <2>1, SummitParts DEF Holders
  <1>3. CASE Holders = {}
    <2>1. Live = {} BY <1>2, <1>3 DEF Live
    <2> QED BY <1>3, <2>1 DEF active_variably_modified, Summit, Numbers
  <1>4. CASE Holders # {}
    <2> DEFINE inner == CHOOSE i \in Holders : \A j \in Holders : j <= i
    <2>1. Holders \in SUBSET (0 .. Len(scopes)) BY <1>1 DEF Holders
    <2>2. \E i \in Holders : \A j \in Holders : j <= i BY <2>1, <1>1, <1>4, GreatestExists
    <2>3. inner \in Holders /\ \A j \in Holders : j <= inner BY <2>2
    <2>4. active_variably_modified = scopes[inner].variably_modified
      BY <1>4 DEF active_variably_modified
    <2> HIDE DEF inner
    <2>5. inner \in DOMAIN scopes /\ inner \in Nat BY <2>1, <2>3 DEF Holders
    <2>6. scopes[inner].variably_modified \in scopes[inner].live BY <1>2, <2>3, <2>5
    <2>7. ASSUME NEW x \in Live PROVE x <= scopes[inner].variably_modified
      <3>1. PICK i \in DOMAIN scopes : x \in scopes[i].live BY DEF Live
      <3>2. i \in Holders /\ i <= inner /\ i \in Nat BY <1>1, <1>2, <2>3, <3>1
      <3>3. CASE i = inner BY <1>2, <2>3, <2>5, <3>1, <3>3
      <3>4. CASE i < inner
        <4>1. x < scopes[inner].variably_modified BY <3>1, <3>4, <2>5, <2>6 DEF ScopesNumbered
        <4>2. x \in Nat /\ scopes[inner].variably_modified \in Nat BY <1>2, <2>5, <2>6, <3>1
        <4> QED BY <4>1, <4>2
      <3> QED BY <3>2, <3>3, <3>4, <2>5
    <2>8. scopes[inner].variably_modified \in Live BY <2>5, <2>6 DEF Live
    <2>9. scopes[inner].variably_modified \in Nat BY <1>2, <2>5, <2>6
    <2> QED BY <2>4, <2>7, <2>8, <2>9 DEF Summit, Numbers
  <1> QED BY <1>3, <1>4

-----------------------------------------------------------------------------
(* How statement expressions move                                          *)

LEMMA InsideParts ==
    ASSUME FramesShaped, ExpressionsNumbered
    PROVE  /\ Inside = InsideOf(Len(frames)) /\ Len(expression_parents) \in Nat
           /\ \A n \in 0 .. Len(frames) : InsideOf(n) \subseteq 1 .. Len(expression_parents)
           /\ active_expression \in Numbers
  <1>1. DOMAIN frames = 1 .. Len(frames) /\ Len(frames) \in Nat BY TopParts
  <1>2. Len(expression_parents) \in Nat BY LenProperties DEF ExpressionsNumbered
  <1>3. Inside = InsideOf(Len(frames)) BY <1>1 DEF Inside, InsideOf
  <1>4. ASSUME NEW n \in 0 .. Len(frames) PROVE InsideOf(n) \subseteq 1 .. Len(expression_parents)
    <2>1. \A i \in 1 .. n : i \in DOMAIN frames BY <1>1
    <2> QED BY <2>1 DEF InsideOf, ExpressionsNumbered
  <1>5. Inside \in SUBSET Nat BY <1>1, <1>2, <1>3, <1>4
  <1> QED BY <1>2, <1>3, <1>4, <1>5, SummitParts DEF ExpressionsNumbered

LEMMA InsideKept ==
    ASSUME FramesShaped, NEW n, Moves(n), NEW m \in 0 .. n
    PROVE  InsideOf(m)' = InsideOf(m)
  <1>1. \A i \in 1 .. m : i \in 1 .. n
    <2>1. n \in 1 .. Len(frames) BY DEF Moves
    <2>2. n \in Nat BY <2>1, TopParts
    <2> QED BY <2>2
  <1>2. \A i \in 1 .. m : frames'[i].expression = frames[i].expression
    BY <1>1 DEF Moves, Alike
  <1> QED BY <1>2 DEF InsideOf

\* One more frame.
LEMMA InsideNext ==
    ASSUME NEW n \in Nat
    PROVE  InsideOf(n + 1) = InsideOf(n) \cup ({frames[n + 1].expression} \ {None})
  <1>1. \A i : i \in 1 .. n + 1 <=> i \in 1 .. n \/ i = n + 1 OBVIOUS
  <1> QED BY <1>1 DEF InsideOf

\* The frames that stay keep their numbers.
LEMMA KeptNumbered ==
    ASSUME job \in Jobs, FramesShaped, ExpressionsNumbered, NEW n, Moves(n),
           expression_parents' = expression_parents
             \/ expression_parents' = Append(expression_parents, active_expression)
    PROVE  /\ expression_parents' \in Seq(Numbers)
           /\ Len(expression_parents) <= Len(expression_parents')
           /\ \A i \in 1 .. n :
                 /\ i \in DOMAIN frames
                 /\ frames'[i].expression # None => frames'[i].expression \in 1 .. Len(expression_parents')
                 /\ frames'[i].kind = "statement_expression" => Summit(frames'[i].previous, InsideOf(i - 1)')
                 /\ frames'[i].expression # None <=> frames'[i].kind = "statement_expression"
           /\ \A i, j \in 1 .. n :
                 i < j /\ frames'[i].expression # None /\ frames'[j].expression # None
                   => frames'[i].expression < frames'[j].expression
  <1>1. n \in Nat /\ \A i \in 1 .. n : i \in DOMAIN frames
    <2>1. n \in 1 .. Len(frames) BY DEF Moves
    <2> QED BY <2>1, TopParts
  <1>2. /\ expression_parents' \in Seq(Numbers) /\ Len(expression_parents') \in Nat
        /\ Len(expression_parents) \in Nat /\ Len(expression_parents) <= Len(expression_parents')
    <2>1. active_expression \in Numbers /\ Len(expression_parents) \in Nat BY InsideParts
    <2>2. Append(expression_parents, active_expression) \in Seq(Numbers)
          /\ Len(Append(expression_parents, active_expression)) = Len(expression_parents) + 1
      BY <2>1, AppendProperties DEF ExpressionsNumbered
    <2> QED BY <2>1, <2>2 DEF ExpressionsNumbered
  <1>3. ASSUME NEW i \in 1 .. n
        PROVE  /\ frames'[i].expression = frames[i].expression /\ frames'[i].kind = frames[i].kind
               /\ frames'[i].previous = frames[i].previous
               /\ InsideOf(i - 1)' = InsideOf(i - 1)
    <2>1. Alike(frames[i], frames'[i]) BY DEF Moves
    <2>2. i - 1 \in 0 .. n BY <1>1
    <2> QED BY <2>1, <2>2, InsideKept DEF Alike
  <1>4. ASSUME NEW i \in 1 .. n
        PROVE  /\ frames'[i].expression # None => frames'[i].expression \in 1 .. Len(expression_parents')
               /\ frames'[i].kind = "statement_expression" => Summit(frames'[i].previous, InsideOf(i - 1)')
               /\ frames'[i].expression # None <=> frames'[i].kind = "statement_expression"
    <2>1. /\ frames[i].expression # None => frames[i].expression \in 1 .. Len(expression_parents)
          /\ frames[i].kind = "statement_expression" => Summit(frames[i].previous, InsideOf(i - 1))
          /\ frames[i].expression # None <=> frames[i].kind = "statement_expression"
      BY <1>1 DEF ExpressionsNumbered
    <2>2. \A x \in 1 .. Len(expression_parents) : x \in 1 .. Len(expression_parents') BY <1>2
    <2> QED BY <1>3, <2>1, <2>2, Zenon
  <1>5. ASSUME NEW i \in 1 .. n, NEW j \in 1 .. n, i < j, frames'[i].expression # None, frames'[j].expression # None
        PROVE  frames'[i].expression < frames'[j].expression
    BY <1>1, <1>3, <1>5 DEF ExpressionsNumbered
  <1> QED BY <1>1, <1>2, <1>4, <1>5

\* Neither the frame left nor the one entered is a statement expression.
Unnumbered(f) == f.expression = None /\ f.kind # "statement_expression"
MovesUnnumbered(n) ==
    /\ Len(frames) = n \/ Unnumbered(frames[n + 1])
    /\ Len(frames') = n \/ Unnumbered(frames'[n + 1])
    /\ expression_parents' = expression_parents /\ active_expression' = active_expression

LEMMA ExpressionsKept ==
    ASSUME job \in Jobs, FramesShaped, ScopesFramed, ExpressionsNumbered, NEW n, Moves(n),
           MovesUnnumbered(n)
    PROVE  ExpressionsNumbered'
  <1>1. n \in Nat
    <2>1. n \in 1 .. Len(frames) BY DEF Moves
    <2> QED BY <2>1, TopParts
  <1>11. (Len(frames) = n \/ Len(frames) = n + 1) /\ (Len(frames') = n \/ Len(frames') = n + 1)
    BY DEF Moves
  <1>12. DOMAIN frames' = 1 .. Len(frames')
    <2>1. frames' \in Seq(FrameSet) BY DEF Moves
    <2> QED BY <2>1, LenProperties
  <1>2. FramesShaped' BY MovesFramed
  <1>3. Inside = InsideOf(n)
    <2>1. Inside = InsideOf(Len(frames)) BY InsideParts
    <2>2. CASE Len(frames) = n + 1
      <3>1. Len(frames) # n BY <1>1, <2>2
      <3>2. frames[n + 1].expression = None BY <3>1 DEF MovesUnnumbered, Unnumbered
      <3>3. InsideOf(n + 1) = InsideOf(n) BY <3>2, <1>1, InsideNext
      <3> QED BY <2>1, <2>2, <3>3
    <2> QED BY <2>1, <2>2, <1>11
  <1>4. Inside' = InsideOf(n)'
    <2>1. CASE Len(frames') = n
      <3>1. DOMAIN frames' = 1 .. n BY <2>1, <1>12
      <3> QED BY <3>1 DEF Inside, InsideOf
    <2>2. CASE Len(frames') = n + 1
      <3>1. DOMAIN frames' = 1 .. n + 1 BY <2>2, <1>12
      <3>2. \A i : i \in DOMAIN frames' <=> i \in 1 .. n \/ i = n + 1 BY ONLY <3>1, <1>1
      <3>3. Len(frames') # n BY ONLY <1>1, <2>2
      <3>4. frames'[n + 1].expression = None BY <3>3 DEF MovesUnnumbered, Unnumbered
      <3> QED BY <3>2, <3>4 DEF Inside, InsideOf
    <2> QED BY <2>1, <2>2, <1>11
  <1>5. Inside' = Inside
    <2>1. n \in 0 .. n BY <1>1
    <2> QED BY <2>1, <1>3, <1>4, InsideKept
  <1>6. Summit(active_expression, Inside)' BY <1>5 DEF ExpressionsNumbered, MovesUnnumbered
  <1>7. ASSUME NEW i \in DOMAIN frames', i \notin 1 .. n
        PROVE  frames'[i].expression = None /\ frames'[i].kind # "statement_expression"
    <2>1. i \in 1 .. Len(frames') BY <1>12
    <2>2. i = n + 1 /\ Len(frames') # n BY ONLY <2>1, <1>1, <1>7, <1>11
    <2> QED BY <2>2 DEF MovesUnnumbered, Unnumbered
  <1>8. expression_parents' = expression_parents BY DEF MovesUnnumbered
  <1>9. ASSUME NEW i \in DOMAIN frames', NEW j \in DOMAIN frames', i < j,
               frames'[i].expression # None, frames'[j].expression # None
        PROVE  frames'[i].expression < frames'[j].expression
    <2>1. i \in 1 .. n /\ j \in 1 .. n BY <1>7, <1>9
    <2> QED BY <2>1, <1>8, <1>9, KeptNumbered
  <1>10. ASSUME NEW i \in DOMAIN frames'
         PROVE  /\ frames'[i].expression # None => frames'[i].expression \in 1 .. Len(expression_parents')
                /\ frames'[i].kind = "statement_expression" => Summit(frames'[i].previous, InsideOf(i - 1)')
                /\ frames'[i].expression # None <=> frames'[i].kind = "statement_expression"
    BY <1>7, <1>8, KeptNumbered
  <1> QED BY <1>6, <1>8, <1>9, <1>10, KeptNumbered DEF ExpressionsNumbered

\* A statement expression is entered as number id.
EntersExpression(n, id) ==
    /\ n = Len(frames) /\ Len(frames') = n + 1 /\ id = Len(expression_parents) + 1
    /\ frames'[n + 1].kind = "statement_expression"
    /\ frames'[n + 1].previous = active_expression
    /\ frames'[n + 1].expression = id
    /\ expression_parents' = Append(expression_parents, active_expression)
    /\ active_expression' = id

LEMMA ExpressionEntered ==
    ASSUME job \in Jobs, FramesShaped, ScopesFramed, ExpressionsNumbered,
           NEW n, Moves(n), NEW id, EntersExpression(n, id)
    PROVE  ExpressionsNumbered'
  <1>1. /\ n \in Nat /\ n = Len(frames) /\ id \in Nat /\ DOMAIN frames' = 1 .. n + 1 /\ id # None
        /\ id = Len(expression_parents) + 1 /\ Len(expression_parents) \in Nat
        /\ expression_parents' = Append(expression_parents, active_expression)
    <2>1. frames' \in Seq(FrameSet) BY DEF Moves
    <2>2. n = Len(frames) /\ Len(frames') = n + 1 /\ id = Len(expression_parents) + 1
      BY DEF EntersExpression
    <2> QED BY <2>1, <2>2, TopParts, LenProperties, InsideParts, BodyAssumption DEF EntersExpression
  <1> DEFINE new == frames'[n + 1]
  <1>0. /\ new.kind = "statement_expression" /\ new.previous = active_expression /\ new.expression = id
        /\ active_expression' = id
    BY DEF EntersExpression
  <1>2. Len(expression_parents') = id
    <2>1. active_expression \in Numbers BY InsideParts
    <2> QED BY <2>1, <1>1, AppendProperties DEF ExpressionsNumbered
  <1>3. InsideOf(n)' = InsideOf(n) /\ Inside = InsideOf(n)
    <2>1. n \in 0 .. n BY <1>1
    <2> QED BY <2>1, <1>1, InsideKept, InsideParts
  <1>4. \A x \in Inside : x \in Nat /\ x < id
    <2>1. Inside \subseteq 1 .. Len(expression_parents) /\ Len(expression_parents) \in Nat
      <3>1. n \in 0 .. Len(frames) BY <1>1
      <3> QED BY <3>1, <1>1, <1>3, InsideParts
    <2> QED BY <2>1, <1>1
  <1>5. Inside' = Inside \cup {id}
    <2>1. \A i : i \in 1 .. n + 1 <=> i \in 1 .. n \/ i = n + 1 BY <1>1
    <2>2. Inside' = InsideOf(n)' \cup {id} BY <2>1, <1>0, <1>1 DEF Inside, InsideOf
    <2> QED BY <2>2, <1>3
  <1>6. Summit(active_expression, Inside)'
    <2>1. \A x \in Inside' : x <= id BY <1>1, <1>4, <1>5
    <2> QED BY <2>1, <1>0, <1>5 DEF Summit
  <1>7. ASSUME NEW i \in 1 .. n, frames'[i].expression # None PROVE frames'[i].expression < id
    <2>1. frames'[i].expression = frames[i].expression BY DEF Moves, Alike
    <2>2. frames[i].expression \in Inside BY <1>1, <1>7, <2>1, TopParts DEF Inside
    <2> QED BY <2>1, <2>2, <1>4
  <1>8. Summit(new.previous, InsideOf(n)') BY <1>0, <1>3 DEF ExpressionsNumbered
  <1>9. \A i \in DOMAIN frames' : i = n + 1 \/ i \in 1 .. n BY <1>1
  <1>10. ASSUME NEW i \in DOMAIN frames'
         PROVE  /\ frames'[i].expression # None => frames'[i].expression \in 1 .. Len(expression_parents')
                /\ frames'[i].kind = "statement_expression" => Summit(frames'[i].previous, InsideOf(i - 1)')
                /\ frames'[i].expression # None <=> frames'[i].kind = "statement_expression"
    <2>1. CASE i = n + 1
      <3>1. i - 1 = n BY <1>1, <2>1
      <3>2. id \in 1 .. Len(expression_parents') BY <1>1, <1>2
      <3> QED BY <2>1, <3>1, <3>2, <1>0, <1>1, <1>8
    <2>2. CASE i \in 1 .. n BY <2>2, <1>1, KeptNumbered
    <2> QED BY <2>1, <2>2, <1>9
  <1>11. ASSUME NEW i \in DOMAIN frames', NEW j \in DOMAIN frames', i < j,
                frames'[i].expression # None, frames'[j].expression # None
         PROVE  frames'[i].expression < frames'[j].expression
    <2>1. i \in 1 .. n BY <1>1, <1>11
    <2>2. CASE j = n + 1 BY <2>1, <2>2, <1>0, <1>7, <1>11
    <2>3. CASE j \in 1 .. n BY <2>1, <2>3, <1>1, <1>11, KeptNumbered
    <2> QED BY <2>2, <2>3, <1>9
  <1> QED BY <1>1, <1>6, <1>10, <1>11, KeptNumbered DEF ExpressionsNumbered

LEMMA ExpressionLeft ==
    ASSUME job \in Jobs, FramesShaped, ScopesFramed, ExpressionsNumbered, NEW n, Moves(n),
           Len(frames) = n + 1, Len(frames') = n, Top.kind = "statement_expression",
           expression_parents' = expression_parents, active_expression' = Top.previous
    PROVE  ExpressionsNumbered'
  <1>1. n \in Nat /\ DOMAIN frames' = 1 .. n /\ n + 1 \in DOMAIN frames /\ Top = frames[n + 1]
    <2>1. n \in 1 .. Len(frames) BY DEF Moves
    <2>2. frames' \in Seq(FrameSet) BY DEF Moves
    <2> QED BY <2>1, <2>2, TopParts, LenProperties DEF Top
  <1>2. Summit(Top.previous, InsideOf(n))
    <2>1. (n + 1) - 1 = n BY <1>1
    <2> QED BY <2>1, <1>1 DEF ExpressionsNumbered
  <1>3. InsideOf(n)' = InsideOf(n)
    <2>1. n \in 0 .. n BY <1>1
    <2> QED BY <2>1, InsideKept
  <1>4. Inside' = InsideOf(n)' BY <1>1 DEF Inside, InsideOf
  <1>5. Summit(active_expression, Inside)' BY <1>2, <1>3, <1>4
  <1> QED BY <1>1, <1>5, KeptNumbered DEF ExpressionsNumbered

-----------------------------------------------------------------------------
(* How switches and annotations move                                       *)

LEMMA SwitchParts ==
    ASSUME SwitchesTyped
    PROVE  /\ switches \in Seq(SwitchSet) /\ Len(switches) \in Nat /\ DOMAIN switches = 1 .. Len(switches)
           /\ switches # <<>> <=> Len(switches) > 0
           /\ \A m \in DOMAIN switches :
                 /\ switches[m] \in SwitchSet /\ switches[m].live \in SUBSET Nat
                 /\ switches[m].inside \in SUBSET Nat /\ switches[m].offset \in Nat
                 /\ switches[m].ranges \in SUBSET RangeSet
                 /\ switches[m].signed \in BOOLEAN
  <1>1. switches \in Seq(SwitchSet) BY DEF SwitchesTyped
  <1>2. Len(switches) \in Nat /\ DOMAIN switches = 1 .. Len(switches) BY <1>1, LenProperties
  <1>3. switches # <<>> <=> Len(switches) > 0 BY <1>1, <1>2, EmptySeq
  <1>4. \A m \in DOMAIN switches : switches[m] \in SwitchSet BY <1>1, <1>2, ElementOfSeq
  <1> QED BY <1>1, <1>2, <1>3, <1>4 DEF SwitchSet

\* The outermost scopes a switch looks at stay as long as its frame does.
LEMMA RecordedKept ==
    ASSUME job \in Jobs, FramesShaped, ScopesFramed, ScopesNumbered, NEW n, Moves(n),
           NEW p \in Nat, End(n) <= p, p <= Len(scopes), LiveMoves(p),
           NEW s, NEW k \in 1 .. n, OpenSwitch(frames[k]), Recorded(s, k)
    PROVE  Recorded(s, k)'
  <1>1. n \in Nat /\ n \in DOMAIN frames /\ k \in DOMAIN frames /\ k <= n
    <2>1. n \in 1 .. Len(frames) BY DEF Moves
    <2> QED BY <2>1, TopParts
  <1>2. End(k) <= End(n) /\ End(k) \in Nat /\ End(n) \in Nat BY <1>1, EndsGrow
  <1>3. /\ Alike(frames[k], frames'[k]) /\ frames'[k].base = frames[k].base
        /\ job' = job /\ frames[k].base \in Nat
    BY <1>1, FrameParts DEF Moves, Alike
  <1>4. ControlScopes' = ControlScopes /\ ControlScopes \in {0, 1} BY <1>3, JobParts DEF ControlScopes
  <1>5. End(k) = frames[k].base + 2 * ControlScopes BY DEF End, Width, OpenSwitch, Controls
  <1>0. PICK b : b = frames[k].base + ControlScopes OBVIOUS
  <1>6. b \in 0 .. p /\ b \in 0 .. Len(scopes)
    <2>1. Len(scopes) \in Nat BY ScopeParts
    <2>2. End(k) <= p /\ p <= Len(scopes) BY <1>2
    <2>3. PICK c \in {0, 1} : c = ControlScopes BY <1>4
    <2>4. PICK a \in Nat : a = frames[k].base BY <1>3
    <2>5. a + 2 * c <= p /\ b = a + c BY <1>0, <1>5, <2>2, <2>3, <2>4, Zenon
    <2>6. a + 2 * c \in Nat /\ b <= a + 2 * c /\ b \in Nat BY ONLY <2>3, <2>4, <2>5
    <2>7. b <= p BY ONLY <2>5, <2>6, p \in Nat
    <2>8. b <= Len(scopes) BY ONLY <2>1, <2>2, <2>6, <2>7, p \in Nat
    <2> QED BY ONLY <2>1, <2>6, <2>7, <2>8, p \in Nat
  <1>7. s.live \subseteq LiveOf(b) BY <1>0 DEF Recorded
  <1>8. LiveOf(b) \subseteq Live
    <2>1. \A i \in 1 .. b : i \in DOMAIN scopes BY <1>6, ScopeParts
    <2> QED BY <2>1 DEF LiveOf, Live
  <1>9. s.live \subseteq LiveOf(b)'
    <2>1. LiveOf(b) \subseteq LiveOf(b)' BY <1>6 DEF LiveMoves
    <2> QED BY <2>1, <1>7
  <1>10. frames'[k].base + ControlScopes' = b BY <1>0, <1>3, <1>4
  <1>11. \A x \in Live' \ s.live, y \in s.live : y < x
    <2>1. ASSUME NEW x \in Live' \ s.live, NEW y \in s.live PROVE y < x
      <3>1. CASE x \in Live BY <3>1 DEF Recorded
      <3>2. CASE x \notin Live BY <3>2, <1>7, <1>8 DEF LiveMoves
      <3> QED BY <3>1, <3>2
    <2> QED BY <2>1
  <1>12. InsideOf(k - 1)' = InsideOf(k - 1)
    <2>1. k - 1 \in 0 .. n BY <1>1
    <2> QED BY <2>1, InsideKept
  <1>14. Summit(s.variably_modified, s.live) /\ Summit(s.statement_expression, s.inside)
         /\ s.inside = InsideOf(k - 1)
    BY DEF Recorded
  <1>15. s.live \subseteq LiveOf(frames[k].base + ControlScopes)'
    BY <1>9, <1>10 DEF LiveOf
  <1> QED BY <1>11, <1>12, <1>14, <1>15 DEF Recorded

\* A switch but for its ranges and its default label.
SameSwitch(s, t) ==
    /\ t.offset = s.offset /\ t.live = s.live /\ t.inside = s.inside
    /\ t.variably_modified = s.variably_modified
    /\ t.statement_expression = s.statement_expression

\* No switch begins or ends.
SwitchesStay(n) ==
    /\ DOMAIN switches' = DOMAIN switches
    /\ \A m \in DOMAIN switches : SameSwitch(switches[m], switches'[m])
    /\ Len(frames) = n \/ ~OpenSwitch(frames[n + 1])
    /\ Len(frames') = n \/ ~OpenSwitch(frames'[n + 1])

LEMMA RecordedSame ==
    ASSUME NEW s, NEW t, SameSwitch(s, t), NEW k, Recorded(s, k)
    PROVE  Recorded(t, k)
  BY DEF SameSwitch, Recorded

LEMMA SwitchesKept ==
    ASSUME job \in Jobs, FramesShaped, ScopesFramed, ScopesNumbered, NEW n, Moves(n),
           NEW p \in Nat, End(n) <= p, p <= Len(scopes), LiveMoves(p), SwitchesStay(n),
           NEW at \in [DOMAIN switches -> DOMAIN frames], SwitchesFramed(at)
    PROVE  /\ at \in [DOMAIN switches' -> DOMAIN frames'] /\ SwitchesFramed(at)'
           /\ \A m \in DOMAIN switches : at[m] \in 1 .. n
  <1>1. n \in Nat /\ DOMAIN frames = 1 .. Len(frames) /\ Len(frames) \in Nat
    <2>1. n \in 1 .. Len(frames) BY DEF Moves
    <2> QED BY <2>1, TopParts
  <1>2. /\ Len(frames) = n \/ Len(frames) = n + 1
        /\ Len(frames') = n \/ Len(frames') = n + 1
    BY DEF Moves
  <1>3. DOMAIN frames' = 1 .. Len(frames')
    <2>1. frames' \in Seq(FrameSet) BY DEF Moves
    <2> QED BY <2>1, LenProperties
  <1>4. ASSUME NEW m \in DOMAIN switches
        PROVE  at[m] \in 1 .. n
    <2>1. at[m] \in 1 .. Len(frames) /\ OpenSwitch(frames[at[m]]) BY <1>1 DEF SwitchesFramed
    <2>2. CASE Len(frames) = n + 1
      <3>1. ~OpenSwitch(frames[n + 1])
        <4>1. Len(frames) # n BY <2>2, <1>1
        <4> QED BY <4>1 DEF SwitchesStay
      <3>2. at[m] # n + 1 BY <2>1, <3>1
      <3> QED BY <2>1, <2>2, <3>2, <1>1
    <2> QED BY <2>1, <2>2, <1>2
  <1>5. ASSUME NEW i \in 1 .. n
        PROVE  i \in DOMAIN frames /\ i \in DOMAIN frames' /\ OpenSwitch(frames'[i]) = OpenSwitch(frames[i])
    <2>1. i \in DOMAIN frames /\ i \in DOMAIN frames'
      <3>1. i \in 1 .. n + 1 BY <1>1
      <3> QED BY <3>1, <1>1, <1>2, <1>3
    <2>2. Alike(frames[i], frames'[i]) /\ job' = job BY Zenon DEF Moves
    <2> QED BY <2>1, <2>2, AlikeFrames, Zenon
  <1>6. at \in [DOMAIN switches' -> DOMAIN frames']
    BY <1>4, <1>5 DEF SwitchesStay
  <1>7. ASSUME NEW m \in DOMAIN switches', NEW s, s = switches'[m], NEW k, k = at[m]
        PROVE  OpenSwitch(frames'[k]) /\ Recorded(s, k)'
    <2>1. m \in DOMAIN switches BY DEF SwitchesStay
    <2>2. PICK r : r = switches[m] OBVIOUS
    <2>3. k \in 1 .. n BY <2>1, <1>4, <1>7
    <2>4. OpenSwitch(frames[k]) /\ Recorded(r, k) BY <2>1, <2>2, <1>7 DEF SwitchesFramed
    <2>5. Recorded(r, k)' BY <2>3, <2>4, RecordedKept
    <2>6. SameSwitch(r, s) BY <2>1, <2>2, <1>7 DEF SwitchesStay
    <2>7. Recorded(s, k)' BY <2>5, <2>6 DEF Recorded, SameSwitch
    <2> QED BY <2>3, <2>4, <2>7, <1>5
  <1>8. \A m \in DOMAIN switches' : (OpenSwitch(frames[at[m]]) /\ Recorded(switches[m], at[m]))'
    <2>1. ASSUME NEW m \in DOMAIN switches' PROVE (OpenSwitch(frames[at[m]]) /\ Recorded(switches[m], at[m]))'
      <3>1. PICK s : s = switches'[m] OBVIOUS
      <3>2. PICK k : k = at[m] OBVIOUS
      <3>3. OpenSwitch(frames'[k]) /\ Recorded(s, k)' BY <3>1, <3>2, <1>7
      <3> QED BY <3>1, <3>2, <3>3 DEF Recorded, OpenSwitch
    <2> QED BY <2>1
  <1>9. ASSUME NEW i \in DOMAIN frames', OpenSwitch(frames'[i])
        PROVE  \E m \in DOMAIN switches' : at[m] = i
    <2>1. i \in 1 .. n
      <3>1. CASE Len(frames') = n + 1
        <4>1. ~OpenSwitch(frames'[n + 1])
          <5>1. Len(frames') # n BY <3>1, <1>1
          <5> QED BY <5>1 DEF SwitchesStay
        <4>2. i # n + 1 /\ i \in 1 .. n + 1 BY <3>1, <4>1, <1>3, <1>9
        <4> QED BY <4>2, <1>1
      <3> QED BY <3>1, <1>2, <1>3
    <2>2. i \in DOMAIN frames /\ OpenSwitch(frames[i]) BY <2>1, <1>5, <1>9
    <2> QED BY <2>2 DEF SwitchesFramed, SwitchesStay
  <1>10. \A l, m \in DOMAIN switches' : l < m => at[l] < at[m]
    BY DEF SwitchesFramed, SwitchesStay
  <1>11. SwitchesFramed(at)'
    BY <1>8, <1>9, <1>10 DEF SwitchesFramed, OpenSwitch
  <1> QED BY <1>4, <1>6, <1>11

\* Annotations of a sequence are for the innermost switch.
Mine(s) == \A e \in RangeOf(s) : switches # <<>> /\ e = Innermost.offset

LEMMA RangeProperties ==
    ASSUME NEW S, NEW s \in Seq(S), NEW t \in Seq(S)
    PROVE  /\ s \o t \in Seq(S) /\ RangeOf(s \o t) = RangeOf(s) \cup RangeOf(t)
           /\ RangeOf(<<>>) = {} /\ <<>> \in Seq(S)
           /\ \A e \in S : Append(s, e) \in Seq(S) /\ RangeOf(Append(s, e)) = RangeOf(s) \cup {e}
  <1>1. /\ DOMAIN s = 1 .. Len(s) /\ DOMAIN t = 1 .. Len(t) /\ Len(s) \in Nat /\ Len(t) \in Nat
    BY LenProperties
  <1>2. /\ s \o t \in Seq(S) /\ Len(s \o t) = Len(s) + Len(t)
        /\ \A i \in 1 .. Len(s) + Len(t) :
              (s \o t)[i] = IF i <= Len(s) THEN s[i] ELSE t[i - Len(s)]
    BY ConcatProperties
  <1>3. DOMAIN (s \o t) = 1 .. Len(s) + Len(t) BY <1>2, LenProperties
  <1>4. RangeOf(s \o t) \subseteq RangeOf(s) \cup RangeOf(t)
    <2>1. ASSUME NEW i \in 1 .. Len(s) + Len(t)
          PROVE  (s \o t)[i] \in RangeOf(s) \cup RangeOf(t)
      <3>1. CASE i <= Len(s)
        <4>1. i \in DOMAIN s /\ (s \o t)[i] = s[i] BY <3>1, <1>1, <1>2
        <4> QED BY <4>1 DEF RangeOf
      <3>2. CASE ~(i <= Len(s))
        <4>1. i - Len(s) \in DOMAIN t /\ (s \o t)[i] = t[i - Len(s)] BY <3>2, <1>1, <1>2
        <4> QED BY <4>1 DEF RangeOf
      <3> QED BY <3>1, <3>2
    <2> QED BY <2>1, <1>3 DEF RangeOf
  <1>5. RangeOf(s) \subseteq RangeOf(s \o t)
    <2>1. ASSUME NEW i \in DOMAIN s PROVE i \in DOMAIN (s \o t) /\ (s \o t)[i] = s[i]
      BY <1>1, <1>2, <1>3
    <2> QED BY <2>1 DEF RangeOf
  <1>6. RangeOf(t) \subseteq RangeOf(s \o t)
    <2>1. ASSUME NEW i \in DOMAIN t
          PROVE  Len(s) + i \in DOMAIN (s \o t) /\ (s \o t)[Len(s) + i] = t[i]
      <3>1. Len(s) + i \in 1 .. Len(s) + Len(t) /\ ~(Len(s) + i <= Len(s)) /\ Len(s) + i - Len(s) = i
        BY <1>1
      <3> QED BY <3>1, <1>2, <1>3
    <2> QED BY <2>1 DEF RangeOf
  <1>7. RangeOf(<<>>) = {} /\ <<>> \in Seq(S) BY DEF RangeOf
  <1>8. ASSUME NEW e \in S PROVE Append(s, e) \in Seq(S) /\ RangeOf(Append(s, e)) = RangeOf(s) \cup {e}
    <2>1. /\ Append(s, e) \in Seq(S) /\ Len(Append(s, e)) = Len(s) + 1
          /\ \A i \in 1 .. Len(s) : Append(s, e)[i] = s[i]
          /\ Append(s, e)[Len(s) + 1] = e
      BY AppendProperties
    <2>2. DOMAIN Append(s, e) = 1 .. Len(s) + 1 BY <2>1, LenProperties
    <2>3. \A i : i \in DOMAIN Append(s, e) <=> i \in DOMAIN s \/ i = Len(s) + 1 BY <2>2, <1>1
    <2> QED BY <2>1, <2>3, <1>1 DEF RangeOf
  <1> QED BY <1>2, <1>4, <1>5, <1>6, <1>7, <1>8

\* What the top frame has put aside is for the innermost switch too.
LEMMA TopHolds ==
    ASSUME FramesShaped, SwitchesTyped,
           NEW at \in [DOMAIN switches -> DOMAIN frames], SwitchesFramed(at), AnnotationsPlaced(at)
    PROVE  Mine(Top.held) /\ Mine(fallthrough)
  <1>1. ASSUME NEW e \in RangeOf(Top.held) PROVE switches # <<>> /\ e = Innermost.offset
    <2>1. Len(frames) \in DOMAIN frames /\ Top = frames[Len(frames)] /\ DOMAIN frames = 1 .. Len(frames)
          /\ Len(frames) \in Nat
      BY TopParts DEF Top
    <2>2. PICK m \in DOMAIN switches :
             /\ \A n \in DOMAIN switches : m < n => Len(frames) < at[n]
             /\ e = switches[m].offset
      BY <2>1, ZenonT(60) DEF AnnotationsPlaced
    <2>3. Len(switches) \in Nat /\ DOMAIN switches = 1 .. Len(switches) BY SwitchParts
    <2>4. Len(switches) \in DOMAIN switches BY <2>3
    <2>5. ~(m < Len(switches))
      <3>1. at[Len(switches)] \in 1 .. Len(frames) BY <2>1, <2>4
      <3>2. ~(Len(frames) < at[Len(switches)]) BY <3>1, <2>1
      <3> QED BY <3>2, <2>2, <2>4
    <2>6. m = Len(switches) BY <2>3, <2>5
    <2> QED BY <2>2, <2>3, <2>4, <2>6, SwitchParts DEF Innermost
  <1> QED BY <1>1 DEF Mine, AnnotationsPlaced

\* What is pending after a step is what was, or is for the innermost switch.
AnnotationsMove(n) ==
    /\ fallthrough' \in Seq(Nat) /\ Mine(fallthrough')
    /\ Len(frames') = n \/ Mine(frames'[n + 1].held)

LEMMA AnnotationsKept ==
    ASSUME job \in Jobs, FramesShaped, SwitchesTyped, NEW n, Moves(n), SwitchesStay(n), AnnotationsMove(n),
           SwitchesTyped',
           NEW at \in [DOMAIN switches -> DOMAIN frames], SwitchesFramed(at), AnnotationsPlaced(at),
           \A m \in DOMAIN switches : at[m] \in 1 .. n
    PROVE  AnnotationsPlaced(at)'
  <1>1. n \in Nat
    <2>1. n \in 1 .. Len(frames) BY DEF Moves
    <2> QED BY <2>1, TopParts
  <1>2. Len(frames') = n \/ Len(frames') = n + 1 BY DEF Moves
  <1>20. DOMAIN frames' = 1 .. Len(frames')
    <2>1. frames' \in Seq(FrameSet) BY DEF Moves
    <2> QED BY <2>1, LenProperties
  <1>3. /\ Len(switches) \in Nat /\ DOMAIN switches = 1 .. Len(switches)
        /\ switches # <<>> <=> Len(switches) > 0
    BY SwitchParts
  <1>4. /\ Len(switches') \in Nat /\ DOMAIN switches' = 1 .. Len(switches')
        /\ DOMAIN switches' = DOMAIN switches
    <2>1. switches' \in Seq(SwitchSet) BY DEF SwitchesTyped
    <2>2. Len(switches') \in Nat /\ DOMAIN switches' = 1 .. Len(switches') BY <2>1, LenProperties
    <2>3. DOMAIN switches' = DOMAIN switches BY Zenon DEF SwitchesStay
    <2> QED BY ONLY <2>2, <2>3
  <1>5. Len(switches') = Len(switches)
    <2>1. ASSUME NEW a \in Nat, NEW b \in Nat, 1 .. a = 1 .. b PROVE a = b
      <3>1. a > 0 => a \in 1 .. b BY <2>1
      <3>2. b > 0 => b \in 1 .. a BY <2>1
      <3> QED BY <3>1, <3>2
    <2> QED BY <2>1, <1>3, <1>4
  <1>6. \A m \in DOMAIN switches : switches'[m].offset = switches[m].offset
    BY DEF SwitchesStay, SameSwitch
  <1>7. ASSUME NEW e, switches # <<>>, e = Innermost.offset
        PROVE  /\ switches' # <<>> /\ e = Innermost'.offset
               /\ Len(switches) \in DOMAIN switches /\ e = switches'[Len(switches)].offset
    <2>1. Len(switches) \in DOMAIN switches BY <1>3, <1>7
    <2>2. Innermost' = switches'[Len(switches)] BY <1>5 DEF Innermost
    <2>3. switches' # <<>>
      <3>1. DOMAIN switches' # {} BY <2>1, <1>4
      <3> QED BY <3>1
    <2> QED BY <2>1, <2>2, <2>3, <1>6, <1>7 DEF Innermost
  <1>8. \A e \in RangeOf(fallthrough') : switches' # <<>> /\ e = Innermost'.offset
    BY <1>7 DEF AnnotationsMove, Mine
  <1>9. ASSUME NEW i \in DOMAIN frames', NEW e \in RangeOf(frames'[i].held)
        PROVE  \E m \in DOMAIN switches' :
                  /\ at[m] < i /\ \A l \in DOMAIN switches' : m < l => i < at[l]
                  /\ e = switches'[m].offset
    <2>1. CASE i \in 1 .. n
      <3>1. frames'[i].held = frames[i].held BY <2>1 DEF Moves, Alike
      <3>2. i \in DOMAIN frames
        <4>1. n \in 1 .. Len(frames) BY DEF Moves
        <4> QED BY <4>1, <2>1, TopParts
      <3>3. PICK m \in DOMAIN switches :
               /\ at[m] < i /\ \A l \in DOMAIN switches : m < l => i < at[l]
               /\ e = switches[m].offset
        BY <3>1, <3>2, ZenonT(60) DEF AnnotationsPlaced
      <3> QED BY <3>3, <1>4, <1>6, ZenonT(60)
    <2>2. CASE i \notin 1 .. n
      <3>1. i \in 1 .. Len(frames') BY <1>20
      <3>2. i = n + 1 /\ Len(frames') # n BY ONLY <3>1, <2>2, <1>1, <1>2
      <3>3. switches # <<>> /\ e = Innermost.offset BY <3>2 DEF AnnotationsMove, Mine
      <3>4. Len(switches) \in DOMAIN switches' /\ e = switches'[Len(switches)].offset
        BY <3>3, <1>4, <1>7
      <3>5. at[Len(switches)] < i
        <4>1. Len(switches) \in DOMAIN switches BY <3>4, <1>4
        <4>2. at[Len(switches)] \in 1 .. n BY <4>1
        <4> QED BY <4>2, <3>2, <1>1
      <3>6. \A l \in DOMAIN switches' : ~(Len(switches) < l) BY <1>3, <1>4
      <3> QED BY <3>4, <3>5, <3>6
    <2> QED BY <2>1, <2>2
  <1> QED BY <1>8, <1>9 DEF AnnotationsMove, AnnotationsPlaced

-----------------------------------------------------------------------------
(* How operands of switches move                                           *)

SwitchOperand(f) == f.kind = "switch" /\ f.pc = "operand"

OperandsMove(n) ==
    /\ SwitchOperand(frames'[n]) =>
          IF Len(frames') = n THEN fallthrough' = <<>>
          ELSE frames'[n + 1].kind = "statement_expression" /\ frames'[n + 1].held = <<>>
    /\ Len(frames') = n \/ (SwitchOperand(frames'[n + 1]) => fallthrough' = <<>>)

LEMMA OperandsKept ==
    ASSUME job \in Jobs, FramesShaped, OperandsClear, NEW n, Moves(n), OperandsMove(n)
    PROVE  OperandsClear'
  <1>1. n \in Nat /\ n <= Len(frames) /\ Len(frames) \in Nat
    <2>1. n \in 1 .. Len(frames) BY DEF Moves
    <2> QED BY <2>1, TopParts
  <1>2. Len(frames') = n \/ Len(frames') = n + 1 BY DEF Moves
  <1>20. DOMAIN frames' = 1 .. Len(frames')
    <2>1. frames' \in Seq(FrameSet) BY DEF Moves
    <2> QED BY <2>1, LenProperties
  <1>3. ASSUME NEW i \in DOMAIN frames', SwitchOperand(frames'[i])
        PROVE  IF i = Len(frames') THEN fallthrough' = <<>>
               ELSE frames'[i + 1].kind = "statement_expression" /\ frames'[i + 1].held = <<>>
    <2>1. i \in 1 .. Len(frames') BY <1>20
    <2>2. CASE i = n
      <3>1. CASE Len(frames') = n BY <2>2, <3>1, <1>3 DEF OperandsMove
      <3>2. CASE Len(frames') = n + 1
        <4>1. Len(frames') # n BY <3>2, <1>1
        <4> QED BY <2>2, <4>1, <1>3 DEF OperandsMove
      <3> QED BY <3>1, <3>2, <1>2
    <2>3. CASE i # n /\ i \in 1 .. n
      <3>1. i + 1 \in 1 .. n /\ i # Len(frames') /\ i # Len(frames) BY ONLY <2>1, <2>3, <1>1, <1>2
      <3>2. Alike(frames[i], frames'[i]) /\ Alike(frames[i + 1], frames'[i + 1])
        BY <2>3, <3>1 DEF Moves
      <3>3. frames[i].kind = "switch" /\ frames[i].pc = "operand"
        BY <3>2, <1>3 DEF Alike, SwitchOperand
      <3>4. i \in DOMAIN frames BY <2>3, <1>1, TopParts
      <3>5. frames[i + 1].kind = "statement_expression" /\ frames[i + 1].held = <<>>
        BY <3>1, <3>3, <3>4 DEF OperandsClear
      <3> QED BY <3>1, <3>2, <3>5 DEF Alike
    <2>4. CASE i \notin 1 .. n
      <3>1. i = n + 1 /\ Len(frames') # n /\ i = Len(frames') BY ONLY <2>1, <2>4, <1>1, <1>2, SMTT(60)
      <3> QED BY <3>1, <1>3 DEF OperandsMove
    <2> QED BY <2>2, <2>3, <2>4
  <1> QED BY <1>3 DEF OperandsClear, SwitchOperand

\* Only a statement expression lies above the operand of a switch.
LEMMA BelowTop ==
    ASSUME FramesShaped, OperandsClear, NEW n \in 1 .. Len(frames), SwitchOperand(frames[n])
    PROVE  IF n = Len(frames) THEN fallthrough = <<>>
           ELSE frames[n + 1].kind = "statement_expression" /\ frames[n + 1].held = <<>>
  BY TopParts DEF OperandsClear, SwitchOperand

LEMMA OrdinaryStep ==
    ASSUME BodyInv, NEW n, Moves(n), NEW p \in Nat, End(n) <= p, p <= Len(scopes), LiveMoves(p),
           ScopesNumbered', ExpressionsNumbered', SwitchesTyped', SwitchesStay(n), AnnotationsMove(n),
           OperandsMove(n)
    PROVE  BodyInv'
  <1>1. /\ job \in Jobs /\ FramesShaped /\ ScopesFramed /\ ScopesNumbered /\ ExpressionsNumbered
        /\ SwitchesTyped /\ OperandsClear
    BY DEF BodyInv
  <1>2. PICK at \in [DOMAIN switches -> DOMAIN frames] : SwitchesFramed(at) /\ AnnotationsPlaced(at)
    BY DEF BodyInv
  <1>3. FramesShaped' /\ ScopesFramed' BY <1>1, MovesFramed
  <1>4. /\ at \in [DOMAIN switches' -> DOMAIN frames'] /\ SwitchesFramed(at)'
        /\ \A m \in DOMAIN switches : at[m] \in 1 .. n
    BY <1>1, <1>2, SwitchesKept
  <1>5. AnnotationsPlaced(at)' BY <1>1, <1>2, <1>4, AnnotationsKept
  <1>6. OperandsClear' BY <1>1, OperandsKept
  <1>7. job' \in Jobs BY <1>1 DEF Moves
  <1> QED BY <1>3, <1>4, <1>5, <1>6, <1>7 DEF BodyInv

-----------------------------------------------------------------------------
(* Kinds of steps                                                          *)

LEMMA UnchangedCloses ==
    ASSUME ScopesNumbered, scopes' = scopes, vm_parents' = vm_parents
    PROVE  Closes(Len(scopes))
  BY ScopeParts DEF Closes, ScopesNumbered

LEMMA EmptyScopes ==
    ASSUME NEW w \in Nat
    PROVE  /\ [i \in 1 .. w |-> EmptyScope] \in Seq(ScopeSet)
           /\ Len([i \in 1 .. w |-> EmptyScope]) = w
  BY EmptyScopeParts, LenProperties

LEMMA OpenedCloses ==
    ASSUME ScopesNumbered, NEW p \in 0 .. Len(scopes), NEW w \in Nat,
           scopes' = Closed(p) \o [i \in 1 .. w |-> EmptyScope], vm_parents' = vm_parents
    PROVE  Closes(p) /\ Len(scopes') = p + w
  <1> DEFINE new == [i \in 1 .. w |-> EmptyScope]
  <1>1. Len(scopes) \in Nat /\ scopes \in Seq(ScopeSet) /\ p \in Nat /\ p <= Len(scopes)
    BY ScopeParts DEF ScopesNumbered
  <1>2. /\ Closed(p) \in Seq(ScopeSet) /\ Len(Closed(p)) = p
        /\ \A i \in 1 .. p : Closed(p)[i] = scopes[i]
    <2>1. CASE p = 0 BY <2>1, <1>1, SubSeqEmpty, EmptySeq DEF Closed
    <2>2. CASE p # 0
      <3>1. 1 \in 1 .. Len(scopes) /\ p \in 1 .. Len(scopes) /\ 1 <= p /\ p - 1 + 1 = p
            /\ \A i \in 1 .. p : 1 + i - 1 = i
        BY <1>1, <2>2
      <3> QED BY <3>1, <1>1, SubSeqProperties DEF Closed
    <2> QED BY <2>1, <2>2
  <1>3. new \in Seq(ScopeSet) /\ Len(new) = w /\ \A i \in 1 .. w : new[i] = EmptyScope
    BY EmptyScopes
  <1> HIDE DEF new
  <1>4. /\ scopes' \in Seq(ScopeSet) /\ Len(scopes') = p + w
        /\ \A i \in 1 .. p + w : scopes'[i] = IF i <= p THEN Closed(p)[i] ELSE new[i - p]
    <2>1. PICK c : c = Closed(p) OBVIOUS
    <2>2. scopes' = c \o new BY <2>1 DEF new
    <2>3. c \in Seq(ScopeSet) /\ Len(c) = p BY <2>1, <1>2
    <2>4. /\ c \o new \in Seq(ScopeSet) /\ Len(c \o new) = p + w
          /\ \A i \in 1 .. p + w : (c \o new)[i] = IF i <= p THEN c[i] ELSE new[i - p]
      BY <2>3, <1>3, ConcatProperties
    <2> QED BY <2>1, <2>2, <2>4, ZenonT(60)
  <1>5. ASSUME NEW i \in 1 .. p PROVE scopes'[i] = scopes[i]
    BY <1>1, <1>2, <1>4
  <1>6. ASSUME NEW i \in p + 1 .. p + w PROVE scopes'[i] = EmptyScope
    <2>1. i \in 1 .. p + w /\ ~(i <= p) /\ i - p \in 1 .. w BY <1>1
    <2> QED BY <2>1, <1>3, <1>4
  <1> QED BY <1>1, <1>4, <1>5, <1>6 DEF Closes

LEMMA ClosedAll ==
    ASSUME ScopesNumbered
    PROVE  Closed(Len(scopes)) = scopes /\ Len(scopes) \in 0 .. Len(scopes)
  BY ScopeParts, SubSeqFull DEF ScopesNumbered, Closed

LEMMA ClosedCloses ==
    ASSUME ScopesNumbered, NEW p \in 0 .. Len(scopes), scopes' = Closed(p), vm_parents' = vm_parents
    PROVE  Closes(p) /\ Len(scopes') = p
  <1>1. Closed(p) \o [i \in 1 .. 0 |-> EmptyScope] = Closed(p)
    <2>1. Closed(p) \in Seq(ScopeSet)
      <3>1. Len(scopes) \in Nat /\ scopes \in Seq(ScopeSet) BY ScopeParts DEF ScopesNumbered
      <3>2. CASE p = 0 BY <3>1, <3>2, SubSeqEmpty DEF Closed
      <3>3. CASE p # 0 BY <3>1, <3>3, SubSeqProperties DEF Closed
      <3> QED BY <3>2, <3>3
    <2>2. [i \in 1 .. 0 |-> EmptyScope] = <<>> OBVIOUS
    <2> QED BY <2>1, <2>2, ConcatEmptySeq
  <1>2. p \in Nat /\ p + 0 = p BY ScopeParts
  <1>3. scopes' = Closed(p) \o [i \in 1 .. 0 |-> EmptyScope] /\ 0 \in Nat BY <1>1
  <1>4. Closes(p) /\ Len(scopes') = p + 0 BY ONLY <1>3, OpenedCloses, ScopesNumbered, p \in 0 .. Len(scopes), vm_parents' = vm_parents, Zenon
  <1> QED BY <1>2, <1>4

\* The fields of a frame change.
LEMMA FieldsChange ==
    ASSUME NEW t \in FrameSet, NEW kind \in Kinds, NEW pc \in Places, NEW held \in Seq(Nat)
    PROVE  [t EXCEPT !.kind = kind, !.pc = pc, !.held = held] \in FrameSet
  <1>1. PICK S : S = Seq(Nat) OBVIOUS
  <1>2. PICK N : N = Numbers OBVIOUS
  <1>3. PICK K, P, E : K = Kinds /\ P = Places /\ E = {"any", "quiet", "other"} OBVIOUS
  <1> DEFINE Set == [kind : K, pc : P, base : Nat, expects : E, held : S, previous : N, expression : N]
  <1>4. FrameSet = Set BY <1>1, <1>2, <1>3 DEF FrameSet
  <1>5. t \in Set /\ kind \in K /\ pc \in P /\ held \in S BY <1>1, <1>3, <1>4, Zenon
  <1>6. [t EXCEPT !.kind = kind, !.pc = pc, !.held = held] \in Set BY ONLY <1>5
  <1> QED BY <1>4, <1>6, Zenon

LEMMA PcChanges ==
    ASSUME NEW t \in FrameSet, NEW pc \in Places
    PROVE  /\ [t EXCEPT !.pc = pc] \in FrameSet
           /\ [t EXCEPT !.pc = pc] = [t EXCEPT !.kind = t.kind, !.pc = pc, !.held = t.held]
  <1>1. PICK K, S : K = Kinds /\ S = Seq(Nat) OBVIOUS
  <1>2. t.kind \in Kinds /\ t.held \in Seq(Nat) BY DEF FrameSet
  <1>3. [t EXCEPT !.pc = pc] = [t EXCEPT !.kind = t.kind, !.pc = pc, !.held = t.held] BY DEF FrameSet
  <1>4. [t EXCEPT !.kind = t.kind, !.pc = pc, !.held = t.held] \in FrameSet BY <1>2, FieldsChange, Zenon
  <1> QED BY <1>3, <1>4, Zenon

\* A new frame.
LEMMA FrameShape ==
    ASSUME NEW kind \in Kinds, NEW pc \in Places, Len(scopes) \in Nat
    PROVE  /\ Frame(kind, pc) \in FrameSet
           /\ Frame(kind, pc).kind = kind /\ Frame(kind, pc).pc = pc /\ Frame(kind, pc).base = Len(scopes)
           /\ Frame(kind, pc).held = <<>> /\ Frame(kind, pc).expression = None
  <1>1. PICK S, e : S = Seq(Nat) /\ e = <<>> OBVIOUS
  <1>2. PICK N : N = Numbers OBVIOUS
  <1>3. PICK K, P, E : K = Kinds /\ P = Places /\ E = {"any", "quiet", "other"} OBVIOUS
  <1>4. PICK b \in Nat : b = Len(scopes) OBVIOUS
  <1>5. PICK f : f = [kind |-> kind, pc |-> pc, base |-> b, expects |-> "any", held |-> e,
                      previous |-> None, expression |-> None]
    OBVIOUS
  <1>6. f = Frame(kind, pc) BY <1>1, <1>4, <1>5 DEF Frame
  <1>7. None \in N BY <1>2 DEF Numbers
  <1>8. e \in S BY <1>1
  <1>9. kind \in K /\ pc \in P /\ "any" \in E BY <1>3
  <1>10. f \in [kind : K, pc : P, base : Nat, expects : E, held : S, previous : N, expression : N]
    BY ONLY <1>5, <1>7, <1>8, <1>9, b \in Nat
  <1>11. FrameSet = [kind : K, pc : P, base : Nat, expects : E, held : S, previous : N, expression : N]
    BY <1>1, <1>2, <1>3 DEF FrameSet
  <1>12. f.kind = kind /\ f.pc = pc /\ f.base = b /\ f.held = e /\ f.expression = None
    BY ONLY <1>5
  <1> QED BY <1>1, <1>4, <1>6, <1>10, <1>11, <1>12, Zenon

LEMMA TakenAlike ==
    ASSUME FramesShaped
    PROVE  /\ Taken \in Seq(FrameSet) /\ Len(Taken) = Len(frames)
           /\ \A i \in 1 .. Len(frames) : Alike(frames[i], Taken[i])
  <1>1. CASE Top.pc = "statement"
    <2> DEFINE g == [Top EXCEPT !.pc = "after"]
    <2>1. Taken = [frames EXCEPT ![Len(frames)] = g] BY <1>1 DEF Taken, Top
    <2>2. /\ g \in FrameSet /\ g.pc = "after" /\ g.kind = Top.kind /\ g.base = Top.base /\ g.held = Top.held
          /\ g.previous = Top.previous /\ g.expression = Top.expression
      <3>1. PICK t \in FrameSet : t = Top BY TopParts, Zenon
      <3>2. PICK h : h = [t EXCEPT !.pc = "after"] OBVIOUS
      <3>3. /\ h.pc = "after" /\ h.kind = t.kind /\ h.base = t.base /\ h.held = t.held
            /\ h.previous = t.previous /\ h.expression = t.expression
        BY ONLY <3>2, t \in FrameSet DEF FrameSet
      <3>4. "after" \in Places BY DEF Places
      <3>5. h \in FrameSet
        <4>1. [t EXCEPT !.pc = "after"] \in FrameSet BY ONLY <3>4, t \in FrameSet, PcChanges, Zenon
        <4> QED BY <3>2, <4>1, Zenon
      <3> QED BY <3>1, <3>2, <3>3, <3>5
    <2> HIDE DEF g
    <2>3. Len(frames) \in 1 .. Len(frames) /\ frames \in Seq(FrameSet) BY TopParts
    <2>4. /\ Taken \in Seq(FrameSet) /\ Len(Taken) = Len(frames)
          /\ \A i \in 1 .. Len(frames) : Taken[i] = IF i = Len(frames) THEN g ELSE frames[i]
      BY <2>1, <2>2, <2>3, ExceptSeq
    <2>5. Alike(Top, g) BY <1>1, <2>2 DEF Alike
    <2>6. ASSUME NEW i \in 1 .. Len(frames) PROVE Alike(frames[i], Taken[i])
      <3>1. CASE i = Len(frames) BY <3>1, <2>4, <2>5 DEF Top
      <3>2. CASE i # Len(frames) BY <3>2, <2>4 DEF Alike
      <3> QED BY <3>1, <3>2
    <2> QED BY <2>4, <2>6
  <1>2. CASE Top.pc # "statement" BY <1>2, TopParts DEF Taken, Alike
  <1> QED BY <1>1, <1>2

LEMMA TopEnds ==
    ASSUME job \in Jobs, FramesShaped, ScopesFramed
    PROVE  /\ End(Len(frames)) = Len(scopes)
           /\ Top.kind # "body" => /\ Len(frames) - 1 \in DOMAIN frames
                                   /\ End(Len(frames) - 1) = Top.base
  <1>1. End(Len(frames)) = Len(scopes) BY DEF ScopesFramed, End, Top
  <1>2. ASSUME Top.kind # "body"
        PROVE  Len(frames) - 1 \in DOMAIN frames /\ End(Len(frames) - 1) = Top.base
    <2>1. Len(frames) # 1 BY <1>2, TopParts DEF FramesShaped, Top
    <2>2. Len(frames) - 1 \in 1 .. Len(frames) - 1 /\ Len(frames) - 1 + 1 = Len(frames)
          /\ Len(frames) - 1 \in DOMAIN frames
      BY <2>1, TopParts
    <2> QED BY <2>2 DEF ScopesFramed, End, Top
  <1> QED BY <1>1, <1>2

LEMMA RestMoves ==
    ASSUME job \in Jobs, FramesShaped, ScopesFramed, job' = job, frames' = frames \/ frames' = Taken,
           Len(scopes') = Len(scopes)
    PROVE  /\ Moves(Len(frames)) /\ Len(frames') = Len(frames)
           /\ SwitchOperand(frames'[Len(frames)]) = SwitchOperand(Top)
  <1>1. /\ frames' \in Seq(FrameSet) /\ Len(frames') = Len(frames)
        /\ \A i \in 1 .. Len(frames) : Alike(frames[i], frames'[i])
    BY TakenAlike, TopParts DEF Alike
  <1>2. Len(frames) \in 1 .. Len(frames) BY TopParts
  <1>3. Moves(Len(frames)) BY <1>1, <1>2, TopEnds DEF Moves
  <1>4. Alike(Top, frames'[Len(frames)]) BY <1>1, <1>2 DEF Top
  <1>5. SwitchOperand(frames'[Len(frames)]) = SwitchOperand(Top)
    BY <1>4, AlikeFrames, Zenon DEF SwitchOperand, Alike
  <1> QED BY <1>1, <1>3, <1>5

LEMMA PushMoves ==
    ASSUME job \in Jobs, FramesShaped, ScopesFramed, job' = job,
           NEW g \in FrameSet, g.kind # "body", HoldsNothing(g), g.base = Len(scopes),
           frames' = Append(Taken, g), Len(scopes') = Len(scopes) + Width(g)
    PROVE  /\ Moves(Len(frames)) /\ Len(frames') = Len(frames) + 1
           /\ frames'[Len(frames) + 1] = g
           /\ SwitchOperand(frames'[Len(frames)]) = SwitchOperand(Top)
  <1>1. /\ Taken \in Seq(FrameSet) /\ Len(Taken) = Len(frames)
        /\ \A i \in 1 .. Len(frames) : Alike(frames[i], Taken[i])
    BY TakenAlike
  <1>2. /\ frames' \in Seq(FrameSet) /\ Len(frames') = Len(frames) + 1
        /\ \A i \in 1 .. Len(frames) : frames'[i] = Taken[i]
        /\ frames'[Len(frames) + 1] = g
    BY <1>1, AppendProperties
  <1>3. \A i \in 1 .. Len(frames) : Alike(frames[i], frames'[i]) BY <1>1, <1>2
  <1>4. Len(frames) \in 1 .. Len(frames) /\ Len(frames) + 1 # Len(frames)
    <2>1. Len(frames) \in Nat \ {0} BY TopParts
    <2> QED BY ONLY <2>1
  <1>5. Moves(Len(frames))
    BY <1>2, <1>3, <1>4, TopEnds DEF Moves
  <1>6. Alike(Top, frames'[Len(frames)]) BY <1>3, <1>4 DEF Top
  <1>7. SwitchOperand(frames'[Len(frames)]) = SwitchOperand(Top)
    BY <1>6, AlikeFrames, Zenon DEF SwitchOperand, Alike
  <1> QED BY <1>2, <1>5, <1>7

LEMMA PopMoves ==
    ASSUME job \in Jobs, FramesShaped, ScopesFramed, job' = job, Top.kind # "body",
           frames' = Outer(frames), Len(scopes') = Top.base,
           NEW n, n = Len(frames) - 1
    PROVE  /\ Moves(n) /\ Len(frames') = n /\ n \in Nat \ {0} /\ Len(frames) = n + 1 /\ frames[n + 1] = Top
           /\ SwitchOperand(frames'[n]) = SwitchOperand(frames[n])
  <1>1. n \in 1 .. Len(frames) /\ Len(frames) = n + 1 /\ n \in Nat \ {0} BY TopEnds, TopParts
  <1>2. /\ frames' \in Seq(FrameSet) /\ Len(frames') = n
        /\ \A i \in 1 .. n : frames'[i] = frames[i]
    <2>1. frames \in Seq(FrameSet) /\ 1 \in 1 .. Len(frames) /\ Len(frames) - 1 \in 1 .. Len(frames)
          /\ 1 <= Len(frames) - 1 /\ Len(frames) - 1 - 1 + 1 = n /\ \A i \in 1 .. n : 1 + i - 1 = i
      BY <1>1, TopParts
    <2> QED BY <2>1, SubSeqProperties DEF Outer
  <1>3. \A i \in 1 .. n : Alike(frames[i], frames'[i]) BY <1>2 DEF Alike
  <1>4. End(n) = Top.base BY TopEnds
  <1>5. Moves(n) BY <1>1, <1>2, <1>3, <1>4 DEF Moves
  <1> QED BY <1>1, <1>2, <1>5 DEF Top

LEMMA StepMoves ==
    ASSUME job \in Jobs, FramesShaped, ScopesFramed, job' = job, Top.kind # "body",
           NEW g \in FrameSet, g.kind # "body", HoldsNothing(g), g.base = Top.base,
           frames' = [frames EXCEPT ![Len(frames)] = g], Len(scopes') = Top.base + Width(g),
           NEW n, n = Len(frames) - 1
    PROVE  /\ Moves(n) /\ Len(frames') = n + 1 /\ n \in Nat \ {0} /\ Len(frames) = n + 1
           /\ frames[n + 1] = Top /\ frames'[n + 1] = g
           /\ SwitchOperand(frames'[n]) = SwitchOperand(frames[n])
  <1>1. n \in 1 .. Len(frames) /\ Len(frames) = n + 1 /\ n \in Nat \ {0} BY TopEnds, TopParts, SMTT(60)
  <1>2. /\ frames' \in Seq(FrameSet) /\ Len(frames') = n + 1
        /\ \A i \in 1 .. n : frames'[i] = frames[i]
        /\ frames'[n + 1] = g
    <2>1. frames \in Seq(FrameSet) /\ Len(frames) \in 1 .. Len(frames) BY TopParts
    <2>2. /\ frames' \in Seq(FrameSet) /\ Len(frames') = Len(frames)
          /\ \A i \in 1 .. Len(frames) : frames'[i] = IF i = Len(frames) THEN g ELSE frames[i]
      BY <2>1, ExceptSeq
    <2> QED BY <2>2, <1>1
  <1>3. \A i \in 1 .. n : Alike(frames[i], frames'[i]) BY <1>2 DEF Alike
  <1>4. End(n) = Top.base BY TopEnds
  <1>5. Moves(n)
    <2>1. Len(frames') # n BY <1>1, <1>2
    <2> QED BY <2>1, <1>1, <1>2, <1>3, <1>4 DEF Moves
  <1> QED BY <1>1, <1>2, <1>5 DEF Top

\* No switch begins or ends, only its ranges and its default label change.
SwitchesSame ==
    /\ SwitchesTyped' /\ DOMAIN switches' = DOMAIN switches
    /\ \A m \in DOMAIN switches : SameSwitch(switches[m], switches'[m])

\* A step that meets no statement expression, no switch and no other annotation.
Steady ==
    /\ job' = job /\ expression_parents' = expression_parents /\ active_expression' = active_expression
    /\ SwitchesSame /\ fallthrough' \in Seq(Nat) /\ Mine(fallthrough')

\* Neither a statement expression nor a switch whose body is checked.
Common(f) == f.kind # "body" /\ Unnumbered(f) /\ ~OpenSwitch(f)

LEMMA BodyParts ==
    ASSUME BodyInv
    PROVE  /\ job \in Jobs /\ FramesShaped /\ ScopesFramed /\ ScopesNumbered /\ ExpressionsNumbered
           /\ SwitchesTyped /\ OperandsClear
           /\ \E at \in [DOMAIN switches -> DOMAIN frames] : SwitchesFramed(at) /\ AnnotationsPlaced(at)
  BY DEF BodyInv

\* The frames stay.
LEMMA RestStep ==
    ASSUME BodyInv, Steady, frames' = frames \/ frames' = Taken,
           scopes' = scopes, vm_parents' = vm_parents,
           SwitchOperand(Top) => fallthrough' = <<>>
    PROVE  BodyInv'
  <1>1. /\ job \in Jobs /\ FramesShaped /\ ScopesFramed /\ ScopesNumbered /\ ExpressionsNumbered
    BY BodyParts
  <1>2. PICK n : n = Len(frames) OBVIOUS
  <1>3. job' = job BY DEF Steady
  <1>4. Moves(n) /\ Len(frames') = n /\ SwitchOperand(frames'[n]) = SwitchOperand(Top)
    BY <1>1, <1>2, <1>3, RestMoves
  <1>5. Closes(Len(scopes)) BY <1>1, UnchangedCloses
  <1>6. ScopesNumbered' /\ LiveMoves(Len(scopes)) BY <1>1, <1>5, ClosesNumbered
  <1>7. MovesUnnumbered(n) BY <1>2, <1>4 DEF MovesUnnumbered, Steady
  <1>8. ExpressionsNumbered' BY <1>1, <1>4, <1>7, ExpressionsKept
  <1>9. SwitchesTyped' /\ SwitchesStay(n) BY <1>2, <1>4 DEF SwitchesStay, Steady, SwitchesSame
  <1>10. AnnotationsMove(n) BY <1>4 DEF AnnotationsMove, Steady
  <1>11. OperandsMove(n) BY <1>4, Zenon DEF OperandsMove
  <1>12. Len(scopes) \in Nat /\ End(n) <= Len(scopes) BY <1>1, <1>2, ScopeParts, TopEnds
  <1>13. Len(scopes) <= Len(scopes) BY <1>12
  <1> QED BY <1>4, <1>6, <1>8, <1>9, <1>10, <1>11, <1>12, <1>13, OrdinaryStep

\* A frame is entered.
LEMMA PushStep ==
    ASSUME BodyInv, Steady, NEW g \in FrameSet, Common(g), HoldsNothing(g), Mine(g.held), g.base = Len(scopes),
           frames' = Append(Taken, g), Closes(Len(scopes)), Len(scopes') = Len(scopes) + Width(g),
           ~SwitchOperand(Top), SwitchOperand(g) => fallthrough' = <<>>
    PROVE  BodyInv'
  <1>1. /\ job \in Jobs /\ FramesShaped /\ ScopesFramed /\ ScopesNumbered /\ ExpressionsNumbered
    BY BodyParts
  <1>2. PICK n : n = Len(frames) OBVIOUS
  <1>3. job' = job /\ g.kind # "body" BY DEF Steady, Common
  <1>4. /\ Moves(n) /\ Len(frames') = n + 1 /\ frames'[n + 1] = g
        /\ SwitchOperand(frames'[n]) = SwitchOperand(Top)
    BY <1>1, <1>2, <1>3, PushMoves
  <1>5. ScopesNumbered' /\ LiveMoves(Len(scopes)) BY <1>1, ClosesNumbered
  <1>6. MovesUnnumbered(n) BY <1>2, <1>4, Zenon DEF MovesUnnumbered, Steady, Common
  <1>7. ExpressionsNumbered' BY <1>1, <1>4, <1>6, ExpressionsKept
  <1>8. SwitchesTyped' /\ SwitchesStay(n) BY <1>2, <1>4, Zenon DEF SwitchesStay, Steady, SwitchesSame, Common
  <1>9. AnnotationsMove(n) BY <1>4, Zenon DEF AnnotationsMove, Steady
  <1>10. OperandsMove(n) BY <1>4, Zenon DEF OperandsMove
  <1>11. Len(scopes) \in Nat /\ End(n) <= Len(scopes) BY <1>1, <1>2, ScopeParts, TopEnds
  <1>12. Len(scopes) <= Len(scopes) BY <1>11
  <1> QED BY <1>4, <1>5, <1>7, <1>8, <1>9, <1>10, <1>11, <1>12, OrdinaryStep

\* Nothing but the body of a statement expression lies above the operand of a switch.
LEMMA OutsideOperand ==
    ASSUME BodyInv, Top.kind # "body", Top.kind # "statement_expression"
    PROVE  ~SwitchOperand(frames[Len(frames) - 1])
  <1>1. /\ job \in Jobs /\ FramesShaped /\ ScopesFramed /\ OperandsClear BY BodyParts
  <1>2. PICK n : n = Len(frames) - 1 OBVIOUS
  <1>3. Len(frames) - 1 \in DOMAIN frames /\ DOMAIN frames = 1 .. Len(frames) /\ Len(frames) \in Nat
    BY <1>1, TopEnds, TopParts
  <1>4. n \in 1 .. Len(frames) /\ n # Len(frames) /\ n + 1 = Len(frames) BY ONLY <1>2, <1>3
  <1>5. SUFFICES ASSUME SwitchOperand(frames[n]) PROVE FALSE BY <1>2
  <1>6. frames[n + 1].kind = "statement_expression" BY <1>1, <1>4, <1>5, BelowTop
  <1> QED BY <1>4, <1>6 DEF Top

\* The top frame is left.
LEMMA PopStep ==
    ASSUME BodyInv, Steady, Common(Top), frames' = Outer(frames), Closes(Top.base), Len(scopes') = Top.base
    PROVE  BodyInv'
  <1>1. /\ job \in Jobs /\ FramesShaped /\ ScopesFramed /\ ScopesNumbered /\ ExpressionsNumbered
    BY BodyParts
  <1>2. PICK n : n = Len(frames) - 1 OBVIOUS
  <1>3. job' = job /\ Top.kind # "body" /\ Top.kind # "statement_expression"
    BY DEF Steady, Common, Unnumbered
  <1>4. /\ Moves(n) /\ Len(frames') = n /\ n \in Nat \ {0} /\ Len(frames) = n + 1 /\ frames[n + 1] = Top
        /\ SwitchOperand(frames'[n]) = SwitchOperand(frames[n])
    BY <1>1, <1>2, <1>3, PopMoves
  <1>5. ScopesNumbered' /\ LiveMoves(Top.base) BY <1>1, ClosesNumbered
  <1>6. MovesUnnumbered(n) BY <1>4, Zenon DEF MovesUnnumbered, Steady, Common
  <1>7. ExpressionsNumbered' BY <1>1, <1>4, <1>6, ExpressionsKept
  <1>8. SwitchesTyped' /\ SwitchesStay(n) BY <1>4, Zenon DEF SwitchesStay, Steady, SwitchesSame, Common
  <1>9. AnnotationsMove(n) BY <1>4, Zenon DEF AnnotationsMove, Steady
  <1>10. ~SwitchOperand(frames[n]) BY <1>2, <1>3, OutsideOperand, Zenon
  <1>11. OperandsMove(n) BY <1>4, <1>10, Zenon DEF OperandsMove
  <1>12. Top.base \in Nat /\ End(n) = Top.base /\ Top.base <= Len(scopes)
    <2>1. Top.base \in Nat /\ End(n) = Top.base BY <1>1, <1>2, <1>3, TopEnds, TopParts
    <2>2. Top.base \in 0 .. Len(scopes) BY DEF Closes
    <2> QED BY <2>1, <2>2
  <1>13. Top.base <= Top.base BY <1>12
  <1> QED BY <1>4, <1>5, <1>7, <1>8, <1>9, <1>11, <1>12, <1>13, OrdinaryStep

\* The top frame becomes another.
LEMMA TurnStep ==
    ASSUME BodyInv, Steady, Common(Top), NEW g \in FrameSet, Common(g), HoldsNothing(g), Mine(g.held),
           g.base = Top.base, frames' = [frames EXCEPT ![Len(frames)] = g],
           NEW p \in Nat, Top.base <= p, p <= Len(scopes), LiveMoves(p), ScopesNumbered',
           Len(scopes') = Top.base + Width(g), SwitchOperand(g) => fallthrough' = <<>>
    PROVE  BodyInv'
  <1>1. /\ job \in Jobs /\ FramesShaped /\ ScopesFramed /\ ScopesNumbered /\ ExpressionsNumbered
    BY BodyParts
  <1>2. PICK n : n = Len(frames) - 1 OBVIOUS
  <1>3. job' = job /\ Top.kind # "body" /\ Top.kind # "statement_expression" /\ g.kind # "body"
    BY DEF Steady, Common, Unnumbered
  <1>4. /\ Moves(n) /\ Len(frames') = n + 1 /\ n \in Nat \ {0} /\ Len(frames) = n + 1 /\ frames[n + 1] = Top
        /\ frames'[n + 1] = g /\ SwitchOperand(frames'[n]) = SwitchOperand(frames[n])
    BY <1>1, <1>2, <1>3, StepMoves
  <1>6. MovesUnnumbered(n) BY <1>4, Zenon DEF MovesUnnumbered, Steady, Common
  <1>7. ExpressionsNumbered' BY <1>1, <1>4, <1>6, ExpressionsKept
  <1>8. SwitchesTyped' /\ SwitchesStay(n) BY <1>4, Zenon DEF SwitchesStay, Steady, SwitchesSame, Common
  <1>9. AnnotationsMove(n) BY <1>4, Zenon DEF AnnotationsMove, Steady
  <1>10. ~SwitchOperand(frames[n]) BY <1>2, <1>3, OutsideOperand, Zenon
  <1>11. OperandsMove(n) BY <1>4, <1>10, Zenon DEF OperandsMove
  <1>12. End(n) <= p BY <1>1, <1>2, <1>3, TopEnds, TopParts
  <1> QED BY <1>4, <1>7, <1>8, <1>9, <1>11, <1>12, OrdinaryStep

-----------------------------------------------------------------------------
(* Every action keeps the invariant                                        *)

LEMMA PendingParts ==
    ASSUME BodyInv
    PROVE  /\ fallthrough \in Seq(Nat) /\ Mine(fallthrough) /\ Mine(Top.held)
           /\ <<>> \in Seq(Nat) /\ Mine(<<>>) /\ HoldsNothing(Top)
           /\ Top.held \in Seq(Nat)
  <1>1. FramesShaped /\ SwitchesTyped BY BodyParts
  <1>2. PICK at \in [DOMAIN switches -> DOMAIN frames] : SwitchesFramed(at) /\ AnnotationsPlaced(at)
    BY BodyParts
  <1>3. fallthrough \in Seq(Nat) BY <1>2 DEF AnnotationsPlaced
  <1>4. Mine(fallthrough) /\ Mine(Top.held) BY <1>1, <1>2, TopHolds
  <1>5. <<>> \in Seq(Nat) /\ RangeOf(<<>>) = {} BY <1>3, RangeProperties
  <1>6. Mine(<<>>) BY <1>5 DEF Mine
  <1>7. HoldsNothing(Top) BY <1>1, TopParts DEF HoldsNothing, FramesShaped, Top
  <1>8. Top.held \in Seq(Nat) BY <1>1, TopParts
  <1> QED BY <1>3, <1>4, <1>5, <1>6, <1>7, <1>8

LEMMA SwitchesUnchanged ==
    ASSUME BodyInv, switches' = switches, switch_count' = switch_count
    PROVE  SwitchesSame
  <1>1. SwitchesTyped BY BodyParts
  <1>2. SwitchesTyped' BY <1>1 DEF SwitchesTyped
  <1>3. \A m \in DOMAIN switches : SameSwitch(switches[m], switches'[m]) BY DEF SameSwitch
  <1> QED BY <1>2, <1>3, Zenon DEF SwitchesSame

LEMMA SteadyUnchanged ==
    ASSUME BodyInv, job' = job, expression_parents' = expression_parents,
           active_expression' = active_expression, switches' = switches, switch_count' = switch_count,
           fallthrough' = fallthrough \/ fallthrough' = <<>>
    PROVE  Steady
  BY SwitchesUnchanged, PendingParts DEF Steady

LEMMA BeginParts ==
    ASSUME NEW kind, NEW quiet, Begin(kind, quiet)
    PROVE  ~SwitchOperand(Top) /\ (kind \notin Quiet /\ ~quiet => fallthrough = <<>>)
  BY DEF Begin, Due, SwitchOperand, require_no_fallthrough

\* Where no statement is due, an operand has nothing pending.
LEMMA TopOperand ==
    ASSUME BodyInv, SwitchOperand(Top)
    PROVE  fallthrough = <<>>
  <1>1. FramesShaped /\ OperandsClear BY BodyParts
  <1>2. PICK n : n = Len(frames) OBVIOUS
  <1>3. n \in 1 .. Len(frames) BY <1>1, <1>2, TopParts
  <1> QED BY <1>1, <1>2, <1>3, BelowTop DEF Top

LEMMA PlainKeeps ==
    ASSUME BodyInv,
           Empty \/ Plain \/ Break \/ Continue \/ (\E l \in Labels : Goto(l)) \/ EndBody \/ Fail \/ Done
             \/ UNCHANGED vars
    PROVE  BodyInv'
  <1>1. /\ frames' = frames \/ frames' = Taken
        /\ scopes' = scopes /\ vm_parents' = vm_parents /\ job' = job
        /\ expression_parents' = expression_parents /\ active_expression' = active_expression
        /\ switches' = switches /\ switch_count' = switch_count /\ fallthrough' = fallthrough
    BY Zenon DEF Empty, Plain, Break, Continue, Goto, EndBody, Fail, Done, vars, scopeVars, controlVars
  <1>2. Steady BY <1>1, SteadyUnchanged, Zenon
  <1>3. SwitchOperand(Top) => fallthrough' = <<>> BY <1>1, TopOperand, Zenon
  <1> QED BY <1>1, <1>2, <1>3, RestStep, Zenon

LEMMA InnermostParts ==
    ASSUME BodyInv, switches # <<>>
    PROVE  /\ Len(switches) \in DOMAIN switches /\ Innermost \in SwitchSet /\ Innermost.offset \in Nat
           /\ Innermost.signed \in BOOLEAN /\ RangesApart(Innermost.ranges, Innermost.signed)
  <1>1. SwitchesTyped BY BodyParts
  <1>2. Len(switches) \in Nat \ {0} /\ DOMAIN switches = 1 .. Len(switches) BY <1>1, SwitchParts
  <1>3. Len(switches) \in DOMAIN switches BY ONLY <1>2
  <1>4. Innermost \in SwitchSet /\ Innermost.offset \in Nat /\ Innermost.signed \in BOOLEAN
    BY <1>1, <1>3, SwitchParts DEF Innermost
  <1>5. RangesApart(Innermost.ranges, Innermost.signed) BY <1>1, <1>3, Zenon DEF SwitchesTyped, Innermost
  <1> QED BY <1>3, <1>4, <1>5

LEMMA FallthroughKeeps ==
    ASSUME BodyInv, Fallthrough
    PROVE  BodyInv'
  <1>1. /\ frames' = Taken
        /\ scopes' = scopes /\ vm_parents' = vm_parents /\ job' = job
        /\ expression_parents' = expression_parents /\ active_expression' = active_expression
        /\ switches' = switches /\ switch_count' = switch_count
        /\ switches # <<>> /\ fallthrough = <<>> /\ fallthrough' = Append(fallthrough, Innermost.offset)
    BY Zenon DEF Fallthrough, scopeVars, controlVars, require_no_fallthrough
  <1>2. Begin("fallthrough", FALSE) BY DEF Fallthrough
  <1>3. SwitchesSame BY <1>1, SwitchesUnchanged
  <1>4. Innermost.offset \in Nat BY <1>1, InnermostParts
  <1>9. PICK e \in Nat : e = Innermost.offset BY <1>4
  <1>12. PICK s : s = fallthrough OBVIOUS
  <1>10. s \in Seq(Nat) BY <1>12, PendingParts, Zenon
  <1>11. Append(s, e) \in Seq(Nat) /\ RangeOf(Append(s, e)) = RangeOf(s) \cup {e}
    BY ONLY <1>10, e \in Nat, RangeProperties
  <1>5. fallthrough' \in Seq(Nat) /\ RangeOf(fallthrough') = RangeOf(fallthrough) \cup {Innermost.offset}
    BY <1>1, <1>9, <1>11, <1>12, Zenon
  <1>6. Mine(fallthrough') BY <1>1, <1>5, PendingParts DEF Mine
  <1>7. Steady BY <1>1, <1>3, <1>5, <1>6 DEF Steady
  <1>8. ~SwitchOperand(Top) BY <1>2, BeginParts, Zenon
  <1> QED BY <1>1, <1>7, <1>8, RestStep, Zenon

LEMMA OpensScopes ==
    ASSUME BodyInv, NEW w \in Nat, scopes' = Opened(w), vm_parents' = vm_parents
    PROVE  Closes(Len(scopes)) /\ Len(scopes') = Len(scopes) + w
  <1>1. ScopesNumbered BY BodyParts
  <1>2. Closed(Len(scopes)) = scopes /\ Len(scopes) \in 0 .. Len(scopes) BY <1>1, ClosedAll
  <1>3. PICK p \in 0 .. Len(scopes) : p = Len(scopes) BY <1>2
  <1>4. scopes' = Closed(p) \o [i \in 1 .. w |-> EmptyScope] BY <1>2, <1>3, Zenon DEF Opened
  <1>5. Closes(p) /\ Len(scopes') = p + w BY <1>1, <1>4, OpenedCloses
  <1> QED BY <1>3, <1>5, Zenon

LEMMA KeepsScopes ==
    ASSUME BodyInv, scopes' = scopes, vm_parents' = vm_parents
    PROVE  Closes(Len(scopes)) /\ Len(scopes') = Len(scopes) + 0
  <1>1. ScopesNumbered BY BodyParts
  <1>2. Len(scopes) \in Nat BY <1>1, ScopeParts
  <1> QED BY <1>1, <1>2, UnchangedCloses

\* Kinds of frames that push as they are.
LEMMA NewFrame ==
    ASSUME BodyInv,
           NEW kind \in Kinds \ {"body", "statement_expression"}, NEW pc \in Places,
           kind = "switch" => pc = "operand"
    PROVE  /\ Frame(kind, pc) \in FrameSet /\ Common(Frame(kind, pc)) /\ HoldsNothing(Frame(kind, pc))
           /\ Mine(Frame(kind, pc).held) /\ Frame(kind, pc).base = Len(scopes)
           /\ Frame(kind, pc).kind = kind /\ Frame(kind, pc).pc = pc
  <1>1. ScopesNumbered BY BodyParts
  <1>2. kind \in Kinds /\ kind # "body" /\ kind # "statement_expression" OBVIOUS
  <1>3. Len(scopes) \in Nat BY <1>1, ScopeParts
  <1>4. /\ Frame(kind, pc) \in FrameSet
        /\ Frame(kind, pc).kind = kind /\ Frame(kind, pc).pc = pc /\ Frame(kind, pc).base = Len(scopes)
        /\ Frame(kind, pc).held = <<>> /\ Frame(kind, pc).expression = None
    BY <1>2, <1>3, FrameShape
  <1>5. PICK f : f = Frame(kind, pc) OBVIOUS
  <1>6. f.kind = kind /\ f.pc = pc /\ f.held = <<>> /\ f.expression = None BY <1>4, <1>5, Zenon
  <1>7. Common(f)
    <2>1. ~OpenSwitch(f) BY <1>6 DEF OpenSwitch
    <2> QED BY <2>1, <1>2, <1>6, Zenon DEF Common, Unnumbered
  <1>8. HoldsNothing(f) BY <1>6, Zenon DEF HoldsNothing
  <1>9. Mine(f.held) BY <1>6, PendingParts, Zenon
  <1> QED BY <1>4, <1>5, <1>7, <1>8, <1>9, Zenon

\* A statement with parts that begins no statement expression.
LEMMA StatementKeeps ==
    ASSUME BodyInv, Steady, ~SwitchOperand(Top),
           NEW kind \in Kinds \ {"body", "statement_expression"}, NEW pc \in Places,
           kind = "switch" => pc = "operand" /\ fallthrough' = <<>>,
           NEW w \in Nat, w = Width(Frame(kind, pc)), NEW g \in FrameSet,
           Common(g), HoldsNothing(g), Mine(g.held), g.base = Len(scopes), g.kind = kind, g.pc = pc,
           frames' = Append(Taken, g), vm_parents' = vm_parents,
           scopes' = Opened(w) \/ (w = 0 /\ scopes' = scopes)
    PROVE  BodyInv'
  <1>1. ScopesNumbered BY BodyParts
  <1>2. Len(scopes) \in Nat BY <1>1, ScopeParts
  <1>3. kind \in Kinds OBVIOUS
  <1>4. Frame(kind, pc).kind = kind /\ Frame(kind, pc).pc = pc BY <1>2, <1>3, FrameShape
  <1>5. Width(g) = w BY <1>4, Zenon DEF Width
  <1>6. Closes(Len(scopes)) /\ Len(scopes') = Len(scopes) + w BY OpensScopes, KeepsScopes
  <1>7. SwitchOperand(g) => fallthrough' = <<>> BY Zenon DEF SwitchOperand
  <1> QED BY <1>5, <1>6, <1>7, PushStep, Zenon

\* The same for a frame that is as Frame makes it.
LEMMA FrameKeeps ==
    ASSUME BodyInv, Steady, ~SwitchOperand(Top),
           NEW kind \in Kinds \ {"body", "statement_expression"}, NEW pc \in Places,
           kind = "switch" => pc = "operand" /\ fallthrough' = <<>>,
           NEW w \in Nat, w = Width(Frame(kind, pc)),
           frames' = Append(Taken, Frame(kind, pc)), vm_parents' = vm_parents,
           scopes' = Opened(w) \/ (w = 0 /\ scopes' = scopes)
    PROVE  BodyInv'
  <1>1. /\ Frame(kind, pc) \in FrameSet /\ Common(Frame(kind, pc)) /\ HoldsNothing(Frame(kind, pc))
        /\ Mine(Frame(kind, pc).held) /\ Frame(kind, pc).base = Len(scopes)
        /\ Frame(kind, pc).kind = kind /\ Frame(kind, pc).pc = pc
    BY NewFrame, Zenon
  <1>2. PICK g \in FrameSet : g = Frame(kind, pc) BY <1>1
  <1>3. Common(g) /\ HoldsNothing(g) /\ Mine(g.held) /\ g.base = Len(scopes) /\ g.kind = kind /\ g.pc = pc
    BY <1>1, <1>2, Zenon
  <1>4. frames' = Append(Taken, g) BY <1>2
  <1> QED BY <1>3, <1>4, StatementKeeps, Zenon

LEMMA FrameWidths ==
    ASSUME BodyInv
    PROVE  /\ \A kind \in {"label", "expression", "vm", "object", "typedef"} : \A pc \in Places :
                 0 = Width(Frame(kind, pc))
           /\ 1 = Width(Frame("compound", "items"))
           /\ \A kind \in {"if", "while", "for", "switch"} : \A pc \in {"operand", "init"} :
                 ControlScopes = Width(Frame(kind, pc))
           /\ 2 * ControlScopes = Width(Frame("do", "statement"))
           /\ ControlScopes \in Nat /\ 2 * ControlScopes \in Nat
  <1>1. ControlScopes \in Nat /\ 2 * ControlScopes \in Nat BY BodyParts, JobParts
  <1>2. \A kind, pc : Frame(kind, pc).kind = kind /\ Frame(kind, pc).pc = pc BY DEF Frame
  <1>3. ASSUME NEW kind \in {"label", "expression", "vm", "object", "typedef"}, NEW pc \in Places
        PROVE  0 = Width(Frame(kind, pc))
    BY <1>2 DEF Width, Controls
  <1>4. 1 = Width(Frame("compound", "items")) BY <1>2 DEF Width
  <1>5. ASSUME NEW kind \in {"if", "while", "for", "switch"}, NEW pc \in {"operand", "init"}
        PROVE  ControlScopes = Width(Frame(kind, pc))
    BY <1>2 DEF Width, Controls
  <1>6. 2 * ControlScopes = Width(Frame("do", "statement")) BY <1>2 DEF Width, Controls
  <1> QED BY <1>1, <1>3, <1>4, <1>5, <1>6

LEMMA LabelKeeps ==
    ASSUME BodyInv, NEW l \in Labels, NEW quiet \in BOOLEAN, Label(l, quiet)
    PROVE  BodyInv'
  <1>1. PICK e \in {"quiet", "other"} : e = IF quiet THEN "quiet" ELSE "other" OBVIOUS
  <1>2. PICK f : f = Frame("label", "statement") OBVIOUS
  <1>3. /\ frames' = Append(Taken, [f EXCEPT !.expects = e])
        /\ scopes' = scopes /\ vm_parents' = vm_parents /\ job' = job
        /\ expression_parents' = expression_parents /\ active_expression' = active_expression
        /\ switches' = switches /\ switch_count' = switch_count /\ fallthrough' = fallthrough
        /\ Begin("label", quiet)
    BY <1>1, <1>2, Zenon DEF Label, Push, scopeVars
  <1>4. "label" \in Kinds \ {"body", "statement_expression"} /\ "statement" \in Places /\ "label" # "switch"
    BY DEF Kinds, Places
  <1>5. /\ f \in FrameSet /\ Common(f) /\ HoldsNothing(f)
        /\ Mine(f.held) /\ f.base = Len(scopes) /\ f.kind = "label" /\ f.pc = "statement"
    BY <1>2, <1>4, NewFrame, ZenonT(60)
  <1>6. PICK g : g = [f EXCEPT !.expects = e] OBVIOUS
  <1>7. /\ g.kind = f.kind /\ g.pc = f.pc /\ g.held = f.held /\ g.base = f.base
        /\ g.expression = f.expression
    BY <1>5, <1>6 DEF FrameSet
  <1>8. g \in FrameSet
    <2>1. PICK S, N, P, K, E : S = Seq(Nat) /\ N = Numbers /\ P = Places /\ K = Kinds
                               /\ E = {"any", "quiet", "other"}
      OBVIOUS
    <2> DEFINE Set == [kind : K, pc : P, base : Nat, expects : E, held : S, previous : N, expression : N]
    <2>2. FrameSet = Set BY <2>1 DEF FrameSet
    <2>3. f \in Set /\ e \in E BY <1>5, <2>1, <2>2
    <2>4. g \in Set BY ONLY <2>3, <1>6
    <2> QED BY <2>2, <2>4, Zenon
  <1>9. Common(g) /\ HoldsNothing(g) /\ Mine(g.held)
    BY <1>5, <1>7, Zenon DEF Common, Unnumbered, OpenSwitch, HoldsNothing
  <1>10. Steady BY <1>3, SteadyUnchanged, Zenon
  <1>11. ~SwitchOperand(Top) BY <1>3, BeginParts, Zenon
  <1>12. 0 = Width(Frame("label", "statement")) /\ 0 \in Nat BY <1>4, FrameWidths
  <1>13. frames' = Append(Taken, g) /\ g.kind = "label" /\ g.pc = "statement" /\ g.base = Len(scopes)
    BY <1>3, <1>5, <1>6, <1>7, Zenon
  <1> QED BY <1>3, <1>4, <1>8, <1>9, <1>10, <1>11, <1>12, <1>13, StatementKeeps, Zenon

LEMMA CompoundKeeps ==
    ASSUME BodyInv, Compound
    PROVE  BodyInv'
  <1>1. /\ frames' = Append(Taken, Frame("compound", "items"))
        /\ scopes' = Opened(1) /\ vm_parents' = vm_parents /\ job' = job
        /\ expression_parents' = expression_parents /\ active_expression' = active_expression
        /\ switches' = switches /\ switch_count' = switch_count /\ fallthrough' = fallthrough
        /\ Begin("compound", FALSE)
    BY Zenon DEF Compound, Push, controlVars
  <1>2. "compound" \in Kinds \ {"body", "statement_expression"} /\ "items" \in Places /\ "compound" # "switch"
    BY DEF Kinds, Places
  <1>3. 1 \in Nat /\ 1 = Width(Frame("compound", "items")) BY FrameWidths
  <1>4. Steady BY <1>1, SteadyUnchanged, Zenon
  <1>5. ~SwitchOperand(Top) BY <1>1, BeginParts, Zenon
  <1> QED BY <1>1, <1>2, <1>3, <1>4, <1>5, FrameKeeps, Zenon

LEMMA ExpressionKeeps ==
    ASSUME BodyInv, Expression
    PROVE  BodyInv'
  <1>1. /\ frames' = Append(Taken, Frame("expression", "operand"))
        /\ scopes' = scopes /\ vm_parents' = vm_parents /\ job' = job
        /\ expression_parents' = expression_parents /\ active_expression' = active_expression
        /\ switches' = switches /\ switch_count' = switch_count /\ fallthrough' = fallthrough
        /\ Begin("expression", FALSE)
    BY Zenon DEF Expression, Push, controlVars, scopeVars
  <1>2. /\ "expression" \in Kinds \ {"body", "statement_expression"} /\ "operand" \in Places
        /\ "expression" # "switch"
    BY DEF Kinds, Places
  <1>3. 0 \in Nat /\ 0 = Width(Frame("expression", "operand")) BY <1>2, FrameWidths
  <1>4. Steady BY <1>1, SteadyUnchanged, Zenon
  <1>5. ~SwitchOperand(Top) BY <1>1, BeginParts, Zenon
  <1> QED BY <1>1, <1>2, <1>3, <1>4, <1>5, FrameKeeps, Zenon

LEMMA DeclareKeeps ==
    ASSUME BodyInv, NEW kind \in {"vm", "object", "typedef"}, Declare(kind)
    PROVE  BodyInv'
  <1>1. /\ frames' = Append(Taken, Frame(kind, "operand"))
        /\ scopes' = scopes /\ vm_parents' = vm_parents /\ job' = job
        /\ expression_parents' = expression_parents /\ active_expression' = active_expression
        /\ switches' = switches /\ switch_count' = switch_count /\ fallthrough' = fallthrough
        /\ Top.pc = "items" \/ Top.pc = "init"
    BY Zenon DEF Declare, Push, controlVars, scopeVars
  <1>2. /\ kind \in Kinds \ {"body", "statement_expression"} /\ "operand" \in Places
        /\ kind # "switch"
    BY DEF Kinds, Places
  <1>3. 0 \in Nat /\ 0 = Width(Frame(kind, "operand")) BY <1>2, FrameWidths
  <1>4. Steady BY <1>1, SteadyUnchanged, Zenon
  <1>5. ~SwitchOperand(Top) BY <1>1 DEF SwitchOperand
  <1> QED BY <1>1, <1>2, <1>3, <1>4, <1>5, FrameKeeps, Zenon

LEMMA IfKeeps ==
    ASSUME BodyInv, If
    PROVE  BodyInv'
  <1>1. /\ frames' = Append(Taken, Frame("if", "operand"))
        /\ scopes' = Opened(ControlScopes) /\ vm_parents' = vm_parents /\ job' = job
        /\ expression_parents' = expression_parents /\ active_expression' = active_expression
        /\ switches' = switches /\ switch_count' = switch_count /\ fallthrough' = fallthrough
        /\ Begin("if", FALSE)
    BY Zenon DEF If, Controlled, Push, controlVars
  <1>2. "if" \in Kinds \ {"body", "statement_expression"} /\ "operand" \in Places /\ "if" # "switch"
    BY DEF Kinds, Places
  <1>3. ControlScopes \in Nat /\ ControlScopes = Width(Frame("if", "operand")) BY FrameWidths
  <1>4. Steady BY <1>1, SteadyUnchanged, Zenon
  <1>5. ~SwitchOperand(Top) BY <1>1, BeginParts, Zenon
  <1> QED BY <1>1, <1>2, <1>3, <1>4, <1>5, FrameKeeps, Zenon

LEMMA WhileKeeps ==
    ASSUME BodyInv, NEW kind \in {"while", "for"}, While(kind)
    PROVE  BodyInv'
  <1>1. PICK pc \in {"operand", "init"} : pc = IF kind = "for" THEN "init" ELSE "operand" OBVIOUS
  <1>2. /\ frames' = Append(Taken, Frame(kind, pc))
        /\ scopes' = Opened(ControlScopes) /\ vm_parents' = vm_parents /\ job' = job
        /\ expression_parents' = expression_parents /\ active_expression' = active_expression
        /\ switches' = switches /\ switch_count' = switch_count /\ fallthrough' = fallthrough
        /\ Begin(kind, FALSE)
    BY <1>1, Zenon DEF While, Controlled, Push
  <1>3. kind \in Kinds \ {"body", "statement_expression"} /\ pc \in Places /\ kind # "switch"
    BY DEF Kinds, Places
  <1>4. ControlScopes \in Nat /\ ControlScopes = Width(Frame(kind, pc)) BY FrameWidths
  <1>5. Steady BY <1>2, SteadyUnchanged, Zenon
  <1>6. ~SwitchOperand(Top) BY <1>2, BeginParts, Zenon
  <1> QED BY <1>2, <1>3, <1>4, <1>5, <1>6, FrameKeeps, Zenon

LEMMA DoKeeps ==
    ASSUME BodyInv, Do
    PROVE  BodyInv'
  <1>1. /\ frames' = Append(Taken, Frame("do", "statement"))
        /\ scopes' = Opened(2 * ControlScopes) /\ vm_parents' = vm_parents /\ job' = job
        /\ expression_parents' = expression_parents /\ active_expression' = active_expression
        /\ switches' = switches /\ switch_count' = switch_count /\ fallthrough' = fallthrough
        /\ Begin("do", FALSE)
    BY Zenon DEF Do, Push
  <1>2. "do" \in Kinds \ {"body", "statement_expression"} /\ "statement" \in Places /\ "do" # "switch"
    BY DEF Kinds, Places
  <1>3. 2 * ControlScopes \in Nat /\ 2 * ControlScopes = Width(Frame("do", "statement")) BY FrameWidths
  <1>4. Steady BY <1>1, SteadyUnchanged, Zenon
  <1>5. ~SwitchOperand(Top) BY <1>1, BeginParts, Zenon
  <1> QED BY <1>1, <1>2, <1>3, <1>4, <1>5, FrameKeeps, Zenon

LEMMA SwitchKeeps ==
    ASSUME BodyInv, Switch
    PROVE  BodyInv'
  <1>1. /\ frames' = Append(Taken, Frame("switch", "operand"))
        /\ scopes' = Opened(ControlScopes) /\ vm_parents' = vm_parents /\ job' = job
        /\ expression_parents' = expression_parents /\ active_expression' = active_expression
        /\ switches' = switches /\ switch_count' = switch_count /\ fallthrough' = fallthrough
        /\ Begin("switch", FALSE)
    BY Zenon DEF Switch, Controlled, Push, controlVars
  <1>2. "switch" \in Kinds \ {"body", "statement_expression"} /\ "operand" \in Places
    BY DEF Kinds, Places
  <1>3. ControlScopes \in Nat /\ ControlScopes = Width(Frame("switch", "operand")) BY FrameWidths
  <1>4. Steady BY <1>1, SteadyUnchanged, Zenon
  <1>5. ~SwitchOperand(Top) BY <1>1, BeginParts, Zenon
  <1>6. fallthrough' = <<>>
    <2>1. "switch" \notin Quiet BY DEF Quiet
    <2> QED BY <1>1, <2>1, BeginParts, Zenon
  <1> QED BY <1>1, <1>2, <1>3, <1>4, <1>5, <1>6, FrameKeeps, Zenon

-----------------------------------------------------------------------------
(* Actions that leave a frame                                              *)

\* Kinds whose frame is popped by its own action.
LEMMA CommonTop ==
    ASSUME BodyInv, Top.kind \notin {"body", "statement_expression", "switch"}
    PROVE  Common(Top)
  <1>1. /\ FramesShaped /\ ExpressionsNumbered BY BodyParts
  <1>2. Top.kind # "body" /\ Top.kind # "statement_expression" /\ ~OpenSwitch(Top)
    BY DEF OpenSwitch
  <1>3. Top.expression = None
    <2>1. Len(frames) \in DOMAIN frames BY <1>1, TopParts
    <2> QED BY <1>1, <1>2, <2>1, Zenon DEF ExpressionsNumbered, Top
  <1> QED BY <1>2, <1>3, Zenon DEF Common, Unnumbered

LEMMA ClosesTop ==
    ASSUME BodyInv, Top.kind # "body", scopes' = Closed(Top.base), vm_parents' = vm_parents
    PROVE  Closes(Top.base) /\ Len(scopes') = Top.base
  <1>1. job \in Jobs /\ FramesShaped /\ ScopesFramed /\ ScopesNumbered BY BodyParts
  <1>2. Top.base \in Nat /\ Width(Top) \in Nat /\ Len(scopes) = Top.base + Width(Top)
    BY <1>1, TopParts, WidthIsNat DEF ScopesFramed
  <1>3. Top.base \in 0 .. Len(scopes) BY <1>2
  <1>4. PICK p \in 0 .. Len(scopes) : p = Top.base BY <1>3
  <1>5. scopes' = Closed(p) BY <1>4
  <1> QED BY <1>1, <1>4, <1>5, ClosedCloses, Zenon

\* A frame without scopes closes none.
LEMMA NarrowTop ==
    ASSUME BodyInv, Top.kind \in {"label", "expression", "vm", "object", "typedef"}
    PROVE  scopes = Closed(Top.base)
  <1>1. job \in Jobs /\ FramesShaped /\ ScopesFramed /\ ScopesNumbered BY BodyParts
  <1>2. Width(Top) = 0 BY DEF Width, Controls
  <1>3. Len(scopes) = Top.base BY <1>1, <1>2, TopParts DEF ScopesFramed
  <1> QED BY <1>1, <1>3, ClosedAll, Zenon

LEMMA EndKeeps ==
    ASSUME BodyInv, EndLabel \/ EndOperands
    PROVE  BodyInv'
  <1>1. /\ frames' = Outer(frames)
        /\ scopes' = scopes /\ vm_parents' = vm_parents /\ job' = job
        /\ expression_parents' = expression_parents /\ active_expression' = active_expression
        /\ switches' = switches /\ switch_count' = switch_count /\ fallthrough' = fallthrough
        /\ Top.kind \in {"label", "expression", "vm", "object", "typedef"}
    BY DEF EndLabel, EndOperands, Pop, controlVars, scopeVars
  <1>2. Top.kind \notin {"body", "statement_expression", "switch"} /\ Top.kind # "body" BY <1>1
  <1>3. Common(Top) BY <1>2, CommonTop
  <1>4. scopes' = Closed(Top.base) BY <1>1, NarrowTop
  <1>5. Closes(Top.base) /\ Len(scopes') = Top.base BY <1>1, <1>2, <1>4, ClosesTop, Zenon
  <1>6. Steady BY <1>1, SteadyUnchanged, Zenon
  <1> QED BY <1>1, <1>3, <1>5, <1>6, PopStep, Zenon

LEMMA EndBlockKeeps ==
    ASSUME BodyInv, EndCompound \/ EndLoop \/ EndDo
    PROVE  BodyInv'
  <1>1. /\ frames' = Outer(frames)
        /\ scopes' = Closed(Top.base) /\ vm_parents' = vm_parents /\ job' = job
        /\ expression_parents' = expression_parents /\ active_expression' = active_expression
        /\ switches' = switches /\ switch_count' = switch_count /\ fallthrough' = fallthrough
        /\ Top.kind \in {"compound", "while", "for", "do"}
    BY DEF EndCompound, EndLoop, EndDo, Pop, controlVars
  <1>2. Top.kind \notin {"body", "statement_expression", "switch"} /\ Top.kind # "body" BY <1>1
  <1>3. Common(Top) BY <1>2, CommonTop
  <1>4. Closes(Top.base) /\ Len(scopes') = Top.base BY <1>1, <1>2, ClosesTop, Zenon
  <1>5. Steady BY <1>1, SteadyUnchanged, Zenon
  <1> QED BY <1>1, <1>3, <1>4, <1>5, PopStep, Zenon

\* Annotations of both branches.
LEMMA EndIfKeeps ==
    ASSUME BodyInv, EndIf
    PROVE  BodyInv'
  <1>1. /\ frames' = Outer(frames)
        /\ scopes' = Closed(Top.base) /\ vm_parents' = vm_parents /\ job' = job
        /\ expression_parents' = expression_parents /\ active_expression' = active_expression
        /\ switches' = switches /\ switch_count' = switch_count
        /\ fallthrough' = Top.held \o fallthrough
        /\ Top.kind \in {"if", "else"}
    BY DEF EndIf, Pop, controlVars
  <1>2. Top.kind \notin {"body", "statement_expression", "switch"} /\ Top.kind # "body" BY <1>1
  <1>3. Common(Top) BY <1>2, CommonTop
  <1>4. Closes(Top.base) /\ Len(scopes') = Top.base BY <1>1, <1>2, ClosesTop, Zenon
  <1>5. fallthrough' \in Seq(Nat) /\ Mine(fallthrough')
    <2>1. PICK s, t : s = Top.held /\ t = fallthrough OBVIOUS
    <2>2. s \in Seq(Nat) /\ t \in Seq(Nat) /\ Mine(s) /\ Mine(t) BY <2>1, PendingParts, Zenon
    <2>3. s \o t \in Seq(Nat) /\ RangeOf(s \o t) = RangeOf(s) \cup RangeOf(t)
      BY <2>2, RangeProperties
    <2>4. Mine(s \o t) BY <2>2, <2>3 DEF Mine
    <2> QED BY <1>1, <2>1, <2>3, <2>4, Zenon
  <1>6. Steady BY <1>1, <1>5, SwitchesUnchanged, Zenon DEF Steady
  <1> QED BY <1>1, <1>3, <1>4, <1>6, PopStep, Zenon

-----------------------------------------------------------------------------
(* Actions that go on in a frame                                           *)

\* The frame after a step, and the scopes it had.
LEMMA StepFrame ==
    ASSUME BodyInv, NEW pc \in Places, Step(pc),
           Top.kind \notin {"body", "statement_expression", "switch"}
    PROVE  \E g \in FrameSet :
              /\ Common(g) /\ HoldsNothing(g) /\ Mine(g.held) /\ g.base = Top.base
              /\ g.kind = Top.kind /\ g.pc = pc
              /\ frames' = [frames EXCEPT ![Len(frames)] = g] /\ ~SwitchOperand(g)
  <1>1. FramesShaped BY BodyParts
  <1>2. PICK t \in FrameSet : t = Top BY <1>1, TopParts
  <1>3. PICK g : g = [t EXCEPT !.pc = pc] OBVIOUS
  <1>4. g \in FrameSet BY <1>3, PcChanges, Zenon
  <1>5. /\ g.kind = t.kind /\ g.pc = pc /\ g.base = t.base /\ g.held = t.held /\ g.expression = t.expression
    BY <1>3 DEF FrameSet
  <1>6. Common(t) /\ HoldsNothing(t) /\ Mine(t.held) BY <1>2, CommonTop, PendingParts, Zenon
  <1>7. t.kind # "switch" BY <1>2
  <1>8. Common(g) /\ ~SwitchOperand(g)
    BY <1>5, <1>6, <1>7, Zenon DEF Common, Unnumbered, OpenSwitch, SwitchOperand
  <1>9. HoldsNothing(g) /\ Mine(g.held) BY <1>5, <1>6, Zenon DEF HoldsNothing
  <1>10. frames' = [frames EXCEPT ![Len(frames)] = g] BY <1>2, <1>3 DEF Step, Top
  <1> QED BY <1>2, <1>4, <1>5, <1>8, <1>9, <1>10, Zenon

LEMMA TopWidth ==
    ASSUME BodyInv
    PROVE  /\ Top.base \in Nat /\ Len(scopes) = Top.base + Width(Top) /\ Len(scopes) \in Nat
           /\ ControlScopes \in {0, 1} /\ Top.base <= Len(scopes)
  <1>1. job \in Jobs /\ FramesShaped /\ ScopesFramed /\ ScopesNumbered BY BodyParts
  <1>2. Top.base \in Nat /\ Width(Top) \in Nat /\ Len(scopes) = Top.base + Width(Top)
    BY <1>1, TopParts, WidthIsNat DEF ScopesFramed
  <1> QED BY <1>1, <1>2, JobParts, ScopeParts

\* A step of a statement that is not the operand of a switch.
LEMMA StepKeeps ==
    ASSUME BodyInv, Steady, NEW pc \in Places, Step(pc),
           Top.kind \notin {"body", "statement_expression", "switch"},
           NEW p \in Nat, Top.base <= p, p <= Len(scopes), LiveMoves(p), ScopesNumbered',
           \A g \in FrameSet : g.kind = Top.kind /\ g.pc = pc => Len(scopes') = Top.base + Width(g)
    PROVE  BodyInv'
  <1>1. PICK g \in FrameSet :
              /\ Common(g) /\ HoldsNothing(g) /\ Mine(g.held) /\ g.base = Top.base
              /\ g.kind = Top.kind /\ g.pc = pc
              /\ frames' = [frames EXCEPT ![Len(frames)] = g] /\ ~SwitchOperand(g)
    BY StepFrame, Zenon
  <1>2. Len(scopes') = Top.base + Width(g) BY <1>1, Zenon
  <1>3. Common(Top) BY CommonTop, Zenon
  <1> QED BY <1>1, <1>2, <1>3, TurnStep, Zenon

LEMMA BranchKeeps ==
    ASSUME BodyInv, Then \/ LoopBody
    PROVE  BodyInv'
  <1>1. /\ Step("statement") /\ Top.kind \in {"if", "while", "for"} /\ Top.pc = "operand"
        /\ scopes' = Opened(ControlScopes) /\ vm_parents' = vm_parents /\ job' = job
        /\ expression_parents' = expression_parents /\ active_expression' = active_expression
        /\ switches' = switches /\ switch_count' = switch_count /\ fallthrough' = fallthrough
    BY DEF Then, LoopBody, SubScopes, controlVars
  <1>2. Top.kind \notin {"body", "statement_expression", "switch"} /\ "statement" \in Places
    BY <1>1 DEF Places
  <1>3. ControlScopes \in Nat BY FrameWidths
  <1>4. Closes(Len(scopes)) /\ Len(scopes') = Len(scopes) + ControlScopes
    BY <1>1, <1>3, OpensScopes
  <1>5. ScopesNumbered' /\ LiveMoves(Len(scopes)) BY <1>4, BodyParts, ClosesNumbered
  <1>6. Width(Top) = ControlScopes BY <1>1 DEF Width, Controls
  <1>7. /\ Len(scopes) \in Nat /\ Top.base <= Len(scopes) /\ Len(scopes) <= Len(scopes)
        /\ Len(scopes') = Top.base + 2 * ControlScopes
    <2>1. /\ Top.base \in Nat /\ Len(scopes) \in Nat /\ Top.base <= Len(scopes)
          /\ Len(scopes) = Top.base + ControlScopes
      BY <1>6, TopWidth
    <2> QED BY ONLY <2>1, <1>3, <1>4
  <1>8. \A g \in FrameSet : g.kind = Top.kind /\ g.pc = "statement" => Len(scopes') = Top.base + Width(g)
    BY <1>1, <1>7 DEF Width, Controls
  <1>9. Steady BY <1>1, SteadyUnchanged, Zenon
  <1> QED BY <1>1, <1>2, <1>5, <1>7, <1>8, <1>9, StepKeeps, Zenon

LEMMA ForClausesKeeps ==
    ASSUME BodyInv, ForClauses
    PROVE  BodyInv'
  <1>1. /\ Step("operand") /\ Top.kind = "for" /\ Top.pc = "init"
        /\ scopes' = scopes /\ vm_parents' = vm_parents /\ job' = job
        /\ expression_parents' = expression_parents /\ active_expression' = active_expression
        /\ switches' = switches /\ switch_count' = switch_count /\ fallthrough' = fallthrough
    BY DEF ForClauses, scopeVars
  <1>2. Top.kind \notin {"body", "statement_expression", "switch"} /\ "operand" \in Places
    BY <1>1 DEF Places
  <1>3. Closes(Len(scopes)) BY <1>1, KeepsScopes
  <1>4. ScopesNumbered' /\ LiveMoves(Len(scopes)) BY <1>3, BodyParts, ClosesNumbered
  <1>5. Width(Top) = ControlScopes BY <1>1 DEF Width, Controls
  <1>6. /\ Len(scopes) \in Nat /\ Top.base <= Len(scopes) /\ Len(scopes) <= Len(scopes)
        /\ Len(scopes') = Top.base + ControlScopes
    BY <1>1, <1>5, TopWidth
  <1>7. \A g \in FrameSet : g.kind = Top.kind /\ g.pc = "operand" => Len(scopes') = Top.base + Width(g)
    BY <1>1, <1>6 DEF Width, Controls
  <1>8. Steady BY <1>1, SteadyUnchanged, Zenon
  <1> QED BY <1>1, <1>2, <1>4, <1>6, <1>7, <1>8, StepKeeps, Zenon

LEMMA DoConditionKeeps ==
    ASSUME BodyInv, DoCondition
    PROVE  BodyInv'
  <1>1. /\ Step("operand") /\ Top.kind = "do" /\ Top.pc = "after"
        /\ scopes' = Closed(Top.base + ControlScopes) /\ vm_parents' = vm_parents /\ job' = job
        /\ expression_parents' = expression_parents /\ active_expression' = active_expression
        /\ switches' = switches /\ switch_count' = switch_count /\ fallthrough' = fallthrough
    BY DEF DoCondition, ControlOnly
  <1>2. Top.kind \notin {"body", "statement_expression", "switch"} /\ "operand" \in Places
    BY <1>1 DEF Places
  <1>3. Width(Top) = 2 * ControlScopes BY <1>1 DEF Width, Controls
  <1>4. PICK p : p = Top.base + ControlScopes OBVIOUS
  <1>5. p \in Nat /\ Top.base <= p /\ p <= Len(scopes) /\ p \in 0 .. Len(scopes)
    <2>1. /\ Top.base \in Nat /\ Len(scopes) \in Nat /\ ControlScopes \in {0, 1}
          /\ Len(scopes) = Top.base + 2 * ControlScopes
      BY <1>3, TopWidth
    <2> QED BY ONLY <2>1, <1>4
  <1>6. scopes' = Closed(p) BY <1>1, <1>4
  <1>7. ScopesNumbered BY BodyParts
  <1>8. Closes(p) /\ Len(scopes') = p BY <1>1, <1>5, <1>6, <1>7, ClosedCloses
  <1>9. ScopesNumbered' /\ LiveMoves(p) BY <1>7, <1>8, ClosesNumbered
  <1>10. \A g \in FrameSet : g.kind = Top.kind /\ g.pc = "operand" => Len(scopes') = Top.base + Width(g)
    BY <1>1, <1>4, <1>8 DEF Width, Controls
  <1>11. Steady BY <1>1, SteadyUnchanged, Zenon
  <1> QED BY <1>1, <1>2, <1>5, <1>9, <1>10, <1>11, StepKeeps, Zenon

LEMMA DeclaredKeeps ==
    ASSUME BodyInv, Declared
    PROVE  BodyInv'
  <1>1. /\ Step("initializer") /\ Top.kind \in {"vm", "object", "typedef"}
        /\ job' = job
        /\ expression_parents' = expression_parents /\ active_expression' = active_expression
        /\ switches' = switches /\ switch_count' = switch_count /\ fallthrough' = fallthrough
        /\ declare_variably_modified \/ (scopes' = scopes /\ vm_parents' = vm_parents)
    BY DEF Declared, controlVars
  <1>2. Top.kind \notin {"body", "statement_expression", "switch"} /\ "initializer" \in Places
    BY <1>1 DEF Places
  <1>3. job \in Jobs /\ ScopesNumbered /\ FramesShaped /\ ScopesFramed BY BodyParts
  <1>4. Width(Top) = 0 BY <1>1 DEF Width, Controls
  <1>5. Len(scopes) = Top.base /\ Top.base \in Nat BY <1>4, TopWidth
  <1>6. ScopesNumbered' /\ LiveMoves(Len(scopes)) /\ Len(scopes') = Len(scopes)
    <2>1. CASE declare_variably_modified
      <3>1. active_variably_modified \in Numbers BY <1>3, ActiveIsSummit
      <3>2. Len(scopes) > 0
        <4>1. PICK n : n = Len(frames) - 1 OBVIOUS
        <4>2. n \in 1 .. Len(frames) - 1 /\ End(n) = Top.base /\ n + 1 = Len(frames)
          <5>1. Len(frames) - 1 \in DOMAIN frames /\ End(Len(frames) - 1) = Top.base
            BY <1>2, <1>3, TopEnds
          <5>2. DOMAIN frames = 1 .. Len(frames) /\ Len(frames) \in Nat BY <1>3, TopParts
          <5> QED BY <4>1, <5>1, <5>2
        <4>3. 1 \in DOMAIN frames /\ n \in DOMAIN frames /\ 1 <= n
          BY <1>3, <4>2, TopParts
        <4>4. End(1) <= End(n) /\ End(1) \in Nat /\ End(n) \in Nat BY <1>3, <4>3, EndsGrow
        <4>5. End(1) = 1
          <5>1. frames[1].kind = "body" /\ frames[1].base = 0
            BY <1>3, <4>3 DEF FramesShaped, ScopesFramed
          <5> QED BY <5>1 DEF End, Width
        <4> QED BY <1>5, <4>2, <4>4, <4>5
      <3> QED BY <1>3, <2>1, <3>1, <3>2, DeclaresNumbered
    <2>2. CASE scopes' = scopes /\ vm_parents' = vm_parents
      BY <2>2, <1>3, UnchangedCloses, ClosesNumbered
    <2> QED BY <1>1, <2>1, <2>2
  <1>7. \A g \in FrameSet : g.kind = Top.kind /\ g.pc = "initializer" => Len(scopes') = Top.base + Width(g)
    BY <1>1, <1>5, <1>6 DEF Width, Controls
  <1>8. Steady BY <1>1, SteadyUnchanged, Zenon
  <1>9. Len(scopes) \in Nat /\ Top.base <= Len(scopes) /\ Len(scopes) <= Len(scopes) BY <1>5
  <1> QED BY <1>1, <1>2, <1>6, <1>7, <1>8, <1>9, StepKeeps, Zenon

LEMMA ElseKeeps ==
    ASSUME BodyInv, Else
    PROVE  BodyInv'
  <1>1. /\ frames' = [frames EXCEPT ![Len(frames)] =
                         [@ EXCEPT !.kind = "else", !.pc = "statement", !.held = fallthrough]]
        /\ Top.kind = "if" /\ Top.pc = "after"
        /\ scopes' = Closed(Top.base + ControlScopes) \o [i \in 1 .. ControlScopes |-> EmptyScope]
        /\ vm_parents' = vm_parents /\ job' = job
        /\ expression_parents' = expression_parents /\ active_expression' = active_expression
        /\ switches' = switches /\ switch_count' = switch_count /\ fallthrough' = <<>>
    BY DEF Else, ControlOnly, controlVars
  <1>2. Top.kind \notin {"body", "statement_expression", "switch"} BY <1>1
  <1>3. FramesShaped /\ ScopesNumbered BY BodyParts
  <1>4. PICK h \in Seq(Nat) : h = fallthrough BY PendingParts
  <1>5. PICK t \in FrameSet : t = Top BY <1>3, TopParts
  <1>6. PICK g : g = [t EXCEPT !.kind = "else", !.pc = "statement", !.held = h] OBVIOUS
  <1>7. "else" \in Kinds /\ "statement" \in Places BY DEF Kinds, Places
  <1>8. g \in FrameSet BY <1>6, <1>7, FieldsChange, Zenon
  <1>9. g.kind = "else" /\ g.pc = "statement" /\ g.base = t.base /\ g.held = h /\ g.expression = t.expression
    BY <1>6 DEF FrameSet
  <1>10. Common(t) BY <1>2, <1>5, CommonTop, Zenon
  <1>11. Common(g) /\ ~SwitchOperand(g)
    BY <1>9, <1>10, Zenon DEF Common, Unnumbered, OpenSwitch, SwitchOperand
  <1>12. HoldsNothing(g)
    <2>1. "else" \in {"statement_expression", "else"} OBVIOUS
    <2> QED BY <2>1, <1>9, Zenon DEF HoldsNothing
  <1>13. Mine(g.held) BY <1>4, <1>9, PendingParts, Zenon
  <1>14. frames' = [frames EXCEPT ![Len(frames)] = g] BY <1>1, <1>4, <1>5, <1>6 DEF Top
  <1>15. Width(Top) = 2 * ControlScopes BY <1>1 DEF Width, Controls
  <1>16. PICK p : p = Top.base + ControlScopes OBVIOUS
  <1>17. /\ p \in Nat /\ Top.base <= p /\ p <= Len(scopes) /\ p \in 0 .. Len(scopes)
         /\ ControlScopes \in Nat /\ p + ControlScopes = Top.base + 2 * ControlScopes
    <2>1. /\ Top.base \in Nat /\ Len(scopes) \in Nat /\ ControlScopes \in {0, 1}
          /\ Len(scopes) = Top.base + 2 * ControlScopes
      BY <1>15, TopWidth
    <2> QED BY ONLY <2>1, <1>16
  <1>18. scopes' = Closed(p) \o [i \in 1 .. ControlScopes |-> EmptyScope] BY <1>1, <1>16
  <1>19. Closes(p) /\ Len(scopes') = p + ControlScopes BY <1>1, <1>3, <1>17, <1>18, OpenedCloses
  <1>20. ScopesNumbered' /\ LiveMoves(p) BY <1>3, <1>19, ClosesNumbered
  <1>21. Len(scopes') = Top.base + Width(g)
    <2>1. Width(g) = 2 * ControlScopes BY <1>9 DEF Width, Controls
    <2> QED BY <2>1, <1>17, <1>19
  <1>22. Steady BY <1>1, SteadyUnchanged, Zenon
  <1>23. g.base = Top.base /\ Common(Top) BY <1>5, <1>9, <1>10, Zenon
  <1> QED BY <1>8, <1>11, <1>12, <1>13, <1>14, <1>17, <1>20, <1>21, <1>22, <1>23, TurnStep, Zenon

-----------------------------------------------------------------------------
(* Statement expressions                                                   *)

LEMMA StatementExpressionKeeps ==
    ASSUME BodyInv, statement_expression
    PROVE  BodyInv'
  <1>1. /\ job \in Jobs /\ FramesShaped /\ ScopesFramed /\ ScopesNumbered /\ ExpressionsNumbered
    BY BodyParts
  <1>2. PICK n : n = Len(frames) OBVIOUS
  <1>3. PICK id : id = Len(expression_parents) + 1 OBVIOUS
  <1>4. PICK f : f = Frame("statement_expression", "items") OBVIOUS
  <1>5. PICK a : a = active_expression OBVIOUS
  <1>6. PICK h : h = fallthrough OBVIOUS
  <1>7. PICK g : g = [f EXCEPT !.previous = a, !.expression = id, !.held = h] OBVIOUS
  <1>8. /\ frames' = Append(frames, g) /\ active_expression' = id
        /\ expression_parents' = Append(expression_parents, active_expression)
        /\ fallthrough' = <<>> /\ scopes' = Opened(1) /\ job' = job /\ vm_parents' = vm_parents
        /\ switches' = switches /\ switch_count' = switch_count
        /\ Top.pc \in {"operand", "initializer", "init"}
    BY <1>3, <1>4, <1>5, <1>6, <1>7 DEF statement_expression, controlVars
  <1>9. "statement_expression" \in Kinds /\ "items" \in Places BY DEF Kinds, Places
  <1>10. Len(scopes) \in Nat BY <1>1, ScopeParts
  <1>11. /\ f \in FrameSet /\ f.kind = "statement_expression" /\ f.pc = "items" /\ f.base = Len(scopes)
    BY <1>4, <1>9, <1>10, FrameShape
  <1>12. a \in Numbers /\ Len(expression_parents) \in Nat BY <1>1, <1>5, InsideParts
  <1>13. id \in Numbers BY <1>3, <1>12 DEF Numbers
  <1>14. h \in Seq(Nat) /\ Mine(h) BY <1>6, PendingParts, Zenon
  <1>15. /\ g.kind = f.kind /\ g.pc = f.pc /\ g.base = f.base
         /\ g.previous = a /\ g.expression = id /\ g.held = h
    BY <1>7, <1>11 DEF FrameSet
  <1>16. g \in FrameSet
    <2>1. PICK S, N, P, K, E : S = Seq(Nat) /\ N = Numbers /\ P = Places /\ K = Kinds
                               /\ E = {"any", "quiet", "other"}
      OBVIOUS
    <2> DEFINE Set == [kind : K, pc : P, base : Nat, expects : E, held : S, previous : N, expression : N]
    <2>2. FrameSet = Set BY <2>1 DEF FrameSet
    <2>3. f \in Set /\ a \in N /\ id \in N /\ h \in S BY <1>11, <1>12, <1>13, <1>14, <2>1, <2>2, Zenon
    <2>4. g \in Set BY ONLY <2>3, <1>7
    <2> QED BY <2>2, <2>4, Zenon
  <1>17. Taken = frames BY <1>8 DEF Taken
  <1>18. g.kind = "statement_expression" /\ g.kind # "body" /\ g.base = Len(scopes) BY <1>11, <1>15
  <1>19. HoldsNothing(g) BY <1>18 DEF HoldsNothing
  <1>20. Width(g) = 1 BY <1>18 DEF Width
  <1>21. Closes(Len(scopes)) /\ Len(scopes') = Len(scopes) + Width(g)
    BY <1>8, <1>20, OpensScopes
  <1>22. frames' = Append(Taken, g) BY <1>8, <1>17
  <1>23. /\ Moves(n) /\ Len(frames') = n + 1 /\ frames'[n + 1] = g
         /\ SwitchOperand(frames'[n]) = SwitchOperand(Top)
    BY <1>1, <1>2, <1>8, <1>16, <1>18, <1>19, <1>21, <1>22, PushMoves
  <1>24. ScopesNumbered' /\ LiveMoves(Len(scopes)) BY <1>1, <1>21, ClosesNumbered
  <1>25. EntersExpression(n, id)
    BY <1>2, <1>3, <1>5, <1>8, <1>15, <1>18, <1>23, Zenon DEF EntersExpression
  <1>26. ExpressionsNumbered' BY <1>1, <1>23, <1>25, ExpressionEntered
  <1>27. SwitchesSame BY <1>8, SwitchesUnchanged
  <1>28. ~OpenSwitch(g) BY <1>18 DEF OpenSwitch
  <1>29. SwitchesTyped' /\ SwitchesStay(n) BY <1>2, <1>23, <1>27, <1>28, Zenon DEF SwitchesStay, SwitchesSame
  <1>30. <<>> \in Seq(Nat) /\ Mine(<<>>) BY PendingParts
  <1>31. AnnotationsMove(n) BY <1>8, <1>14, <1>15, <1>23, <1>30, Zenon DEF AnnotationsMove
  <1>32. SwitchOperand(Top) => g.held = <<>> BY <1>6, <1>15, TopOperand, Zenon
  <1>33. Len(frames') # n
    <2>1. n \in Nat BY <1>1, <1>2, TopParts
    <2> QED BY <2>1, <1>23
  <1>34. ~SwitchOperand(g) BY <1>18 DEF SwitchOperand
  <1>35. OperandsMove(n) BY <1>18, <1>23, <1>32, <1>33, <1>34, Zenon DEF OperandsMove
  <1>36. Len(scopes) \in Nat /\ End(n) <= Len(scopes) BY <1>1, <1>2, ScopeParts, TopEnds
  <1>37. Len(scopes) <= Len(scopes) BY <1>36
  <1> QED BY <1>23, <1>24, <1>26, <1>29, <1>31, <1>35, <1>36, <1>37, OrdinaryStep

LEMMA EndStatementExpressionKeeps ==
    ASSUME BodyInv, EndStatementExpression
    PROVE  BodyInv'
  <1>1. /\ job \in Jobs /\ FramesShaped /\ ScopesFramed /\ ScopesNumbered /\ ExpressionsNumbered
        /\ OperandsClear
    BY BodyParts
  <1>2. PICK n : n = Len(frames) - 1 OBVIOUS
  <1>3. /\ frames' = Outer(frames) /\ scopes' = Closed(Top.base) /\ active_expression' = Top.previous
        /\ fallthrough' = Top.held /\ job' = job /\ vm_parents' = vm_parents
        /\ expression_parents' = expression_parents
        /\ switches' = switches /\ switch_count' = switch_count
        /\ Top.kind = "statement_expression" /\ Top.kind # "body"
    BY DEF EndStatementExpression, Pop, controlVars
  <1>4. Closes(Top.base) /\ Len(scopes') = Top.base BY <1>3, ClosesTop, Zenon
  <1>5. /\ Moves(n) /\ Len(frames') = n /\ n \in Nat \ {0} /\ Len(frames) = n + 1 /\ frames[n + 1] = Top
        /\ SwitchOperand(frames'[n]) = SwitchOperand(frames[n])
    BY <1>1, <1>2, <1>3, <1>4, PopMoves
  <1>6. ScopesNumbered' /\ LiveMoves(Top.base) BY <1>1, <1>4, ClosesNumbered
  <1>7. ExpressionsNumbered' BY <1>1, <1>3, <1>5, ExpressionLeft
  <1>8. SwitchesSame BY <1>3, SwitchesUnchanged
  <1>9. ~OpenSwitch(Top) BY <1>3 DEF OpenSwitch
  <1>10. SwitchesTyped' /\ SwitchesStay(n) BY <1>5, <1>8, <1>9, Zenon DEF SwitchesStay, SwitchesSame
  <1>11. Top.held \in Seq(Nat) /\ Mine(Top.held) BY PendingParts
  <1>12. AnnotationsMove(n) BY <1>3, <1>5, <1>11, Zenon DEF AnnotationsMove
  <1>13. SwitchOperand(frames[n]) => Top.held = <<>>
    <2>1. n \in 1 .. Len(frames) /\ n # Len(frames) BY ONLY <1>5
    <2> QED BY <1>1, <1>5, <2>1, BelowTop
  <1>14. OperandsMove(n) BY <1>3, <1>5, <1>13, Zenon DEF OperandsMove
  <1>15. Top.base \in Nat /\ End(n) = Top.base /\ Top.base <= Len(scopes)
    BY <1>1, <1>2, <1>3, TopEnds, TopWidth
  <1>16. Top.base <= Top.base BY <1>15
  <1> QED BY <1>5, <1>6, <1>7, <1>10, <1>12, <1>14, <1>15, <1>16, OrdinaryStep

-----------------------------------------------------------------------------
(* Switches                                                                *)

LEMMA OuterParts ==
    ASSUME NEW S, NEW s \in Seq(S), Len(s) > 0
    PROVE  /\ Outer(s) \in Seq(S) /\ Len(Outer(s)) = Len(s) - 1
           /\ \A i \in 1 .. Len(s) - 1 : Outer(s)[i] = s[i]
  <1>1. PICK k \in Nat : Len(s) = k + 1 /\ k = Len(s) - 1
    <2>1. Len(s) \in Nat BY LenProperties
    <2> QED BY <2>1
  <1>2. \A i \in 1 .. k : s[i] \in S
    <2>1. \A i \in 1 .. Len(s) : s[i] \in S BY ElementOfSeq
    <2> QED BY <1>1, <2>1
  <1>3. 1 \in Int /\ k \in Int OBVIOUS
  <1>4. /\ SubSeq(s, 1, k) \in Seq(S)
        /\ Len(SubSeq(s, 1, k)) = IF 1 <= k THEN k - 1 + 1 ELSE 0
        /\ \A i \in 1 .. k - 1 + 1 : SubSeq(s, 1, k)[i] = s[1 + i - 1]
    BY <1>2, <1>3, SubSeqProperties
  <1>5. PICK t : t = SubSeq(s, 1, k) OBVIOUS
  <1>6. Outer(s) = t BY <1>1, <1>5 DEF Outer
  <1>7. t \in Seq(S) /\ Len(t) = k /\ \A i \in 1 .. k : t[i] = s[i]
    <2>1. k - 1 + 1 = k /\ (IF 1 <= k THEN k - 1 + 1 ELSE 0) = k OBVIOUS
    <2>2. \A i \in 1 .. k : 1 + i - 1 = i OBVIOUS
    <2> QED BY <1>4, <1>5, <2>1, <2>2, Zenon
  <1> QED BY <1>1, <1>6, <1>7

\* Switches whose frame is not the top one.
LEMMA BelowTopSwitches ==
    ASSUME FramesShaped, NEW n, Len(frames) = n + 1, n \in Nat,
           NEW at \in [DOMAIN switches -> DOMAIN frames], NEW m \in DOMAIN switches, at[m] # Len(frames)
    PROVE  at[m] \in 1 .. n
  <1>1. at[m] \in 1 .. Len(frames) BY TopParts
  <1> QED BY ONLY <1>1, Len(frames) = n + 1, n \in Nat, at[m] # Len(frames)

\* What a switch records when its body begins.
Begun(signed) ==
    [offset |-> switch_count, signed |-> signed, ranges |-> {}, has_default |-> FALSE,
     variably_modified |-> active_variably_modified,
     statement_expression |-> active_expression, live |-> Live, inside |-> Inside]

LEMMA BegunParts ==
    ASSUME BodyInv, NEW signed \in BOOLEAN, NEW s, s = Begun(signed)
    PROVE  /\ s \in SwitchSet /\ s.ranges = {} /\ s.live = Live /\ s.inside = Inside
           /\ s.variably_modified = active_variably_modified
           /\ s.statement_expression = active_expression
  <1>1. FramesShaped /\ ScopesNumbered /\ ExpressionsNumbered /\ SwitchesTyped BY BodyParts
  <1>2. active_variably_modified \in Numbers BY <1>1, ActiveIsSummit
  <1>3. active_expression \in Numbers BY <1>1, InsideParts
  <1>4. Live \in SUBSET Nat
    <2>1. Live \subseteq 1 .. Len(vm_parents) BY <1>1, ScopeParts
    <2> QED BY <2>1
  <1>5. Inside \in SUBSET Nat
    <2>1. Inside = InsideOf(Len(frames)) /\ Len(frames) \in 0 .. Len(frames) BY <1>1, InsideParts, TopParts
    <2>2. InsideOf(Len(frames)) \subseteq 1 .. Len(expression_parents) BY <1>1, <2>1, InsideParts
    <2> QED BY <2>1, <2>2
  <1>6. switch_count \in Nat /\ {} \in SUBSET RangeSet BY <1>1 DEF SwitchesTyped
  <1>7. PICK c, v, x, l, i : /\ c = switch_count /\ v = active_variably_modified /\ x = active_expression
                             /\ l = Live /\ i = Inside
    OBVIOUS
  <1>8. s = [offset |-> c, signed |-> signed, ranges |-> {}, has_default |-> FALSE,
             variably_modified |-> v, statement_expression |-> x, live |-> l, inside |-> i]
    BY <1>7 DEF Begun
  <1>9. PICK R, N : R = SUBSET RangeSet /\ N = Numbers OBVIOUS
  <1>10. /\ c \in Nat /\ {} \in R /\ v \in N /\ x \in N /\ l \in SUBSET Nat /\ i \in SUBSET Nat
    BY <1>2, <1>3, <1>4, <1>5, <1>6, <1>7, <1>9, Zenon
  <1>11. s \in [offset : Nat, signed : BOOLEAN, ranges : R, has_default : BOOLEAN,
                variably_modified : N, statement_expression : N, live : SUBSET Nat, inside : SUBSET Nat]
    BY ONLY <1>8, <1>10, signed \in BOOLEAN
  <1>12. s \in SwitchSet BY <1>9, <1>11 DEF SwitchSet
  <1>13. s.ranges = {} /\ s.live = l /\ s.inside = i /\ s.variably_modified = v /\ s.statement_expression = x
    BY ONLY <1>8
  <1> QED BY <1>7, <1>12, <1>13, Zenon

\* The switch that begins is recorded by its frame.
LEMMA BegunRecorded ==
    ASSUME BodyInv, Top.kind = "switch", Top.pc = "operand", NEW n, n = Len(frames) - 1, Moves(n),
           Len(frames') = n + 1, Top.base = frames'[n + 1].base,
           LiveMoves(Len(scopes)), NEW s, s.live = Live, s.inside = Inside,
           s.variably_modified = active_variably_modified, s.statement_expression = active_expression
    PROVE  Recorded(s, n + 1)'
  <1>1. /\ job \in Jobs /\ FramesShaped /\ ScopesFramed /\ ScopesNumbered /\ ExpressionsNumbered
    BY BodyParts
  <1>2. Top.kind # "body" OBVIOUS
  <1>3. n \in Nat /\ Len(frames) = n + 1 /\ n + 1 - 1 = n /\ n \in 0 .. n
    <2>1. Len(frames) \in Nat /\ n \in 1 .. Len(frames) BY <1>1, TopParts DEF Moves
    <2> QED BY ONLY <2>1, n = Len(frames) - 1
  <1>4. Summit(s.variably_modified, s.live)
    <2>1. Summit(active_variably_modified, Live) BY <1>1, ActiveIsSummit
    <2> QED BY <2>1
  <1>5. job' = job BY DEF Moves
  <1>6. s.live \subseteq LiveOf(frames[n + 1].base + ControlScopes)'
    <2>1. Width(Top) = ControlScopes BY DEF Width, Controls
    <2>2. Len(scopes) = Top.base + ControlScopes BY <2>1, TopWidth
    <2>3. Live = LiveOf(Len(scopes)) /\ Len(scopes) \in Nat BY <1>1, ScopeParts
    <2>4. PICK p \in Nat : p = Len(scopes) BY <2>3
    <2>5. LiveOf(p) \subseteq LiveOf(p)'
      <3>1. p \in 0 .. p OBVIOUS
      <3>2. LiveMoves(p) BY <2>4
      <3> QED BY <3>1, <3>2 DEF LiveMoves
    <2>6. ControlScopes' = ControlScopes BY <1>5 DEF ControlScopes
    <2>7. p = frames'[n + 1].base + ControlScopes' BY <2>2, <2>4, <2>6
    <2>8. LiveOf(p)' = UNION {scopes'[i].live : i \in 1 .. p} BY DEF LiveOf
    <2>9. LiveOf(frames[n + 1].base + ControlScopes)' = UNION {scopes'[i].live : i \in 1 .. p}
      BY <2>7 DEF LiveOf
    <2> QED BY <2>3, <2>4, <2>5, <2>8, <2>9
  <1>7. \A x \in Live' \ s.live, y \in s.live : y < x BY DEF LiveMoves
  <1>8. Summit(s.statement_expression, s.inside) BY <1>1 DEF ExpressionsNumbered
  <1>9. s.inside = InsideOf(n + 1 - 1)'
    <2>1. Inside = InsideOf(n + 1) BY <1>1, <1>3, InsideParts
    <2>2. InsideOf(n + 1) = InsideOf(n) \cup ({frames[n + 1].expression} \ {None}) BY <1>3, InsideNext
    <2>3. frames[n + 1].expression = None
      <3>1. n + 1 \in DOMAIN frames BY <1>1, <1>3, TopParts
      <3>2. frames[n + 1].kind # "statement_expression" BY <1>3 DEF Top
      <3> QED BY <1>1, <3>1, <3>2 DEF ExpressionsNumbered
    <2>4. InsideOf(n)' = InsideOf(n) BY <1>1, <1>3, InsideKept
    <2>5. InsideOf(n + 1 - 1)' = InsideOf(n)' BY <1>3 DEF InsideOf
    <2> QED BY <2>1, <2>2, <2>3, <2>4, <2>5
  <1> QED BY <1>4, <1>6, <1>7, <1>8, <1>9 DEF Recorded

\* Frames and scopes of a switch that begins.
LEMMA SwitchBodyMoves ==
    ASSUME BodyInv, NEW signed \in BOOLEAN, SwitchBody(signed), NEW n, n = Len(frames) - 1
    PROVE  /\ Moves(n) /\ Len(frames') = n + 1 /\ n \in Nat \ {0} /\ Len(frames) = n + 1
           /\ Top.kind = "switch" /\ Top.pc = "operand" /\ Top.held = <<>> /\ fallthrough' = <<>>
           /\ OpenSwitch(frames'[n + 1]) /\ frames'[n + 1].base = Top.base /\ frames'[n + 1].held = <<>>
           /\ Closes(Len(scopes)) /\ LiveMoves(Len(scopes)) /\ Len(scopes) \in Nat /\ End(n) <= Len(scopes)
           /\ job' \in Jobs /\ FramesShaped' /\ ScopesFramed' /\ ScopesNumbered' /\ ExpressionsNumbered'
           /\ OperandsClear'
  <1>1. /\ job \in Jobs /\ FramesShaped /\ ScopesFramed /\ ScopesNumbered /\ ExpressionsNumbered
        /\ OperandsClear
    BY BodyParts
  <1>2. /\ Step("statement") /\ Top.kind = "switch" /\ Top.pc = "operand"
        /\ scopes' = Opened(ControlScopes) /\ vm_parents' = vm_parents /\ job' = job
        /\ expression_parents' = expression_parents /\ active_expression' = active_expression
        /\ fallthrough' = fallthrough
    BY DEF SwitchBody, SubScopes
  <1>3. Top.kind # "body" /\ Top.kind # "statement_expression" BY <1>2
  <1>4. PICK t \in FrameSet : t = Top BY <1>1, TopParts
  <1>5. PICK g : g = [t EXCEPT !.pc = "statement"] OBVIOUS
  <1>6. g \in FrameSet
    <2>1. "statement" \in Places BY DEF Places
    <2> QED BY <2>1, <1>5, PcChanges, Zenon
  <1>7. /\ g.kind = "switch" /\ g.pc = "statement" /\ g.base = Top.base /\ g.held = Top.held
        /\ g.expression = Top.expression
    BY <1>2, <1>4, <1>5 DEF FrameSet
  <1>8. Top.held = <<>> /\ Top.expression = None
    <2>1. Len(frames) \in DOMAIN frames BY <1>1, TopParts
    <2> QED BY <2>1, <1>1, <1>2 DEF FramesShaped, ExpressionsNumbered, Top
  <1>9. HoldsNothing(g) /\ Unnumbered(g) /\ Unnumbered(Top) /\ g.kind # "body"
    BY <1>2, <1>7, <1>8 DEF HoldsNothing, Unnumbered
  <1>10. /\ Len(scopes) \in Nat /\ Top.base <= Len(scopes) /\ Closes(Len(scopes))
         /\ Len(scopes') = Top.base + Width(g)
    <2>1. Width(Top) = ControlScopes BY <1>2 DEF Width, Controls
    <2>2. /\ Top.base \in Nat /\ Len(scopes) \in Nat /\ ControlScopes \in {0, 1}
          /\ Len(scopes) = Top.base + ControlScopes
      BY <2>1, TopWidth
    <2>3. ControlScopes \in Nat BY <2>2
    <2>4. Closes(Len(scopes)) /\ Len(scopes') = Len(scopes) + ControlScopes
      BY <1>2, <2>3, OpensScopes
    <2>5. Width(g) = 2 * ControlScopes BY <1>7 DEF Width, Controls
    <2> QED BY ONLY <2>2, <2>4, <2>5
  <1>11. frames' = [frames EXCEPT ![Len(frames)] = g] BY <1>2, <1>4, <1>5 DEF Step, Top
  <1>12. /\ Moves(n) /\ Len(frames') = n + 1 /\ n \in Nat \ {0} /\ Len(frames) = n + 1
         /\ frames[n + 1] = Top /\ frames'[n + 1] = g
         /\ SwitchOperand(frames'[n]) = SwitchOperand(frames[n])
    BY <1>1, <1>2, <1>3, <1>6, <1>7, <1>9, <1>10, <1>11, StepMoves, ZenonT(60)
  <1>13. FramesShaped' /\ ScopesFramed' BY <1>1, <1>12, MovesFramed
  <1>14. ScopesNumbered' /\ LiveMoves(Len(scopes)) BY <1>1, <1>10, ClosesNumbered
  <1>15. ExpressionsNumbered'
    <2>1. MovesUnnumbered(n) BY <1>2, <1>9, <1>12, Zenon DEF MovesUnnumbered
    <2> QED BY <1>1, <1>12, <2>1, ExpressionsKept
  <1>16. OperandsClear'
    <2>1. ~SwitchOperand(frames[n]) BY <1>3, OutsideOperand, Zenon
    <2>2. ~SwitchOperand(g) BY <1>7 DEF SwitchOperand
    <2>3. OperandsMove(n) BY <1>12, <2>1, <2>2, Zenon DEF OperandsMove
    <2> QED BY <1>1, <1>12, <2>3, OperandsKept
  <1>17. fallthrough' = <<>>
    <2>1. SwitchOperand(Top) BY <1>2, Zenon DEF SwitchOperand
    <2> QED BY <1>2, <2>1, TopOperand, Zenon
  <1>18. OpenSwitch(g) BY <1>7 DEF OpenSwitch
  <1>19. End(n) <= Len(scopes) BY <1>1, <1>3, <1>10, TopEnds
  <1>20. job' \in Jobs BY <1>1, <1>2
  <1>21. /\ OpenSwitch(frames'[n + 1]) /\ frames'[n + 1].base = Top.base /\ frames'[n + 1].held = <<>>
    BY <1>7, <1>8, <1>12, <1>18, Zenon
  <1> QED BY <1>2, <1>8, <1>10, <1>12, <1>13, <1>14, <1>15, <1>16, <1>17, <1>19, <1>20, <1>21

\* The switches of a body whose innermost switch begins.
LEMMA SwitchBodyTyped ==
    ASSUME BodyInv, NEW signed \in BOOLEAN, SwitchBody(signed), NEW L, L = Len(switches),
           NEW s, s = Begun(signed)
    PROVE  /\ L \in Nat /\ DOMAIN switches = 1 .. L /\ DOMAIN switches' = 1 .. L + 1
           /\ \A m \in 1 .. L : switches'[m] = switches[m]
           /\ switches'[L + 1] = s /\ SwitchesTyped'
  <1>1. SwitchesTyped BY BodyParts
  <1>2. switches' = Append(switches, s) /\ switch_count' = switch_count + 1
    BY DEF SwitchBody, Begun
  <1>3. s \in SwitchSet /\ s.ranges = {} BY BegunParts, Zenon
  <1>4. /\ switches' \in Seq(SwitchSet) /\ L \in Nat
        /\ DOMAIN switches = 1 .. L /\ DOMAIN switches' = 1 .. L + 1
        /\ \A m \in 1 .. L : switches'[m] = switches[m]
        /\ switches'[L + 1] = s
    <2>1. switches \in Seq(SwitchSet) /\ L \in Nat /\ DOMAIN switches = 1 .. L BY <1>1, SwitchParts
    <2>2. /\ Append(switches, s) \in Seq(SwitchSet) /\ Len(Append(switches, s)) = L + 1
          /\ \A m \in 1 .. L : Append(switches, s)[m] = switches[m]
          /\ Append(switches, s)[L + 1] = s
      BY <2>1, <1>3, AppendProperties
    <2>3. PICK w : w = Append(switches, s) OBVIOUS
    <2>4. w \in Seq(SwitchSet) /\ Len(w) = L + 1 BY <2>2, <2>3, Zenon
    <2>5. DOMAIN w = 1 .. L + 1 BY <2>4, LenProperties
    <2> QED BY <1>2, <2>1, <2>2, <2>3, <2>4, <2>5, Zenon
  <1>5. switch_count' \in Nat BY <1>1, <1>2 DEF SwitchesTyped
  <1>6. ASSUME NEW m \in 1 .. L + 1
        PROVE  RangesApart(switches'[m].ranges, switches'[m].signed)
    <2>1. CASE m = L + 1
      <3>1. switches'[m].ranges = {} BY <1>3, <1>4, <2>1
      <3> QED BY <3>1 DEF RangesApart
    <2>2. CASE m # L + 1
      <3>1. m \in 1 .. L BY <1>4, <2>2
      <3> QED BY <3>1, <1>1, <1>4 DEF SwitchesTyped
    <2> QED BY <2>1, <2>2
  <1>7. SwitchesTyped' BY <1>4, <1>5, <1>6 DEF SwitchesTyped
  <1> QED BY <1>4, <1>7

\* A switch begins.
LEMMA SwitchBodyKeeps ==
    ASSUME BodyInv, NEW signed \in BOOLEAN, SwitchBody(signed)
    PROVE  BodyInv'
  <1>1. /\ job \in Jobs /\ FramesShaped /\ ScopesFramed /\ ScopesNumbered BY BodyParts
  <1>2. PICK n : n = Len(frames) - 1 OBVIOUS
  <1>3. PICK L : L = Len(switches) OBVIOUS
  <1>4. PICK s : s = Begun(signed) OBVIOUS
  <1>5. /\ Moves(n) /\ Len(frames') = n + 1 /\ n \in Nat \ {0} /\ Len(frames) = n + 1
        /\ Top.kind = "switch" /\ Top.pc = "operand" /\ Top.held = <<>> /\ fallthrough' = <<>>
        /\ OpenSwitch(frames'[n + 1]) /\ frames'[n + 1].base = Top.base /\ frames'[n + 1].held = <<>>
        /\ LiveMoves(Len(scopes)) /\ Len(scopes) \in Nat /\ End(n) <= Len(scopes)
        /\ job' \in Jobs /\ FramesShaped' /\ ScopesFramed' /\ ScopesNumbered' /\ ExpressionsNumbered'
        /\ OperandsClear'
    BY <1>2, SwitchBodyMoves
  <1>6. /\ L \in Nat /\ DOMAIN switches = 1 .. L /\ DOMAIN switches' = 1 .. L + 1
        /\ \A m \in 1 .. L : switches'[m] = switches[m]
        /\ switches'[L + 1] = s /\ SwitchesTyped'
    BY <1>3, <1>4, SwitchBodyTyped
  <1>7. /\ s.live = Live /\ s.inside = Inside
        /\ s.variably_modified = active_variably_modified /\ s.statement_expression = active_expression
    BY <1>4, BegunParts, Zenon
  <1>8. PICK at \in [DOMAIN switches -> DOMAIN frames] : SwitchesFramed(at) /\ AnnotationsPlaced(at)
    BY BodyParts
  <1>9. ASSUME NEW m \in 1 .. L
        PROVE  at[m] \in 1 .. n /\ OpenSwitch(frames[at[m]]) /\ Recorded(switches[m], at[m])
    <2>1. m \in DOMAIN switches BY <1>6
    <2>2. OpenSwitch(frames[at[m]]) /\ Recorded(switches[m], at[m]) BY <1>8, <2>1 DEF SwitchesFramed
    <2>3. ~OpenSwitch(Top) BY <1>5 DEF OpenSwitch
    <2>4. at[m] # Len(frames) BY <2>2, <2>3 DEF Top
    <2>5. n \in Nat BY <1>5
    <2> QED BY <1>1, <1>5, <2>1, <2>2, <2>4, <2>5, BelowTopSwitches
  <1>10. PICK new : new = [m \in 1 .. L + 1 |-> IF m = L + 1 THEN n + 1 ELSE at[m]] OBVIOUS
  <1>11. new[L + 1] = n + 1 /\ \A m \in 1 .. L : new[m] = at[m] BY <1>6, <1>10
  <1>12. DOMAIN frames' = 1 .. n + 1 BY <1>5, LenProperties DEF FramesShaped
  <1>13. \A m \in 1 .. L + 1 : m \in 1 .. L \/ m = L + 1 BY <1>6
  <1>14. new \in [DOMAIN switches' -> DOMAIN frames']
    <2>1. ASSUME NEW m \in 1 .. L + 1 PROVE new[m] \in 1 .. n + 1
      <3>1. CASE m = L + 1 BY <3>1, <1>5, <1>11
      <3>2. CASE m \in 1 .. L
        <4>1. new[m] \in 1 .. n BY <3>2, <1>9, <1>11
        <4> QED BY <4>1, <1>5
      <3> QED BY <3>1, <3>2, <1>13
    <2>2. new \in [1 .. L + 1 -> 1 .. n + 1] BY <2>1, <1>10
    <2> QED BY <2>2, <1>6, <1>12
  <1>15. ASSUME NEW m \in 1 .. L + 1, NEW r, r = switches'[m], NEW k, k = new[m]
         PROVE  OpenSwitch(frames'[k]) /\ Recorded(r, k)'
    <2>1. CASE m = L + 1
      <3>1. r = s /\ k = n + 1 BY <2>1, <1>6, <1>11, <1>15
      <3>2. Recorded(s, n + 1)' BY <1>2, <1>5, <1>7, BegunRecorded
      <3>3. PICK j : j = n + 1 OBVIOUS
      <3>4. Recorded(s, j)' BY <3>2, <3>3 DEF Recorded, LiveOf, InsideOf
      <3> QED BY <1>5, <3>1, <3>3, <3>4
    <2>2. CASE m \in 1 .. L
      <3>1. r = switches[m] /\ k = at[m] BY <2>2, <1>6, <1>11, <1>15
      <3>2. k \in 1 .. n /\ OpenSwitch(frames[k]) /\ Recorded(r, k) BY <2>2, <3>1, <1>9
      <3>3. PICK p \in Nat : p = Len(scopes) BY <1>5
      <3>4. End(n) <= p /\ p <= Len(scopes) /\ LiveMoves(p) BY <3>3, <1>5
      <3>5. Recorded(r, k)' BY <1>1, <1>5, <3>2, <3>4, RecordedKept
      <3>6. Alike(frames[k], frames'[k]) /\ job' = job BY <3>2, <1>5 DEF Moves
      <3>7. OpenSwitch(frames'[k]) BY <3>2, <3>6, AlikeFrames
      <3> QED BY <3>5, <3>7
    <2> QED BY <2>1, <2>2, <1>13
  <1>16. \A m \in DOMAIN switches' : (OpenSwitch(frames[new[m]]) /\ Recorded(switches[m], new[m]))'
    <2>1. ASSUME NEW m \in 1 .. L + 1 PROVE (OpenSwitch(frames[new[m]]) /\ Recorded(switches[m], new[m]))'
      <3>1. PICK r : r = switches'[m] OBVIOUS
      <3>2. PICK k : k = new[m] OBVIOUS
      <3>3. OpenSwitch(frames'[k]) /\ Recorded(r, k)' BY <3>1, <3>2, <1>15
      <3> QED BY <3>1, <3>2, <3>3 DEF Recorded, OpenSwitch
    <2> QED BY <2>1, <1>6
  <1>17. ASSUME NEW l \in 1 .. L + 1, NEW m \in 1 .. L + 1, l < m PROVE new[l] < new[m]
    <2>1. l \in 1 .. L BY <1>6, <1>17
    <2>2. CASE m = L + 1
      <3>1. new[l] \in 1 .. n BY <2>1, <1>9, <1>11
      <3> QED BY <3>1, <2>2, <1>5, <1>11
    <2>3. CASE m \in 1 .. L
      <3>1. at[l] < at[m] BY <2>1, <2>3, <1>6, <1>8, <1>17 DEF SwitchesFramed
      <3> QED BY <2>1, <2>3, <3>1, <1>11
    <2> QED BY <2>2, <2>3, <1>13
  <1>18. ASSUME NEW i \in 1 .. n + 1, OpenSwitch(frames'[i])
         PROVE  \E m \in 1 .. L + 1 : new[m] = i
    <2>1. CASE i = n + 1
      <3>1. L + 1 \in 1 .. L + 1 BY <1>6
      <3> QED BY <2>1, <3>1, <1>11
    <2>2. CASE i # n + 1
      <3>1. i \in 1 .. n /\ i \in 1 .. n + 1 BY <1>5, <2>2
      <3>2. Alike(frames[i], frames'[i]) /\ job' = job BY <3>1, <1>5 DEF Moves
      <3>3. OpenSwitch(frames[i]) BY <3>2, <1>18, AlikeFrames
      <3>4. i \in DOMAIN frames BY <3>1, <1>1, <1>5, TopParts
      <3>5. PICK m \in 1 .. L : at[m] = i BY <3>3, <3>4, <1>6, <1>8 DEF SwitchesFramed
      <3>6. m \in 1 .. L + 1 /\ new[m] = i BY <3>5, <1>6, <1>11
      <3> QED BY <3>6
    <2> QED BY <2>1, <2>2
  <1>19. SwitchesFramed(new)'
    <2>1. \A l, m \in DOMAIN switches' : l < m => new[l] < new[m] BY <1>6, <1>17
    <2>2. \A i \in DOMAIN frames' : OpenSwitch(frames'[i]) => \E m \in DOMAIN switches' : new[m] = i
      BY <1>6, <1>12, <1>18
    <2> QED BY <1>16, <2>1, <2>2 DEF SwitchesFramed, OpenSwitch
  <1>20. AnnotationsPlaced(new)'
    <2>1. fallthrough' \in Seq(Nat) /\ RangeOf(fallthrough') = {}
      BY <1>5, PendingParts DEF RangeOf
    <2>2. ASSUME NEW i \in 1 .. n + 1, NEW e \in RangeOf(frames'[i].held)
          PROVE  \E m \in 1 .. L + 1 :
                    /\ new[m] < i /\ \A l \in 1 .. L + 1 : m < l => i < new[l]
                    /\ e = switches'[m].offset
      <3>1. i # n + 1
        <4>1. RangeOf(<<>>) = {} BY DEF RangeOf
        <4> QED BY <4>1, <2>2, <1>5
      <3>2. i \in 1 .. n BY <3>1, <1>5
      <3>3. frames'[i].held = frames[i].held BY <3>2, <1>5 DEF Moves, Alike
      <3>4. i \in DOMAIN frames
        <4>1. i \in 1 .. Len(frames) BY <3>2, <1>5
        <4> QED BY <4>1, <1>1, TopParts
      <3>5. PICK m \in 1 .. L :
               /\ at[m] < i /\ \A l \in 1 .. L : m < l => i < at[l]
               /\ e = switches[m].offset
        <4>1. \E m \in DOMAIN switches :
                 /\ at[m] < i /\ \A l \in DOMAIN switches : m < l => i < at[l]
                 /\ e = switches[m].offset
          BY <3>3, <3>4, <2>2, <1>8, ZenonT(60) DEF AnnotationsPlaced
        <4> QED BY ONLY <4>1, <1>6
      <3>6. ASSUME NEW l \in 1 .. L + 1, m < l PROVE i < new[l]
        <4>1. CASE l = L + 1
          <5>1. n \in Nat /\ new[l] = n + 1 BY <4>1, <1>5, <1>11
          <5> QED BY ONLY <5>1, <3>2
        <4>2. CASE l \in 1 .. L BY <4>2, <3>5, <3>6, <1>11
        <4> QED BY <4>1, <4>2, <1>13
      <3>7. m \in 1 .. L + 1 /\ new[m] < i /\ e = switches'[m].offset BY <3>5, <1>6, <1>11
      <3> QED BY <3>6, <3>7
    <2>3. \A i \in DOMAIN frames' : \A e \in RangeOf(frames'[i].held) :
             \E m \in DOMAIN switches' :
                /\ new[m] < i /\ \A l \in DOMAIN switches' : m < l => i < new[l]
                /\ e = switches'[m].offset
      <3>1. DOMAIN switches' = 1 .. L + 1 BY <1>6
      <3>2. SUFFICES ASSUME NEW i \in DOMAIN frames', NEW e \in RangeOf(frames'[i].held)
                     PROVE  \E m \in DOMAIN switches' :
                               /\ new[m] < i /\ \A l \in DOMAIN switches' : m < l => i < new[l]
                               /\ e = switches'[m].offset
        OBVIOUS
      <3>3. PICK m \in 1 .. L + 1 :
               /\ new[m] < i /\ \A l \in 1 .. L + 1 : m < l => i < new[l]
               /\ e = switches'[m].offset
        BY ONLY <2>2, <1>12, i \in DOMAIN frames', e \in RangeOf(frames'[i].held), Zenon
      <3>4. m \in DOMAIN switches' BY <3>1
      <3>5. \A l \in DOMAIN switches' : m < l => i < new[l] BY <3>1, <3>3, Zenon
      <3> QED BY ONLY <3>3, <3>4, <3>5, Zenon
    <2>4. \A e \in RangeOf(fallthrough') : switches' # <<>> /\ e = Innermost'.offset BY <2>1
    <2> QED BY <2>1, <2>3, <2>4 DEF AnnotationsPlaced
  <1> QED BY <1>5, <1>6, <1>14, <1>19, <1>20 DEF BodyInv

\* The frame of the innermost switch lies above those of the others.
LEMMA InnermostFrame ==
    ASSUME SwitchesTyped, FramesShaped, OpenSwitch(Top),
           NEW at \in [DOMAIN switches -> DOMAIN frames], SwitchesFramed(at)
    PROVE  /\ Len(switches) \in DOMAIN switches /\ at[Len(switches)] = Len(frames)
           /\ \A m \in DOMAIN switches : m < Len(switches) => at[m] < Len(frames)
  <1>1. Len(frames) \in DOMAIN frames /\ DOMAIN frames = 1 .. Len(frames) /\ Len(frames) \in Nat
    BY TopParts
  <1>2. Len(switches) \in Nat /\ DOMAIN switches = 1 .. Len(switches) BY SwitchParts
  <1>3. PICK m \in DOMAIN switches : at[m] = Len(frames) BY <1>1 DEF SwitchesFramed, Top
  <1>4. Len(switches) \in DOMAIN switches BY ONLY <1>2, <1>3, m \in DOMAIN switches
  <1>5. at[Len(switches)] \in 1 .. Len(frames) BY <1>1, <1>4
  <1>6. m < Len(switches) => at[m] < at[Len(switches)] BY <1>4 DEF SwitchesFramed
  <1>7. m = Len(switches) BY ONLY <1>1, <1>2, <1>3, <1>5, <1>6, m \in DOMAIN switches
  <1>8. \A k \in DOMAIN switches : k < Len(switches) => at[k] < at[Len(switches)]
    BY <1>4 DEF SwitchesFramed
  <1> QED BY <1>3, <1>4, <1>7, <1>8

\* Frames and scopes of a switch that ends.
LEMMA EndSwitchMoves ==
    ASSUME BodyInv, EndSwitch, NEW n, n = Len(frames) - 1
    PROVE  /\ Moves(n) /\ Len(frames') = n /\ n \in Nat \ {0} /\ Len(frames) = n + 1
           /\ OpenSwitch(Top) /\ fallthrough' = <<>> /\ switches' = Outer(switches)
           /\ switch_count' = switch_count
           /\ LiveMoves(Top.base) /\ Top.base \in Nat /\ End(n) <= Top.base /\ Top.base <= Len(scopes)
           /\ job' \in Jobs /\ FramesShaped' /\ ScopesFramed' /\ ScopesNumbered' /\ ExpressionsNumbered'
           /\ OperandsClear'
  <1>1. /\ job \in Jobs /\ FramesShaped /\ ScopesFramed /\ ScopesNumbered /\ ExpressionsNumbered
        /\ OperandsClear
    BY BodyParts
  <1>2. /\ frames' = Outer(frames) /\ Top.kind = "switch" /\ Top.pc = "after"
        /\ scopes' = Closed(Top.base) /\ vm_parents' = vm_parents /\ job' = job
        /\ expression_parents' = expression_parents /\ active_expression' = active_expression
        /\ fallthrough = <<>> /\ fallthrough' = fallthrough
        /\ switches' = Outer(switches) /\ switch_count' = switch_count
    BY DEF EndSwitch, Pop, require_no_fallthrough
  <1>3. Top.kind # "body" /\ Top.kind # "statement_expression" BY <1>2
  <1>4. Closes(Top.base) /\ Len(scopes') = Top.base BY <1>2, <1>3, ClosesTop, Zenon
  <1>5. /\ Moves(n) /\ Len(frames') = n /\ n \in Nat \ {0} /\ Len(frames) = n + 1 /\ frames[n + 1] = Top
        /\ SwitchOperand(frames'[n]) = SwitchOperand(frames[n])
    BY <1>1, <1>2, <1>3, <1>4, PopMoves
  <1>6. FramesShaped' /\ ScopesFramed' BY <1>1, <1>5, MovesFramed
  <1>7. ScopesNumbered' /\ LiveMoves(Top.base) BY <1>1, <1>4, ClosesNumbered
  <1>8. ExpressionsNumbered'
    <2>1. Unnumbered(Top)
      <3>1. Len(frames) \in DOMAIN frames BY <1>1, TopParts
      <3> QED BY <3>1, <1>1, <1>3 DEF Unnumbered, ExpressionsNumbered, Top
    <2>2. MovesUnnumbered(n) BY <1>2, <1>5, <2>1, Zenon DEF MovesUnnumbered
    <2> QED BY <1>1, <1>5, <2>2, ExpressionsKept
  <1>9. OperandsClear'
    <2>1. ~SwitchOperand(frames[n]) BY <1>3, OutsideOperand, Zenon
    <2>2. OperandsMove(n) BY <1>5, <2>1, Zenon DEF OperandsMove
    <2> QED BY <1>1, <1>5, <2>2, OperandsKept
  <1>10. OpenSwitch(Top) BY <1>2 DEF OpenSwitch
  <1>11. Top.base \in Nat /\ End(n) <= Top.base /\ Top.base <= Len(scopes)
    BY <1>1, <1>3, TopEnds, TopWidth
  <1>12. job' \in Jobs BY <1>1, <1>2
  <1>13. fallthrough' = <<>> BY <1>2
  <1> QED BY <1>2, <1>5, <1>6, <1>7, <1>8, <1>9, <1>10, <1>11, <1>12, <1>13

LEMMA EndSwitchKeeps ==
    ASSUME BodyInv, EndSwitch
    PROVE  BodyInv'
  <1>1. /\ job \in Jobs /\ FramesShaped /\ ScopesFramed /\ ScopesNumbered /\ SwitchesTyped BY BodyParts
  <1>2. PICK n : n = Len(frames) - 1 OBVIOUS
  <1>3. /\ Moves(n) /\ Len(frames') = n /\ n \in Nat \ {0} /\ Len(frames) = n + 1
        /\ OpenSwitch(Top) /\ fallthrough' = <<>> /\ switches' = Outer(switches)
        /\ switch_count' = switch_count
        /\ LiveMoves(Top.base) /\ Top.base \in Nat /\ End(n) <= Top.base /\ Top.base <= Len(scopes)
        /\ job' \in Jobs /\ FramesShaped' /\ ScopesFramed' /\ ScopesNumbered' /\ ExpressionsNumbered'
        /\ OperandsClear'
    BY <1>2, EndSwitchMoves
  <1>4. PICK at \in [DOMAIN switches -> DOMAIN frames] : SwitchesFramed(at) /\ AnnotationsPlaced(at)
    BY BodyParts
  <1>5. /\ Len(switches) \in DOMAIN switches /\ at[Len(switches)] = Len(frames)
        /\ \A m \in DOMAIN switches : m < Len(switches) => at[m] < Len(frames)
    BY <1>1, <1>3, <1>4, InnermostFrame, Zenon
  <1>6. PICK L \in Nat : Len(switches) = L + 1 /\ DOMAIN switches = 1 .. L + 1
    <2>1. Len(switches) \in Nat /\ DOMAIN switches = 1 .. Len(switches) BY <1>1, SwitchParts
    <2>2. Len(switches) > 0 /\ Len(switches) - 1 \in Nat /\ Len(switches) = Len(switches) - 1 + 1
      BY ONLY <2>1, <1>5
    <2> QED BY <2>1, <2>2
  <1>7. /\ switches' \in Seq(SwitchSet) /\ Len(switches') = L /\ DOMAIN switches' = 1 .. L
        /\ \A m \in 1 .. L : switches'[m] = switches[m] /\ m \in 1 .. L + 1 /\ m < L + 1
    <2>1. switches \in Seq(SwitchSet) /\ Len(switches) > 0 BY <1>1, <1>6, SwitchParts
    <2>2. Len(switches) - 1 = L BY <1>6
    <2>3. /\ Outer(switches) \in Seq(SwitchSet) /\ Len(Outer(switches)) = L
          /\ \A m \in 1 .. L : Outer(switches)[m] = switches[m]
      BY <2>1, <2>2, OuterParts
    <2>4. PICK w : w = Outer(switches) OBVIOUS
    <2>5. w \in Seq(SwitchSet) /\ Len(w) = L BY <2>3, <2>4, Zenon
    <2>6. DOMAIN w = 1 .. L BY <2>5, LenProperties
    <2>7. \A m \in 1 .. L : m \in 1 .. L + 1 /\ m < L + 1 OBVIOUS
    <2> QED BY <1>3, <2>3, <2>4, <2>5, <2>6, <2>7, Zenon
  <1>8. SwitchesTyped'
    <2>1. \A m \in 1 .. L : RangesApart(switches'[m].ranges, switches'[m].signed)
      BY <1>1, <1>6, <1>7 DEF SwitchesTyped
    <2>2. switch_count' \in Nat BY <1>1, <1>3 DEF SwitchesTyped
    <2> QED BY <1>7, <2>1, <2>2 DEF SwitchesTyped
  <1>9. ASSUME NEW m \in 1 .. L
        PROVE  at[m] \in 1 .. n /\ OpenSwitch(frames[at[m]]) /\ Recorded(switches[m], at[m])
    <2>1. m \in DOMAIN switches /\ m < Len(switches) BY <1>6, <1>7
    <2>2. OpenSwitch(frames[at[m]]) /\ Recorded(switches[m], at[m]) BY <1>4, <2>1 DEF SwitchesFramed
    <2>3. at[m] # Len(frames)
      <3>1. at[m] \in 1 .. Len(frames) /\ Len(frames) \in Nat BY <1>1, <2>1, TopParts
      <3>2. at[m] < Len(frames) BY <1>5, <2>1
      <3> QED BY ONLY <3>1, <3>2
    <2>4. n \in Nat BY <1>3
    <2> QED BY <1>1, <1>3, <2>1, <2>2, <2>3, <2>4, BelowTopSwitches
  <1>10. PICK new : new = [m \in 1 .. L |-> at[m]] OBVIOUS
  <1>11. \A m \in 1 .. L : new[m] = at[m] BY <1>10
  <1>12. DOMAIN frames' = 1 .. n BY <1>3, LenProperties DEF FramesShaped
  <1>13. new \in [DOMAIN switches' -> DOMAIN frames'] BY <1>7, <1>9, <1>10, <1>12
  <1>14. ASSUME NEW m \in 1 .. L, NEW r, r = switches'[m], NEW k, k = new[m]
         PROVE  OpenSwitch(frames'[k]) /\ Recorded(r, k)'
    <2>1. r = switches[m] /\ k = at[m] BY <1>7, <1>11, <1>14
    <2>2. k \in 1 .. n /\ OpenSwitch(frames[k]) /\ Recorded(r, k) BY <2>1, <1>9
    <2>3. PICK p \in Nat : p = Top.base BY <1>3
    <2>4. End(n) <= p /\ p <= Len(scopes) /\ LiveMoves(p) BY <2>3, <1>3
    <2>5. Recorded(r, k)' BY <1>1, <1>3, <2>2, <2>4, RecordedKept
    <2>6. Alike(frames[k], frames'[k]) /\ job' = job BY <2>2, <1>3 DEF Moves
    <2>7. OpenSwitch(frames'[k]) BY <2>2, <2>6, AlikeFrames
    <2> QED BY <2>5, <2>7
  <1>15. \A m \in DOMAIN switches' : (OpenSwitch(frames[new[m]]) /\ Recorded(switches[m], new[m]))'
    <2>1. ASSUME NEW m \in 1 .. L PROVE (OpenSwitch(frames[new[m]]) /\ Recorded(switches[m], new[m]))'
      <3>1. PICK r : r = switches'[m] OBVIOUS
      <3>2. PICK k : k = new[m] OBVIOUS
      <3>3. OpenSwitch(frames'[k]) /\ Recorded(r, k)' BY <3>1, <3>2, <1>14
      <3> QED BY <3>1, <3>2, <3>3 DEF Recorded, OpenSwitch
    <2> QED BY <2>1, <1>7
  <1>16. ASSUME NEW i \in 1 .. n, OpenSwitch(frames'[i])
         PROVE  \E m \in 1 .. L : new[m] = i
    <2>1. Alike(frames[i], frames'[i]) /\ job' = job BY <1>3 DEF Moves
    <2>2. OpenSwitch(frames[i]) BY <2>1, <1>16, AlikeFrames
    <2>3. i \in 1 .. n + 1 /\ i # n + 1 BY <1>3
    <2>4. i \in DOMAIN frames /\ i # Len(frames) BY <2>3, <1>1, <1>3, TopParts
    <2>5. PICK m \in 1 .. L + 1 : at[m] = i BY <2>2, <2>4, <1>4, <1>6 DEF SwitchesFramed
    <2>6. m # L + 1 BY <2>4, <2>5, <1>5, <1>6
    <2>7. m \in 1 .. L BY ONLY <2>6, m \in 1 .. L + 1, L \in Nat
    <2> QED BY <2>5, <2>7, <1>11
  <1>17. SwitchesFramed(new)'
    <2>1. \A l, m \in 1 .. L : l < m => at[l] < at[m] BY <1>4, <1>6, <1>7 DEF SwitchesFramed
    <2>2. \A l, m \in DOMAIN switches' : l < m => new[l] < new[m] BY <2>1, <1>7, <1>11
    <2>3. \A i \in DOMAIN frames' : OpenSwitch(frames'[i]) => \E m \in DOMAIN switches' : new[m] = i
      BY <1>7, <1>12, <1>16
    <2> QED BY <1>15, <2>2, <2>3 DEF SwitchesFramed, OpenSwitch
  <1>18. AnnotationsPlaced(new)'
    <2>1. fallthrough' \in Seq(Nat) /\ RangeOf(fallthrough') = {}
      BY <1>3, PendingParts DEF RangeOf
    <2>2. ASSUME NEW i \in 1 .. n, NEW e \in RangeOf(frames'[i].held)
          PROVE  \E m \in 1 .. L :
                    /\ new[m] < i /\ \A l \in 1 .. L : m < l => i < new[l]
                    /\ e = switches'[m].offset
      <3>1. frames'[i].held = frames[i].held BY <1>3 DEF Moves, Alike
      <3>2. i \in DOMAIN frames
        <4>1. i \in 1 .. Len(frames) BY <1>3
        <4> QED BY <4>1, <1>1, TopParts
      <3>3. PICK m \in 1 .. L + 1 :
               /\ at[m] < i /\ \A l \in 1 .. L + 1 : m < l => i < at[l]
               /\ e = switches[m].offset
        <4>1. \E m \in DOMAIN switches :
                 /\ at[m] < i /\ \A l \in DOMAIN switches : m < l => i < at[l]
                 /\ e = switches[m].offset
          BY <3>1, <3>2, <2>2, <1>4, ZenonT(60) DEF AnnotationsPlaced
        <4> QED BY ONLY <4>1, <1>6
      <3>4. m # L + 1
        <4>1. at[L + 1] = n + 1 BY <1>3, <1>5, <1>6
        <4>2. n \in Nat BY <1>3
        <4> QED BY ONLY <4>1, <4>2, <3>3, i \in 1 .. n
      <3>5. m \in 1 .. L BY ONLY <3>4, m \in 1 .. L + 1, L \in Nat
      <3> QED BY <3>3, <3>5, <1>7, <1>11
    <2>3. \A i \in DOMAIN frames' : \A e \in RangeOf(frames'[i].held) :
             \E m \in DOMAIN switches' :
                /\ new[m] < i /\ \A l \in DOMAIN switches' : m < l => i < new[l]
                /\ e = switches'[m].offset
      <3>1. DOMAIN switches' = 1 .. L BY <1>7
      <3>2. SUFFICES ASSUME NEW i \in DOMAIN frames', NEW e \in RangeOf(frames'[i].held)
                     PROVE  \E m \in DOMAIN switches' :
                               /\ new[m] < i /\ \A l \in DOMAIN switches' : m < l => i < new[l]
                               /\ e = switches'[m].offset
        OBVIOUS
      <3>3. PICK m \in 1 .. L :
               /\ new[m] < i /\ \A l \in 1 .. L : m < l => i < new[l]
               /\ e = switches'[m].offset
        BY ONLY <2>2, <1>12, i \in DOMAIN frames', e \in RangeOf(frames'[i].held), Zenon
      <3>4. m \in DOMAIN switches' BY <3>1
      <3>5. \A l \in DOMAIN switches' : m < l => i < new[l] BY <3>1, <3>3, Zenon
      <3> QED BY ONLY <3>3, <3>4, <3>5, Zenon
    <2>4. \A e \in RangeOf(fallthrough') : switches' # <<>> /\ e = Innermost'.offset BY <2>1
    <2> QED BY <2>1, <2>3, <2>4 DEF AnnotationsPlaced
  <1> QED BY <1>3, <1>8, <1>13, <1>17, <1>18 DEF BodyInv

-----------------------------------------------------------------------------
(* The values of the type of a switch                                      *)

LEMMA DivMod ==
    ASSUME NEW a \in Int, NEW m \in Nat \ {0}
    PROVE  /\ a % m \in 0 .. m - 1 /\ a \div m \in Int
           /\ a = m * (a \div m) + (a % m)
  OBVIOUS

LEMMA SmallMultiple ==
    ASSUME NEW m \in Nat \ {0}, NEW d \in Int, m * d < m, 0 - m < m * d
    PROVE  d = 0
  <1>1. CASE d >= 1
    <2>1. m * d >= m * 1 BY <1>1
    <2> QED BY <2>1
  <1>2. CASE d <= -1
    <2>1. m * d <= m * (-1) BY <1>2
    <2>2. m * (-1) = 0 - m OBVIOUS
    <2> QED BY <2>1, <2>2
  <1> QED BY <1>1, <1>2

LEMMA MultipleMod ==
    ASSUME NEW m \in Nat \ {0}, NEW d \in Int
    PROVE  (m * d) % m = 0
  <1>1. PICK a \in Int : a = m * d OBVIOUS
  <1>2. PICK r \in 0 .. m - 1, q \in Int : a = m * q + r /\ r = a % m BY DivMod
  <1>3. r = m * (d - q) BY <1>1, <1>2
  <1>4. d - q \in Int /\ m * (d - q) < m /\ 0 - m < m * (d - q) BY <1>3
  <1>5. d - q = 0 BY <1>4, SmallMultiple
  <1>6. r = 0 BY <1>3, <1>5
  <1> QED BY <1>1, <1>2, <1>6

LEMMA TypeParts ==
    ASSUME NEW signed \in BOOLEAN
    PROVE  /\ 2 * SignBit \in Nat \ {0} /\ Origin(signed) \in Nat
           /\ \A x : x \in TypeValues(signed) <=> x \in Int /\ x + Origin(signed) \in 0 .. 2 * SignBit - 1
           /\ \A v \in Int : Ordered(v, signed) = (v + Origin(signed)) % (2 * SignBit)
  <1>1. SignBit \in Nat \ {0} BY BodyAssumption
  <1>2. 2 * SignBit \in Nat \ {0} /\ Origin(signed) \in Nat BY <1>1 DEF Origin
  <1>3. ASSUME NEW x PROVE x \in TypeValues(signed) <=> x \in Int /\ x + Origin(signed) \in 0 .. 2 * SignBit - 1
    <2>1. CASE signed BY <2>1, <1>1 DEF TypeValues, Origin
    <2>2. CASE ~signed BY <2>2, <1>1 DEF TypeValues, Origin
    <2> QED BY <2>1, <2>2
  <1>4. \A v \in Int : Ordered(v, signed) = (v + Origin(signed)) % (2 * SignBit)
    BY Zenon DEF Ordered, Origin
  <1> QED BY <1>2, <1>3, <1>4

\* The converted value is where Ordered puts it.
LEMMA ConvertedOrdered ==
    ASSUME NEW v \in Int, NEW signed \in BOOLEAN
    PROVE  /\ Ordered(v, signed) \in 0 .. 2 * SignBit - 1
           /\ Converted(v, signed) \in Int
           /\ Converted(v, signed) + Origin(signed) = Ordered(v, signed)
  <1>1. PICK m \in Nat \ {0} : m = 2 * SignBit BY TypeParts
  <1>2. PICK o \in Nat : o = Origin(signed) BY TypeParts
  <1>3. \A x : x \in TypeValues(signed) <=> x \in Int /\ x + o \in 0 .. m - 1
    BY <1>1, <1>2, TypeParts
  <1>4. PICK a \in Int : a = v + o OBVIOUS
  <1>5. PICK r \in 0 .. m - 1, q \in Int : a = m * q + r /\ r = a % m BY DivMod
  <1>6. Ordered(v, signed) = r BY <1>1, <1>2, <1>4, <1>5, TypeParts
  <1>7. r - o \in TypeValues(signed) /\ (r - o - v) % m = 0
    <2>1. r - o \in Int /\ r - o + o = r OBVIOUS
    <2>2. 0 - q \in Int /\ r - o - v = m * (0 - q) BY <1>4, <1>5
    <2>3. (m * (0 - q)) % m = 0 BY <2>2, MultipleMod
    <2> QED BY <1>3, <2>1, <2>2, <2>3
  <1>8. ASSUME NEW x \in TypeValues(signed), (x - v) % m = 0
        PROVE  x = r - o
    <2>1. x \in Int /\ x + o \in 0 .. m - 1 BY <1>3
    <2>2. PICK b \in Int : b = x - v BY <2>1
    <2>3. PICK d \in Int : b = m * d
      <3>1. b % m = 0 BY <1>8, <2>2
      <3>2. b \div m \in Int /\ b = m * (b \div m) + (b % m) BY DivMod
      <3>3. b = m * (b \div m) BY <3>1, <3>2
      <3> QED BY <3>2, <3>3, Zenon
    <2>8. x = v + m * d BY <2>1, <2>2, <2>3
    <2>4. x + o - r = m * (d + q) BY <2>1, <2>8, <1>4, <1>5
    <2>5. d + q \in Int /\ m * (d + q) < m /\ 0 - m < m * (d + q) BY <2>1, <2>4
    <2>6. d + q = 0 BY <2>5, SmallMultiple
    <2>7. m * (d + q) = 0 BY <2>6
    <2> QED BY <2>1, <2>4, <2>7
  <1>9. Converted(v, signed) = r - o
    <2>1. PICK y : y = r - o OBVIOUS
    <2>2. y \in TypeValues(signed) /\ (y - v) % (2 * SignBit) = 0 BY <1>1, <1>7, <2>1
    <2>3. \A x \in TypeValues(signed) : (x - v) % (2 * SignBit) = 0 => x = y BY <1>1, <1>8, <2>1
    <2>4. (CHOOSE x \in TypeValues(signed) : (x - v) % (2 * SignBit) = 0) = y
      <3>1. PICK c : c = CHOOSE x \in TypeValues(signed) : (x - v) % (2 * SignBit) = 0 OBVIOUS
      <3>2. c \in TypeValues(signed) /\ (c - v) % (2 * SignBit) = 0 BY <2>2, <3>1
      <3> QED BY <2>3, <3>1, <3>2
    <2> QED BY <2>1, <2>4 DEF Converted
  <1> QED BY <1>1, <1>2, <1>6, <1>9

\* The values of a label, as numbers in order.
LEMMA CoveredOrdered ==
    ASSUME NEW low \in Int, NEW high \in Int, NEW signed \in BOOLEAN
    PROVE  Covered(low, high, signed) =
              {x \in TypeValues(signed) : /\ Ordered(low, signed) <= x + Origin(signed)
                                          /\ x + Origin(signed) <= Ordered(high, signed)}
  <1>1. PICK o \in Nat : o = Origin(signed) BY TypeParts
  <1>2. /\ Converted(low, signed) \in Int /\ Converted(low, signed) + o = Ordered(low, signed)
        /\ Converted(high, signed) \in Int /\ Converted(high, signed) + o = Ordered(high, signed)
    BY <1>1, ConvertedOrdered
  <1>3. PICK c, d, e, f : c = Converted(low, signed) /\ d = Converted(high, signed)
                          /\ e = Ordered(low, signed) /\ f = Ordered(high, signed)
    OBVIOUS
  <1>4. c \in Int /\ d \in Int /\ c + o = e /\ d + o = f BY <1>2, <1>3, Zenon
  <1>5. \A x \in Int : (c <= x /\ x <= d) <=> (e <= x + o /\ x + o <= f) BY ONLY <1>4, o \in Nat
  <1>6. \A x \in TypeValues(signed) : x \in Int BY TypeParts
  <1>7. \A x \in TypeValues(signed) : (c <= x /\ x <= d) <=> (e <= x + o /\ x + o <= f) BY <1>5, <1>6, Zenon
  <1>8. {x \in TypeValues(signed) : c <= x /\ x <= d} = {x \in TypeValues(signed) : e <= x + o /\ x + o <= f}
    BY <1>7, Zenon
  <1> QED BY <1>1, <1>3, <1>8, Zenon DEF Covered

-----------------------------------------------------------------------------
(* Ranges of labels                                                        *)

LEMMA CoveredExists ==
    ASSUME NEW low \in Int, NEW high \in Int, NEW signed \in BOOLEAN
    PROVE  Ordered(low, signed) <= Ordered(high, signed) <=> Covered(low, high, signed) # {}
  <1>1. PICK e \in 0 .. 2 * SignBit - 1, f \in 0 .. 2 * SignBit - 1 :
           e = Ordered(low, signed) /\ f = Ordered(high, signed)
    BY ConvertedOrdered
  <1>2. PICK o \in Nat : o = Origin(signed) BY TypeParts
  <1>3. \A x : x \in TypeValues(signed) <=> x \in Int /\ x + o \in 0 .. 2 * SignBit - 1
    BY <1>2, TypeParts
  <1>4. PICK C : C = {x \in TypeValues(signed) : e <= x + o /\ x + o <= f} OBVIOUS
  <1>5. C = Covered(low, high, signed) BY <1>1, <1>2, <1>4, CoveredOrdered
  <1>6. PICK m \in Nat \ {0} : m = 2 * SignBit BY TypeParts
  <1>7. ASSUME e <= f PROVE e - o \in C
    <2>1. e - o \in Int /\ e - o + o = e /\ e \in 0 .. m - 1 BY <1>6
    <2>2. e - o \in TypeValues(signed) BY <1>3, <1>6, <2>1
    <2>3. e <= e /\ e <= f BY <1>6, <1>7
    <2> QED BY <1>4, <2>1, <2>2, <2>3
  <1>8. ASSUME NEW x \in C PROVE e <= f
    <2>1. x \in Int /\ e <= x + o /\ x + o <= f BY <1>3, <1>4
    <2>2. e \in Int /\ f \in Int BY <1>6
    <2> QED BY ONLY <2>1, <2>2, o \in Nat
  <1> QED BY <1>1, <1>5, <1>7, <1>8

\* Ranges meet where their ends say.
LEMMA CoveredMeets ==
    ASSUME NEW low \in Int, NEW high \in Int, NEW signed \in BOOLEAN,
           Ordered(low, signed) <= Ordered(high, signed),
           NEW r \in RangeSet, CoversItself(r, signed)
    PROVE  r.covered \cap Covered(low, high, signed) # {}
              <=> r.low <= Ordered(high, signed) /\ Ordered(low, signed) <= r.high
  <1>1. PICK e \in 0 .. 2 * SignBit - 1, f \in 0 .. 2 * SignBit - 1 :
           e = Ordered(low, signed) /\ f = Ordered(high, signed)
    BY ConvertedOrdered
  <1>2. PICK o \in Nat : o = Origin(signed) BY TypeParts
  <1>3. PICK m \in Nat \ {0} : m = 2 * SignBit BY TypeParts
  <1>4. \A x : x \in TypeValues(signed) <=> x \in Int /\ x + o \in 0 .. m - 1
    BY <1>2, <1>3, TypeParts
  <1>5. PICK a \in Nat, b \in Nat : a = r.low /\ b = r.high BY DEF RangeSet
  <1>6. a <= b /\ b < m BY <1>3, <1>5 DEF CoversItself
  <1>7. /\ \A x : x \in r.covered <=> x \in TypeValues(signed) /\ a <= x + o /\ x + o <= b
        /\ \A x : x \in Covered(low, high, signed) <=> x \in TypeValues(signed) /\ e <= x + o /\ x + o <= f
    <2>1. r.covered = {x \in TypeValues(signed) : a <= x + o /\ x + o <= b} BY <1>2, <1>5 DEF CoversItself
    <2>2. Covered(low, high, signed) = {x \in TypeValues(signed) : e <= x + o /\ x + o <= f}
      BY <1>1, <1>2, CoveredOrdered
    <2> QED BY <2>1, <2>2, Zenon
  <1>8. e \in Nat /\ f \in Nat /\ e < m /\ f < m /\ e <= f BY <1>1, <1>3
  <1>9. ASSUME NEW x, x \in r.covered, x \in Covered(low, high, signed) PROVE a <= f /\ e <= b
    <2>1. x \in Int /\ a <= x + o /\ x + o <= b /\ e <= x + o /\ x + o <= f BY <1>4, <1>7, <1>9
    <2> QED BY ONLY <2>1, <1>8, o \in Nat, a \in Nat, b \in Nat
  <1>10. ASSUME a <= f, e <= b
         PROVE  \E x : x \in r.covered /\ x \in Covered(low, high, signed)
    <2>1. PICK z \in Nat : z = IF e <= a THEN a ELSE e BY <1>8
    <2>2. a <= z /\ z <= b /\ e <= z /\ z <= f /\ z \in 0 .. m - 1
      BY ONLY <2>1, <1>6, <1>8, <1>10, a \in Nat, b \in Nat, m \in Nat
    <2>3. PICK x \in Int : x = z - o OBVIOUS
    <2>4. x + o = z BY <2>3
    <2>5. x \in TypeValues(signed) BY <1>4, <2>2, <2>4
    <2> QED BY <1>7, <2>2, <2>4, <2>5
  <1> QED BY <1>1, <1>5, <1>9, <1>10

\* The last range that starts before the end of another is the only one to look at.
LEMMA OverlapsMeets ==
    ASSUME NEW signed \in BOOLEAN, NEW ranges, RangesApart(ranges, signed),
           NEW e \in Nat, NEW f \in Nat, e <= f
    PROVE  Overlaps(ranges, e, f) <=> \E r \in ranges : r.low <= f /\ e <= r.high
  <1>1. /\ \A r \in ranges : r.low \in Nat /\ r.high \in Nat /\ r.low <= r.high
        /\ \A r, q \in ranges : r # q => r.high < q.low \/ q.high < r.low
    BY DEF RangesApart, RangeSet, CoversItself
  <1>2. ASSUME NEW q \in ranges, q.low <= f, e <= q.high
        PROVE  Overlaps(ranges, e, f)
    <2> DEFINE S == {n \in 0 .. f : \E r \in ranges : r.low = n}
    <2>1. q.low \in S BY <1>1, <1>2
    <2>2. PICK g \in S : \A k \in S : k <= g
      <3>1. S \in SUBSET (0 .. f) /\ S # {} BY <2>1
      <3> QED BY <3>1, GreatestExists
    <2>3. PICK r \in ranges : r.low = g BY <2>2
    <2>4. g \in Nat /\ g <= f BY <2>2
    <2>5. ASSUME NEW p \in ranges, p.low <= f PROVE p.low <= r.low
      <3>1. p.low \in S BY <1>1, <2>5
      <3> QED BY <2>2, <2>3, <3>1
    <2>6. e <= r.high
      <3>1. CASE r = q BY <3>1, <1>2
      <3>2. CASE r # q
        <4>1. q.low <= r.low BY <1>2, <2>5
        <4>2. q.high < r.low \/ r.high < q.low BY <1>1, <3>2
        <4>3. /\ r.low \in Nat /\ r.high \in Nat /\ r.low <= r.high
              /\ q.low \in Nat /\ q.high \in Nat
          BY <1>1
        <4> QED BY ONLY <4>1, <4>2, <4>3, <1>2, e \in Nat
      <3> QED BY <3>1, <3>2
    <2>7. r.low <= f BY <2>3, <2>4
    <2> QED BY <2>5, <2>6, <2>7 DEF Overlaps
  <1>3. ASSUME Overlaps(ranges, e, f) PROVE \E r \in ranges : r.low <= f /\ e <= r.high
    BY <1>3, Zenon DEF Overlaps
  <1> QED BY <1>2, <1>3

\* A range that is accepted stays apart from the others and is new.
LEMMA RangeEnters ==
    ASSUME NEW low \in Int, NEW high \in Int, NEW signed \in BOOLEAN,
           NEW ranges, RangesApart(ranges, signed),
           Ordered(low, signed) <= Ordered(high, signed),
           ~Overlaps(ranges, Ordered(low, signed), Ordered(high, signed)),
           NEW n, n = [low |-> Ordered(low, signed), high |-> Ordered(high, signed),
                       covered |-> Covered(low, high, signed)]
    PROVE  /\ RangesApart({r \in ranges : r.low # Ordered(low, signed)} \cup {n}, signed)
           /\ n \notin ranges
  <1>1. PICK e \in 0 .. 2 * SignBit - 1, f \in 0 .. 2 * SignBit - 1 :
           e = Ordered(low, signed) /\ f = Ordered(high, signed)
    BY ConvertedOrdered
  <1>2. PICK m \in Nat \ {0} : m = 2 * SignBit BY TypeParts
  <1>3. e \in Nat /\ f \in Nat /\ e <= f /\ f < m BY <1>1, <1>2
  <1>4. PICK C : C = Covered(low, high, signed) OBVIOUS
  <1>5. n = [low |-> e, high |-> f, covered |-> C] BY <1>1, <1>4
  <1>6. n.low = e /\ n.high = f /\ n.covered = C BY <1>5
  <1>7. C = {x \in TypeValues(signed) : e <= x + Origin(signed) /\ x + Origin(signed) <= f}
    BY <1>1, <1>4, CoveredOrdered
  <1>8. CoversItself(n, signed) BY <1>2, <1>3, <1>6, <1>7 DEF CoversItself
  <1>9. n \in RangeSet
    <2>1. PICK I : I = SUBSET Int OBVIOUS
    <2>2. C \in I
      <3>1. \A x \in TypeValues(signed) : x \in Int BY TypeParts
      <3>2. \A x \in C : x \in Int BY <3>1, <1>7, Zenon
      <3> QED BY ONLY <2>1, <3>2, Zenon
    <2>3. n \in [low : Nat, high : Nat, covered : I] BY ONLY <2>2, <1>3, <1>5
    <2> QED BY <2>1, <2>3, Zenon DEF RangeSet
  <1>10. ~\E r \in ranges : r.low <= f /\ e <= r.high BY <1>1, <1>3, OverlapsMeets
  <1>11. n \notin ranges
    <2>1. n.low <= f /\ e <= n.high BY <1>3, <1>6
    <2> QED BY <2>1, <1>10
  <1>12. ASSUME NEW r \in ranges PROVE r.high < n.low \/ n.high < r.low
    <2>1. r.low \in Nat /\ r.high \in Nat BY DEF RangesApart, RangeSet
    <2> QED BY <2>1, <1>3, <1>6, <1>10
  <1>13. PICK S : S = {r \in ranges : r.low # e} OBVIOUS
  <1>14. S \subseteq ranges BY <1>13
  <1>15. RangesApart(S \cup {n}, signed)
    <2>1. S \cup {n} \subseteq RangeSet BY <1>9, <1>14 DEF RangesApart
    <2>2. \A r \in S \cup {n} : CoversItself(r, signed) BY <1>8, <1>14 DEF RangesApart
    <2>3. \A r, q \in S \cup {n} : r # q => r.high < q.low \/ q.high < r.low
      BY <1>12, <1>14 DEF RangesApart
    <2> QED BY <2>1, <2>2, <2>3 DEF RangesApart
  <1> QED BY <1>1, <1>11, <1>13, <1>15

LEMMA CaseTest ==
    ASSUME BodyInv
    PROVE  CaseTestExact
  <1> SUFFICES ASSUME switches # <<>>, NEW c \in job.cases
        PROVE  LET from == Ordered(c[1], Innermost.signed)
                   to == Ordered(c[2], Innermost.signed)
                   covered == Covered(c[1], c[2], Innermost.signed)
               IN  /\ from <= to <=> covered # {}
                   /\ from <= to =>
                         (Overlaps(Innermost.ranges, from, to)
                            <=> \E r \in Innermost.ranges : r.covered \cap covered # {})
    BY Zenon DEF CaseTestExact
  <1>1. job \in Jobs BY BodyParts
  <1>2. c[1] \in Int /\ c[2] \in Int BY <1>1, JobParts
  <1>3. PICK low \in Int, high \in Int : low = c[1] /\ high = c[2] BY <1>2
  <1>4. PICK signed \in BOOLEAN : signed = Innermost.signed BY InnermostParts, Zenon
  <1>5. PICK ranges : ranges = Innermost.ranges OBVIOUS
  <1>6. RangesApart(ranges, signed) BY <1>4, <1>5, InnermostParts, Zenon
  <1>7. PICK e \in 0 .. 2 * SignBit - 1, f \in 0 .. 2 * SignBit - 1 :
           e = Ordered(low, signed) /\ f = Ordered(high, signed)
    BY ConvertedOrdered
  <1>8. PICK C : C = Covered(low, high, signed) OBVIOUS
  <1>9. e <= f <=> C # {} BY <1>7, <1>8, CoveredExists, Zenon
  <1>10. ASSUME e <= f PROVE Overlaps(ranges, e, f) <=> \E r \in ranges : r.covered \cap C # {}
    <2>1. e \in Nat /\ f \in Nat
      <3>1. 2 * SignBit \in Nat \ {0} BY BodyAssumption
      <3>2. PICK m \in Nat : m = 2 * SignBit BY <3>1
      <3> QED BY <3>2
    <2>2. Overlaps(ranges, e, f) <=> \E r \in ranges : r.low <= f /\ e <= r.high
      BY <1>6, <1>10, <2>1, OverlapsMeets
    <2>3. ASSUME NEW r \in ranges PROVE r.covered \cap C # {} <=> r.low <= f /\ e <= r.high
      <3>1. r \in RangeSet /\ CoversItself(r, signed) BY <1>6 DEF RangesApart
      <3>2. Ordered(low, signed) <= Ordered(high, signed) BY <1>7, <1>10
      <3> QED BY <1>7, <1>8, <3>1, <3>2, CoveredMeets, Zenon
    <2> QED BY <2>2, <2>3, Zenon
  <1> QED BY <1>3, <1>4, <1>5, <1>7, <1>8, <1>9, <1>10, Zenon

-----------------------------------------------------------------------------
(* Labels of switches                                                      *)

\* The innermost switch changes.
LEMMA InnermostChanges ==
    ASSUME BodyInv, switches # <<>>, NEW s \in SwitchSet, SameSwitch(Innermost, s),
           RangesApart(s.ranges, s.signed),
           switches' = [switches EXCEPT ![Len(switches)] = s], switch_count' = switch_count
    PROVE  SwitchesSame /\ Len(switches') = Len(switches) /\ Innermost' = s
  <1>1. SwitchesTyped /\ Len(switches) \in DOMAIN switches BY BodyParts, InnermostParts
  <1>2. switches \in Seq(SwitchSet) /\ DOMAIN switches = 1 .. Len(switches) /\ switch_count \in Nat
    BY <1>1, SwitchParts DEF SwitchesTyped
  <1>3. PICK t : t = [switches EXCEPT ![Len(switches)] = s] OBVIOUS
  <1>4. PICK L : L = Len(switches) OBVIOUS
  <1>5. t \in Seq(SwitchSet) /\ Len(t) = L /\ \A m \in 1 .. L : t[m] = IF m = L THEN s ELSE switches[m]
    BY <1>1, <1>2, <1>3, <1>4, ExceptSeq
  <1>6. DOMAIN t = 1 .. L BY <1>5, LenProperties
  <1>7. ASSUME NEW m \in 1 .. L
        PROVE  SameSwitch(switches[m], t[m]) /\ RangesApart(t[m].ranges, t[m].signed)
    <2>1. CASE m = L BY <2>1, <1>4, <1>5 DEF Innermost
    <2>2. CASE m # L
      <3>1. t[m] = switches[m] /\ m \in DOMAIN switches BY <2>2, <1>2, <1>4, <1>5
      <3>2. SameSwitch(switches[m], t[m]) BY <3>1 DEF SameSwitch
      <3> QED BY <3>1, <3>2, <1>1, Zenon DEF SwitchesTyped
    <2> QED BY <2>1, <2>2
  <1>8. switches' = t BY <1>3
  <1>9. SwitchesTyped' BY <1>2, <1>5, <1>6, <1>7, <1>8 DEF SwitchesTyped
  <1>10. SwitchesSame BY <1>2, <1>4, <1>6, <1>7, <1>8, <1>9 DEF SwitchesSame
  <1>11. Innermost' = s
    <2>1. L \in 1 .. L BY <1>1, <1>2, <1>4
    <2> QED BY <2>1, <1>5, <1>8 DEF Innermost
  <1> QED BY <1>4, <1>5, <1>8, <1>10, <1>11

\* A label of a switch.
LEMMA LabelledKeeps ==
    ASSUME BodyInv, SwitchesSame, ~SwitchOperand(Top),
           job' = job, scopes' = scopes, vm_parents' = vm_parents,
           expression_parents' = expression_parents, active_expression' = active_expression,
           fallthrough' = <<>>, frames' = Append(Taken, Frame("label", "statement"))
    PROVE  BodyInv'
  <1>1. Steady BY PendingParts, Zenon DEF Steady
  <1>2. "label" \in Kinds \ {"body", "statement_expression"} /\ "statement" \in Places /\ "label" # "switch"
    BY DEF Kinds, Places
  <1>3. 0 \in Nat /\ 0 = Width(Frame("label", "statement")) BY <1>2, FrameWidths
  <1> QED BY <1>1, <1>2, <1>3, FrameKeeps, Zenon

\* How a label changes its switch.
LEMMA CaseParts ==
    ASSUME BodyInv, NEW low \in Int, NEW high \in Int, Case(low, high)
    PROVE  /\ SwitchesSame /\ Len(switches') = Len(switches) /\ switches' # switches
           /\ switches # <<>> /\ check_switch_entry
  <1>1. switches # <<>> /\ check_switch_entry BY DEF Case, check_switch_entry
  <1>2. PICK w \in SwitchSet : w = Innermost BY <1>1, InnermostParts, Zenon
  <1>3. PICK signed \in BOOLEAN : signed = w.signed BY <1>1, <1>2, InnermostParts, Zenon
  <1>4. RangesApart(w.ranges, signed) BY <1>1, <1>2, <1>3, InnermostParts, Zenon
  <1>5. PICK n : n = [low |-> Ordered(low, signed), high |-> Ordered(high, signed),
                      covered |-> Covered(low, high, signed)]
    OBVIOUS
  <1>6. PICK R : R = {r \in w.ranges : r.low # Ordered(low, signed)} \cup {n} OBVIOUS
  <1>7. /\ Ordered(low, signed) <= Ordered(high, signed)
        /\ ~Overlaps(w.ranges, Ordered(low, signed), Ordered(high, signed))
        /\ switch_count' = switch_count
    BY <1>2, <1>3, Zenon DEF Case
  <1>8. switches' = [switches EXCEPT ![Len(switches)].ranges =
                        {r \in @ : r.low # Ordered(low, Innermost.signed)} \cup
                        {[low |-> Ordered(low, Innermost.signed), high |-> Ordered(high, Innermost.signed),
                          covered |-> Covered(low, high, Innermost.signed)]}]
    BY DEF Case
  <1>9. PICK s : s = [w EXCEPT !.ranges = R] OBVIOUS
  <1>10. switches' = [switches EXCEPT ![Len(switches)] = s]
    BY <1>2, <1>3, <1>5, <1>6, <1>8, <1>9 DEF Innermost
  <1>11. RangesApart(R, signed) /\ n \notin w.ranges BY <1>4, <1>5, <1>6, <1>7, RangeEnters
  <1>12. /\ s.ranges = R /\ s.signed = signed /\ SameSwitch(w, s) /\ s \in SwitchSet
    <2>1. PICK RS, N : RS = SUBSET RangeSet /\ N = Numbers OBVIOUS
    <2> DEFINE Set == [offset : Nat, signed : BOOLEAN, ranges : RS, has_default : BOOLEAN,
                       variably_modified : N, statement_expression : N,
                       live : SUBSET Nat, inside : SUBSET Nat]
    <2>2. SwitchSet = Set BY <2>1 DEF SwitchSet
    <2>3. R \in RS BY <1>11, <2>1 DEF RangesApart
    <2>4. w \in Set BY <2>2
    <2>5. s \in Set BY ONLY <2>3, <2>4, <1>9
    <2>6. s.ranges = R /\ s.signed = w.signed /\ s.offset = w.offset /\ s.live = w.live
          /\ s.inside = w.inside /\ s.variably_modified = w.variably_modified
          /\ s.statement_expression = w.statement_expression
      BY ONLY <2>4, <1>9
    <2> QED BY <2>2, <2>5, <2>6, <1>3 DEF SameSwitch
  <1>13. SwitchesSame /\ Len(switches') = Len(switches) /\ Innermost' = s
    <2>1. SameSwitch(Innermost, s) /\ RangesApart(s.ranges, s.signed) BY <1>2, <1>11, <1>12
    <2> QED BY <1>1, <1>7, <1>10, <1>12, <2>1, InnermostChanges
  <1>14. s.ranges # w.ranges BY <1>6, <1>11, <1>12
  <1>15. switches' # switches
    <2>1. SUFFICES ASSUME switches' = switches PROVE FALSE OBVIOUS
    <2>2. Innermost' = Innermost BY <2>1 DEF Innermost
    <2> QED BY <2>2, <1>2, <1>13, <1>14
  <1> QED BY <1>1, <1>13, <1>15

LEMMA DefaultParts ==
    ASSUME BodyInv, Default
    PROVE  /\ SwitchesSame /\ Len(switches') = Len(switches) /\ switches' # switches
           /\ switches # <<>> /\ check_switch_entry
  <1>1. switches # <<>> /\ check_switch_entry /\ ~Innermost.has_default /\ switch_count' = switch_count
    BY DEF Default, check_switch_entry
  <1>2. PICK w \in SwitchSet : w = Innermost BY <1>1, InnermostParts, Zenon
  <1>3. switches' = [switches EXCEPT ![Len(switches)].has_default = TRUE] BY DEF Default
  <1>4. PICK s : s = [w EXCEPT !.has_default = TRUE] OBVIOUS
  <1>5. switches' = [switches EXCEPT ![Len(switches)] = s] BY <1>2, <1>3, <1>4 DEF Innermost
  <1>6. s \in SwitchSet /\ s.has_default /\ SameSwitch(w, s) /\ s.ranges = w.ranges /\ s.signed = w.signed
    <2>1. PICK RS, N : RS = SUBSET RangeSet /\ N = Numbers OBVIOUS
    <2> DEFINE Set == [offset : Nat, signed : BOOLEAN, ranges : RS, has_default : BOOLEAN,
                       variably_modified : N, statement_expression : N,
                       live : SUBSET Nat, inside : SUBSET Nat]
    <2>2. SwitchSet = Set BY <2>1 DEF SwitchSet
    <2>3. w \in Set BY <2>2
    <2>4. s \in Set BY ONLY <2>3, <1>4
    <2>5. s.ranges = w.ranges /\ s.signed = w.signed /\ s.offset = w.offset /\ s.live = w.live
          /\ s.inside = w.inside /\ s.variably_modified = w.variably_modified
          /\ s.statement_expression = w.statement_expression
      BY ONLY <2>3, <1>4
    <2>6. s.has_default BY ONLY <2>3, <1>4
    <2> QED BY <2>2, <2>4, <2>5, <2>6 DEF SameSwitch
  <1>7. SwitchesSame /\ Len(switches') = Len(switches) /\ Innermost' = s
    <2>1. SameSwitch(Innermost, s) /\ RangesApart(s.ranges, s.signed)
      BY <1>1, <1>2, <1>6, InnermostParts
    <2> QED BY <1>1, <1>5, <1>6, <2>1, InnermostChanges
  <1>8. switches' # switches
    <2>1. SUFFICES ASSUME switches' = switches PROVE FALSE OBVIOUS
    <2>2. Innermost' = Innermost BY <2>1 DEF Innermost
    <2> QED BY <2>2, <1>1, <1>6, <1>7
  <1> QED BY <1>1, <1>7, <1>8

LEMMA CaseKeeps ==
    ASSUME BodyInv, NEW low \in Int, NEW high \in Int, Case(low, high)
    PROVE  BodyInv'
  <1>1. SwitchesSame BY CaseParts
  <1>2. /\ job' = job /\ scopes' = scopes /\ vm_parents' = vm_parents
        /\ expression_parents' = expression_parents /\ active_expression' = active_expression
        /\ fallthrough' = <<>> /\ frames' = Append(Taken, Frame("label", "statement"))
        /\ Begin("case", FALSE)
    BY Zenon DEF Case, scopeVars, Push
  <1>3. ~SwitchOperand(Top) BY <1>2, BeginParts, Zenon
  <1> QED BY <1>1, <1>2, <1>3, LabelledKeeps, Zenon

LEMMA DefaultKeeps ==
    ASSUME BodyInv, Default
    PROVE  BodyInv'
  <1>1. SwitchesSame BY DefaultParts
  <1>2. /\ job' = job /\ scopes' = scopes /\ vm_parents' = vm_parents
        /\ expression_parents' = expression_parents /\ active_expression' = active_expression
        /\ fallthrough' = <<>> /\ frames' = Append(Taken, Frame("label", "statement"))
        /\ Begin("default", FALSE)
    BY Zenon DEF Default, scopeVars, Push
  <1>3. ~SwitchOperand(Top) BY <1>2, BeginParts, Zenon
  <1> QED BY <1>1, <1>2, <1>3, LabelledKeeps, Zenon

-----------------------------------------------------------------------------
(* The invariant                                                           *)

LEMMA InitHolds ==
    ASSUME Init
    PROVE  BodyInv
  <1>1. PICK b : b = [kind |-> "body", pc |-> "items", base |-> 0, expects |-> "any",
                      held |-> <<>>, previous |-> None, expression |-> None]
    OBVIOUS
  <1>2. /\ job \in Jobs /\ frames = <<b>> /\ scopes = <<EmptyScope>> /\ vm_parents = <<>>
        /\ expression_parents = <<>> /\ active_expression = None
        /\ switches = <<>> /\ switch_count = 0 /\ fallthrough = <<>>
    BY <1>1 DEF Init
  <1>3. /\ b.kind = "body" /\ b.pc = "items" /\ b.base = 0 /\ b.held = <<>>
        /\ b.previous = None /\ b.expression = None
    BY <1>1
  <1>4. b \in FrameSet
    <2>1. "body" \in Kinds /\ "items" \in Places /\ "any" \in {"any", "quiet", "other"} BY DEF Kinds, Places
    <2>2. <<>> \in Seq(Nat) /\ None \in Numbers BY DEF Numbers
    <2>3. PICK S, N, P, K, E : S = Seq(Nat) /\ N = Numbers /\ P = Places /\ K = Kinds
                               /\ E = {"any", "quiet", "other"}
      OBVIOUS
    <2>4. PICK kind \in K, pc \in P, any \in E, h \in S, o \in N :
             kind = "body" /\ pc = "items" /\ any = "any" /\ h = <<>> /\ o = None
      BY <2>1, <2>2, <2>3
    <2>5. b = [kind |-> kind, pc |-> pc, base |-> 0, expects |-> any, held |-> h, previous |-> o, expression |-> o]
      BY <1>1, <2>4
    <2>6. b \in [kind : K, pc : P, base : Nat, expects : E, held : S, previous : N, expression : N]
      BY ONLY <2>5, kind \in K, pc \in P, any \in E, h \in S, o \in N
    <2> QED BY <2>3, <2>6 DEF FrameSet
  <1>5. /\ frames \in Seq(FrameSet) /\ Len(frames) = 1 /\ DOMAIN frames = {1} /\ frames[1] = b /\ Top = b
    BY <1>2, <1>4 DEF Top
  <1>6. FramesShaped BY <1>3, <1>5 DEF FramesShaped
  <1>7. Width(b) = 1 BY <1>3 DEF Width
  <1>8. ScopesFramed
    <2>1. Len(scopes) = 1 /\ Len(frames) - 1 = 0 BY <1>2, <1>5
    <2>2. \A i, j \in DOMAIN frames : ~(i < j) BY <1>5
    <2>3. \A i \in 1 .. Len(frames) - 1 : FALSE
      <3>1. \A i \in 1 .. 0 : FALSE OBVIOUS
      <3> QED BY <2>1, <3>1, Zenon
    <2> QED BY <1>3, <1>5, <1>7, <2>1, <2>2, <2>3 DEF ScopesFramed
  <1>9. ScopesNumbered
    <2>1. EmptyScope \in ScopeSet /\ EmptyScope.live = {} /\ Summit(EmptyScope.variably_modified, EmptyScope.live)
      BY EmptyScopeParts
    <2>2. PICK e \in ScopeSet : e = EmptyScope BY <2>1
    <2>3. <<e>> \in Seq(ScopeSet) /\ DOMAIN <<e>> = {1} /\ <<e>>[1] = e OBVIOUS
    <2>4. scopes \in Seq(ScopeSet) /\ DOMAIN scopes = {1} /\ scopes[1] = EmptyScope BY <1>2, <2>2, <2>3
    <2>5. vm_parents \in Seq(Numbers) BY <1>2
    <2> QED BY <2>1, <2>4, <2>5 DEF ScopesNumbered
  <1>10. ExpressionsNumbered
    <2>1. Inside = {} BY <1>3, <1>5 DEF Inside
    <2>2. Summit(active_expression, Inside) BY <1>2, <2>1 DEF Summit
    <2> QED BY <1>2, <1>3, <1>5, <2>2 DEF ExpressionsNumbered
  <1>11. SwitchesTyped BY <1>2 DEF SwitchesTyped
  <1>12. OperandsClear BY <1>3, <1>5 DEF OperandsClear
  <1>13. PICK at : at = [m \in {} |-> 0] OBVIOUS
  <1>14. DOMAIN switches = {} BY <1>2
  <1>15. at \in [DOMAIN switches -> DOMAIN frames] BY <1>13, <1>14
  <1>16. SwitchesFramed(at)
    <2>1. ~OpenSwitch(b) BY <1>3 DEF OpenSwitch
    <2> QED BY <2>1, <1>5, <1>14 DEF SwitchesFramed
  <1>17. AnnotationsPlaced(at)
    <2>1. RangeOf(<<>>) = {} BY DEF RangeOf
    <2> QED BY <2>1, <1>2, <1>3, <1>5 DEF AnnotationsPlaced
  <1> QED BY <1>2, <1>6, <1>8, <1>9, <1>10, <1>11, <1>12, <1>15, <1>16, <1>17 DEF BodyInv

LEMMA NextKeeps ==
    ASSUME BodyInv, [Next]_vars
    PROVE  BodyInv'
  <1>1. job \in Jobs BY BodyParts
  <1>2. CASE Empty \/ Plain \/ Break \/ Continue \/ EndBody \/ Fail \/ Done \/ UNCHANGED vars
    BY <1>2, PlainKeeps
  <1>3. CASE Fallthrough BY <1>3, FallthroughKeeps
  <1>4. ASSUME NEW l \in Labels, Goto(l) \/ \E quiet \in BOOLEAN : Label(l, quiet)
        PROVE  BodyInv'
    BY <1>4, PlainKeeps, LabelKeeps
  <1>5. ASSUME NEW c \in job.cases, Case(c[1], c[2]) PROVE BodyInv'
    <2>1. c[1] \in Int /\ c[2] \in Int BY <1>1, JobParts
    <2> QED BY <1>5, <2>1, CaseKeeps
  <1>6. CASE Default BY <1>6, DefaultKeeps
  <1>7. CASE EndLabel \/ EndOperands BY <1>7, EndKeeps
  <1>8. CASE Compound BY <1>8, CompoundKeeps
  <1>9. CASE EndCompound \/ EndLoop \/ EndDo BY <1>9, EndBlockKeeps
  <1>10. CASE Expression BY <1>10, ExpressionKeeps
  <1>11. ASSUME NEW kind \in {"vm", "object", "typedef"}, Declare(kind) PROVE BodyInv'
    BY <1>11, DeclareKeeps
  <1>12. CASE Declared BY <1>12, DeclaredKeeps
  <1>13. CASE statement_expression BY <1>13, StatementExpressionKeeps
  <1>14. CASE EndStatementExpression BY <1>14, EndStatementExpressionKeeps
  <1>15. CASE If BY <1>15, IfKeeps
  <1>16. CASE Then \/ LoopBody BY <1>16, BranchKeeps
  <1>17. CASE Else BY <1>17, ElseKeeps
  <1>18. CASE EndIf BY <1>18, EndIfKeeps
  <1>19. ASSUME NEW kind \in {"while", "for"}, While(kind) PROVE BodyInv'
    BY <1>19, WhileKeeps
  <1>20. CASE ForClauses BY <1>20, ForClausesKeeps
  <1>21. CASE Do BY <1>21, DoKeeps
  <1>22. CASE DoCondition BY <1>22, DoConditionKeeps
  <1>23. CASE Switch BY <1>23, SwitchKeeps
  <1>24. ASSUME NEW signed \in BOOLEAN, SwitchBody(signed) PROVE BodyInv'
    BY <1>24, SwitchBodyKeeps
  <1>25. CASE EndSwitch BY <1>25, EndSwitchKeeps
  <1> QED
    BY <1>2, <1>3, <1>4, <1>5, <1>6, <1>7, <1>8, <1>9, <1>10, <1>11, <1>12, <1>13, <1>14, <1>15,
       <1>16, <1>17, <1>18, <1>19, <1>20, <1>21, <1>22, <1>23, <1>24, <1>25, Zenon
    DEF Next

\* The frames, scopes, statement expressions and switches of a body fit together,
\* and every pending annotation waits for the switch it stands in, in every state.
THEOREM BodyInvariant == Spec => []BodyInv
  <1>1. Init => BodyInv BY InitHolds
  <1>2. BodyInv /\ [Next]_vars => BodyInv' BY NextKeeps
  <1> QED BY <1>1, <1>2, PTL DEF Spec

-----------------------------------------------------------------------------
(* Labels enter nothing                                                    *)

\* What is live or entered since the switch has a number above the switch's own.
LEMMA EntryTest ==
    ASSUME BodyInv, switches # <<>>, check_switch_entry
    PROVE  Live = Innermost.live /\ Inside = Innermost.inside
  <1>1. /\ job \in Jobs /\ FramesShaped /\ ScopesFramed /\ ScopesNumbered /\ ExpressionsNumbered
        /\ SwitchesTyped
    BY BodyParts
  <1>2. PICK at \in [DOMAIN switches -> DOMAIN frames] : SwitchesFramed(at) /\ AnnotationsPlaced(at)
    BY BodyParts
  <1>3. Len(switches) \in DOMAIN switches BY InnermostParts
  <1>4. PICK s : s = Innermost OBVIOUS
  <1>5. PICK k \in DOMAIN frames : k = at[Len(switches)] BY <1>2, <1>3
  <1>6. OpenSwitch(frames[k]) /\ Recorded(s, k) BY <1>2, <1>3, <1>4, <1>5 DEF SwitchesFramed, Innermost
  <1>7. /\ active_expression = s.statement_expression
        /\ active_variably_modified = s.variably_modified
    BY <1>4, Zenon DEF check_switch_entry
  <1>8. s.live \subseteq Live
    <2>1. Width(frames[k]) = 2 * ControlScopes BY <1>6 DEF OpenSwitch, Width, Controls
    <2>2. End(k) <= Len(scopes) /\ End(k) \in Nat
      <3>1. k \in 1 .. Len(frames) /\ Len(frames) \in DOMAIN frames BY <1>1, TopParts
      <3>2. k <= Len(frames) BY <3>1
      <3> QED BY <1>1, <3>1, <3>2, EndsGrow, TopEnds
    <2>3. frames[k].base \in Nat /\ ControlScopes \in {0, 1} /\ Len(scopes) \in Nat
      BY <1>1, FrameParts, JobParts, ScopeParts
    <2>4. End(k) = frames[k].base + 2 * ControlScopes BY <2>1 DEF End
    <2>5. \A i \in 1 .. frames[k].base + ControlScopes : i \in 1 .. Len(scopes)
      BY ONLY <2>2, <2>3, <2>4
    <2>6. DOMAIN scopes = 1 .. Len(scopes) BY <1>1, ScopeParts
    <2>7. LiveOf(frames[k].base + ControlScopes) \subseteq Live BY <2>5, <2>6, Zenon DEF LiveOf, Live
    <2> QED BY <2>7, <1>6 DEF Recorded
  <1>9. Live \subseteq Nat
    <2>1. Live \subseteq 1 .. Len(vm_parents) BY <1>1, ScopeParts
    <2> QED BY <2>1
  <1>10. PICK v : v = active_variably_modified OBVIOUS
  <1>11. Summit(v, Live) /\ Summit(v, s.live) BY <1>1, <1>6, <1>7, <1>10, ActiveIsSummit DEF Recorded
  <1>12. Live = s.live
    <2>1. SUFFICES ASSUME NEW x \in Live, x \notin s.live PROVE FALSE BY <1>8
    <2>2. v \in Nat /\ v # None /\ x <= v /\ v \in Live
      BY <2>1, <1>9, <1>11, SummitParts
    <2>3. v \in s.live
      <3>1. s.live # {} BY <2>2, <1>11 DEF Summit
      <3> QED BY <3>1, <1>11 DEF Summit
    <2>4. v < x BY <2>1, <2>3, <1>6 DEF Recorded
    <2>5. x \in Nat BY <1>9
    <2> QED BY ONLY <2>2, <2>4, <2>5
  <1>13. PICK a : a = active_expression OBVIOUS
  <1>14. Summit(a, Inside) /\ Summit(a, s.inside)
    BY <1>1, <1>6, <1>7, <1>13 DEF Recorded, ExpressionsNumbered
  <1>15. s.inside = InsideOf(k - 1) BY <1>6 DEF Recorded
  <1>16. k \in 1 .. Len(frames) /\ Len(frames) \in Nat /\ DOMAIN frames = 1 .. Len(frames)
    BY <1>1, TopParts
  <1>17. Inside \subseteq Nat
    <2>1. Inside = InsideOf(Len(frames)) /\ Len(frames) \in 0 .. Len(frames) BY <1>1, <1>16, InsideParts
    <2>2. InsideOf(Len(frames)) \subseteq 1 .. Len(expression_parents) BY <1>1, <2>1, InsideParts
    <2> QED BY <2>1, <2>2
  <1>18. s.inside \subseteq Inside
    <2>1. \A i \in 1 .. k - 1 : i \in DOMAIN frames BY ONLY <1>16
    <2> QED BY <2>1, <1>15, Zenon DEF InsideOf, Inside
  <1>19. Inside = s.inside
    <2>1. SUFFICES ASSUME NEW x \in Inside, x \notin s.inside PROVE FALSE BY <1>18
    <2>2. a \in Nat /\ a # None /\ x <= a
      BY <2>1, <1>14, <1>17, SummitParts
    <2>3. a \in s.inside
      <3>1. s.inside # {} BY <2>2, <1>14 DEF Summit
      <3> QED BY <3>1, <1>14 DEF Summit
    <2>4. PICK j \in DOMAIN frames : x = frames[j].expression /\ x # None BY DEF Inside
    <2>5. PICK i \in 1 .. k - 1 : a = frames[i].expression BY <2>3, <1>15 DEF InsideOf
    <2>6. j \notin 1 .. k - 1 BY <2>1, <2>4, <1>15, Zenon DEF InsideOf
    <2>7. i \in DOMAIN frames /\ i < j BY ONLY <1>16, <2>6, j \in DOMAIN frames, i \in 1 .. k - 1
    <2>8. a < x BY <1>1, <2>2, <2>4, <2>5, <2>7 DEF ExpressionsNumbered
    <2>9. x \in Nat BY <1>17
    <2> QED BY ONLY <2>2, <2>8, <2>9
  <1> QED BY <1>4, <1>12, <1>19

\* A list keeps its elements when one is added, whatever it is.
LEMMA AppendKeeps ==
    ASSUME NEW S, NEW s \in Seq(S), NEW e
    PROVE  /\ \A i \in DOMAIN s : i \in DOMAIN Append(s, e) /\ Append(s, e)[i] = s[i]
           /\ Len(s) + 1 \in DOMAIN Append(s, e) /\ Append(s, e)[Len(s) + 1] = e
  <1>1. PICK T : T = S \cup {e} OBVIOUS
  <1>2. DOMAIN s = 1 .. Len(s) /\ Len(s) \in Nat BY LenProperties
  <1>3. \A i \in 1 .. Len(s) : s[i] \in S BY ElementOfSeq
  <1>4. s \in Seq(T) /\ e \in T BY <1>1
  <1>5. /\ Append(s, e) \in Seq(T) /\ Len(Append(s, e)) = Len(s) + 1
        /\ \A i \in 1 .. Len(s) : Append(s, e)[i] = s[i]
        /\ Append(s, e)[Len(s) + 1] = e
    BY <1>4, AppendProperties
  <1>6. DOMAIN Append(s, e) = 1 .. Len(s) + 1 BY <1>5, LenProperties
  <1> QED BY <1>2, <1>5, <1>6

LEMMA PositiveLast ==
    ASSUME NEW n \in Nat, n \in 1 .. n
    PROVE  n > 0 /\ n - 1 # n
  OBVIOUS

\* Only the labels of a switch change one.
LEMMA OthersKeepSwitches ==
    ASSUME BodyInv, [Next]_vars
    PROVE  \/ switches' = switches \/ Len(switches') # Len(switches)
           \/ Default \/ \E c \in job.cases : Case(c[1], c[2])
  <1>1. CASE \/ Empty \/ Plain \/ Fallthrough \/ Break \/ Continue \/ EndLabel \/ Compound \/ EndCompound
             \/ Expression \/ Declared \/ EndOperands \/ statement_expression \/ EndStatementExpression
             \/ If \/ Then \/ Else \/ EndIf
    BY <1>1, Zenon
    DEF Empty, Plain, Fallthrough, Break, Continue, EndLabel, Compound, EndCompound, Expression,
        Declared, EndOperands, statement_expression, EndStatementExpression, If, Then, Else, EndIf,
        controlVars
  <1>2. CASE \/ ForClauses \/ LoopBody \/ EndLoop \/ Do \/ DoCondition \/ EndDo \/ Switch \/ EndBody
             \/ Fail \/ Done \/ UNCHANGED vars
    BY <1>2, Zenon
    DEF ForClauses, LoopBody, EndLoop, Do, DoCondition, EndDo, Switch, EndBody, Fail, Done, vars, controlVars
  <1>3. ASSUME NEW l \in Labels, Goto(l) \/ \E quiet \in BOOLEAN : Label(l, quiet)
        PROVE  switches' = switches
    BY <1>3, Zenon DEF Goto, Label
  <1>4. ASSUME NEW kind, Declare(kind) \/ While(kind) PROVE switches' = switches
    BY <1>4, Zenon DEF Declare, While, controlVars
  <1>5. ASSUME NEW signed \in BOOLEAN, SwitchBody(signed) PROVE Len(switches') # Len(switches)
    <2>1. PICK s : switches' = Append(switches, s) BY <1>5 DEF SwitchBody
    <2>2. switches \in Seq(SwitchSet) /\ Len(switches) \in Nat
      BY BodyParts, LenProperties DEF SwitchesTyped
    <2>3. Len(switches) + 1 \in DOMAIN switches' BY <2>1, <2>2, AppendKeeps
    <2>4. SUFFICES ASSUME Len(switches') = Len(switches) PROVE FALSE OBVIOUS
    <2>5. DOMAIN switches' = 1 .. Len(switches') BY <2>1, <2>2
    <2> QED BY <2>2, <2>3, <2>4, <2>5
  <1>6. CASE EndSwitch
    <2>1. switches' = Outer(switches) /\ OpenSwitch(Top) BY <1>6 DEF EndSwitch, OpenSwitch
    <2>2. SwitchesTyped /\ FramesShaped BY BodyParts
    <2>3. PICK at \in [DOMAIN switches -> DOMAIN frames] : SwitchesFramed(at) BY BodyParts
    <2>4. Len(switches) \in DOMAIN switches BY <2>1, <2>2, <2>3, InnermostFrame, Zenon
    <2>5. switches \in Seq(SwitchSet) /\ Len(switches) \in Nat /\ DOMAIN switches = 1 .. Len(switches)
      BY <2>2, LenProperties DEF SwitchesTyped
    <2>6. Len(switches) > 0 BY <2>4, <2>5, PositiveLast, Zenon
    <2>7. Len(Outer(switches)) = Len(switches) - 1 BY <2>5, <2>6, OuterParts
    <2> QED BY <2>1, <2>4, <2>5, <2>7, PositiveLast, Zenon
  <1> QED BY <1>1, <1>2, <1>3, <1>4, <1>5, <1>6, Zenon DEF Next

\* A label that is accepted passed the test of its switch.
LEMMA LabelsEnterNothing ==
    ASSUME BodyInv, [Next]_vars, LabelStep
    PROVE  Live = Innermost.live /\ Inside = Innermost.inside
  <1>1. Default \/ \E c \in job.cases : Case(c[1], c[2]) BY OthersKeepSwitches, Zenon DEF LabelStep
  <1>2. ASSUME NEW c \in job.cases, Case(c[1], c[2]) PROVE switches # <<>> /\ check_switch_entry
    <2>1. c[1] \in Int /\ c[2] \in Int BY BodyParts, JobParts
    <2> QED BY <1>2, <2>1, CaseParts
  <1>3. switches # <<>> /\ check_switch_entry BY <1>1, <1>2, DefaultParts, Zenon
  <1> QED BY <1>3, EntryTest, Zenon

-----------------------------------------------------------------------------
(* Annotations reach their switch                                          *)

\* What the frames have put aside.
Aside == UNION {RangeOf(frames[i].held) : i \in DOMAIN frames}

LEMMA PendingIs == Pending = RangeOf(fallthrough) \cup Aside /\ Pending' = RangeOf(fallthrough') \cup Aside'
  BY DEF Pending, Aside

LEMMA AsideStays ==
    ASSUME \A i \in DOMAIN frames : i \in DOMAIN frames' /\ frames'[i].held = frames[i].held
    PROVE  Aside \subseteq Aside'
  BY Zenon DEF Aside

\* The frames stay.
LEMMA RestsAside ==
    ASSUME BodyInv, frames' = frames \/ frames' = Taken
    PROVE  Aside \subseteq Aside'
  <1>1. FramesShaped BY BodyParts
  <1>2. DOMAIN Taken = 1 .. Len(frames) /\ DOMAIN frames = 1 .. Len(frames)
    BY <1>1, TakenAlike, TopParts, LenProperties
  <1>3. \A i \in DOMAIN frames : Taken[i].held = frames[i].held BY <1>1, <1>2, TakenAlike DEF Alike
  <1> QED BY <1>2, <1>3, AsideStays, Zenon

\* A frame is entered.
LEMMA PushesAside ==
    ASSUME BodyInv, NEW g, frames' = Append(Taken, g)
    PROVE  Aside \subseteq Aside' /\ RangeOf(g.held) \subseteq Aside'
  <1>1. FramesShaped BY BodyParts
  <1>2. PICK t : t = Taken OBVIOUS
  <1>3. /\ t \in Seq(FrameSet) /\ DOMAIN t = DOMAIN frames
        /\ \A i \in DOMAIN frames : t[i].held = frames[i].held
    <2>1. DOMAIN Taken = 1 .. Len(frames) /\ DOMAIN frames = 1 .. Len(frames)
      BY <1>1, TakenAlike, TopParts, LenProperties
    <2>2. \A i \in DOMAIN frames : Taken[i].held = frames[i].held BY <1>1, <2>1, TakenAlike DEF Alike
    <2>3. Taken \in Seq(FrameSet) BY <1>1, TakenAlike
    <2> QED BY <1>2, <2>1, <2>2, <2>3, Zenon
  <1>4. /\ \A i \in DOMAIN t : i \in DOMAIN Append(t, g) /\ Append(t, g)[i] = t[i]
        /\ Len(t) + 1 \in DOMAIN Append(t, g) /\ Append(t, g)[Len(t) + 1] = g
    BY <1>3, AppendKeeps
  <1>5. frames' = Append(t, g) BY <1>2
  <1>6. Aside \subseteq Aside' BY <1>3, <1>4, <1>5, AsideStays, Zenon
  <1>7. RangeOf(g.held) \subseteq Aside' BY <1>4, <1>5, Zenon DEF Aside
  <1> QED BY <1>6, <1>7

\* The top frame becomes another.
LEMMA TurnsAside ==
    ASSUME BodyInv, NEW g, frames' = [frames EXCEPT ![Len(frames)] = g]
    PROVE  /\ Aside \subseteq Aside' \cup RangeOf(Top.held)
           /\ RangeOf(g.held) \subseteq Aside'
  <1>1. FramesShaped BY BodyParts
  <1>2. PICK n \in DOMAIN frames : n = Len(frames) BY <1>1, TopParts
  <1>3. /\ DOMAIN frames' = DOMAIN frames /\ frames'[n] = g
        /\ \A i \in DOMAIN frames : i # n => frames'[i] = frames[i]
    BY <1>2
  <1>4. Top = frames[n] BY <1>2 DEF Top
  <1>5. RangeOf(g.held) \subseteq Aside' BY <1>3, Zenon DEF Aside
  <1>6. ASSUME NEW e \in Aside PROVE e \in Aside' \/ e \in RangeOf(Top.held)
    <2>1. PICK i \in DOMAIN frames : e \in RangeOf(frames[i].held) BY DEF Aside
    <2>2. CASE i = n BY <2>1, <2>2, <1>4
    <2>3. CASE i # n
      <3>1. i \in DOMAIN frames' /\ frames'[i] = frames[i] BY <2>3, <1>3, Zenon
      <3>2. e \in RangeOf(frames'[i].held) BY <2>1, <3>1
      <3> QED BY <3>1, <3>2, Zenon DEF Aside
    <2> QED BY <2>2, <2>3
  <1> QED BY <1>5, <1>6

\* The top frame goes on.
LEMMA StepsAside ==
    ASSUME BodyInv, NEW pc, Step(pc)
    PROVE  Aside \subseteq Aside'
  <1>1. FramesShaped BY BodyParts
  <1>2. PICK t \in FrameSet : t = Top BY <1>1, TopParts
  <1>3. PICK g : g = [t EXCEPT !.pc = pc] OBVIOUS
  <1>4. g.held = t.held BY <1>3 DEF FrameSet
  <1>5. frames' = [frames EXCEPT ![Len(frames)] = g] BY <1>2, <1>3 DEF Step, Top
  <1>6. /\ Aside \subseteq Aside' \cup RangeOf(Top.held)
        /\ RangeOf(g.held) \subseteq Aside'
    BY <1>5, TurnsAside, Zenon
  <1> QED BY <1>2, <1>4, <1>6

LEMMA Predecessor ==
    ASSUME NEW k \in Nat \ {0}
    PROVE  \E n \in Nat : n + 1 = k /\ n = k - 1
  <1>1. k - 1 \in Nat /\ k - 1 + 1 = k OBVIOUS
  <1> QED BY <1>1

\* The top frame is left.
LEMMA PopsAside ==
    ASSUME BodyInv, frames' = Outer(frames)
    PROVE  Aside \subseteq Aside' \cup RangeOf(Top.held)
  <1>1. FramesShaped BY BodyParts
  <1>2. /\ Len(frames) \in Nat \ {0} /\ DOMAIN frames = 1 .. Len(frames) /\ frames \in Seq(FrameSet)
    BY <1>1, TopParts
  <1>3. PICK n \in Nat : n + 1 = Len(frames) /\ n = Len(frames) - 1
    BY <1>2, Predecessor, Zenon
  <1>4. PICK t : t = Outer(frames) BY Zenon
  <1>5. t \in Seq(FrameSet) /\ Len(t) = n /\ \A i \in 1 .. n : t[i] = frames[i]
    <2>1. Len(frames) > 0 BY <1>2
    <2> QED BY <1>2, <1>3, <1>4, <2>1, OuterParts
  <1>6. DOMAIN t = 1 .. n BY <1>5, LenProperties
  <1>7. ASSUME NEW i \in DOMAIN frames
        PROVE  frames[i] = Top \/ (i \in DOMAIN t /\ t[i] = frames[i])
    <2>1. i \in 1 .. Len(frames) BY <1>2
    <2>2. i = Len(frames) \/ i \in 1 .. n BY ONLY <2>1, <1>3, n \in Nat
    <2> QED BY <2>2, <1>5, <1>6, Zenon DEF Top
  <1>8. ASSUME NEW e \in Aside PROVE e \in Aside' \/ e \in RangeOf(Top.held)
    <2>1. PICK i \in DOMAIN frames : e \in RangeOf(frames[i].held) BY DEF Aside
    <2>2. CASE frames[i] = Top BY <2>1, <2>2
    <2>3. CASE i \in DOMAIN t /\ t[i] = frames[i]
      <3>1. i \in DOMAIN frames' /\ e \in RangeOf(frames'[i].held) BY <2>1, <2>3, <1>4, Zenon
      <3> QED BY <3>1, Zenon DEF Aside
    <2> QED BY <1>7, <2>2, <2>3
  <1> QED BY <1>8

\* Annotations that stay where they are.
LEMMA PlainPending ==
    ASSUME BodyInv, frames' = frames \/ frames' = Taken, fallthrough' = fallthrough \/ fallthrough = <<>>
    PROVE  Pending \subseteq Pending'
  <1>1. Aside \subseteq Aside' BY RestsAside, Zenon
  <1>2. RangeOf(<<>>) = {} BY DEF RangeOf
  <1>3. RangeOf(fallthrough) \subseteq RangeOf(fallthrough') BY <1>2, Zenon
  <1> QED BY <1>1, <1>3, PendingIs

LEMMA PushPending ==
    ASSUME BodyInv, NEW g, frames' = Append(Taken, g), fallthrough' = fallthrough \/ g.held = fallthrough
    PROVE  Pending \subseteq Pending'
  <1>1. Aside \subseteq Aside' /\ RangeOf(g.held) \subseteq Aside' BY PushesAside, Zenon
  <1>2. RangeOf(fallthrough) \subseteq RangeOf(fallthrough') \cup Aside' BY <1>1
  <1> QED BY <1>1, <1>2, PendingIs

LEMMA StepPending ==
    ASSUME BodyInv, NEW pc, Step(pc), fallthrough' = fallthrough
    PROVE  Pending \subseteq Pending'
  <1>1. Aside \subseteq Aside' BY StepsAside, Zenon
  <1> QED BY <1>1, PendingIs

\* Only branches and statement expressions put annotations aside.
LEMMA PopPending ==
    ASSUME BodyInv, frames' = Outer(frames), fallthrough' = fallthrough,
           Top.kind \notin {"statement_expression", "else"}
    PROVE  Pending \subseteq Pending'
  <1>1. Aside \subseteq Aside' \cup RangeOf(Top.held) BY PopsAside, Zenon
  <1>2. Top.held = <<>> BY PendingParts DEF HoldsNothing
  <1>3. RangeOf(<<>>) = {} BY DEF RangeOf
  <1> QED BY <1>1, <1>2, <1>3, PendingIs

\* The end of an expression takes its annotations up again.
LEMMA EndStatementExpressionPending ==
    ASSUME BodyInv, EndStatementExpression
    PROVE  Pending \subseteq Pending'
  <1>1. frames' = Outer(frames) /\ fallthrough = <<>> /\ fallthrough' = Top.held
    BY Zenon DEF EndStatementExpression, Pop, require_no_fallthrough
  <1>2. Aside \subseteq Aside' \cup RangeOf(Top.held) BY <1>1, PopsAside, Zenon
  <1>3. RangeOf(<<>>) = {} BY DEF RangeOf
  <1> QED BY <1>1, <1>2, <1>3, PendingIs

\* The branches are joined.
LEMMA EndIfPending ==
    ASSUME BodyInv, EndIf
    PROVE  Pending \subseteq Pending'
  <1>1. frames' = Outer(frames) /\ fallthrough' = Top.held \o fallthrough BY Zenon DEF EndIf, Pop
  <1>2. Aside \subseteq Aside' \cup RangeOf(Top.held) BY <1>1, PopsAside, Zenon
  <1>3. PICK s, t : s = Top.held /\ t = fallthrough OBVIOUS
  <1>4. s \in Seq(Nat) /\ t \in Seq(Nat) BY <1>3, PendingParts, Zenon
  <1>5. RangeOf(s \o t) = RangeOf(s) \cup RangeOf(t) BY <1>4, RangeProperties
  <1>6. fallthrough' = s \o t BY <1>1, <1>3
  <1>7. RangeOf(fallthrough') = RangeOf(Top.held) \cup RangeOf(fallthrough) BY <1>3, <1>5, <1>6, Zenon
  <1> QED BY <1>2, <1>7, PendingIs

\* The annotations of the first branch are put aside.
LEMMA ElsePending ==
    ASSUME BodyInv, Else
    PROVE  Pending \subseteq Pending'
  <1>1. /\ frames' = [frames EXCEPT ![Len(frames)] =
                         [@ EXCEPT !.kind = "else", !.pc = "statement", !.held = fallthrough]]
        /\ Top.kind = "if"
    BY Zenon DEF Else
  <1>2. FramesShaped BY BodyParts
  <1>3. PICK t \in FrameSet : t = Top BY <1>2, TopParts
  <1>4. PICK h : h = fallthrough OBVIOUS
  <1>5. PICK g : g = [t EXCEPT !.kind = "else", !.pc = "statement", !.held = h] OBVIOUS
  <1>6. g.held = h BY <1>5 DEF FrameSet
  <1>7. frames' = [frames EXCEPT ![Len(frames)] = g] BY <1>1, <1>3, <1>4, <1>5 DEF Top
  <1>8. Aside \subseteq Aside' \cup RangeOf(Top.held) /\ RangeOf(g.held) \subseteq Aside'
    BY <1>7, TurnsAside, Zenon
  <1>9. Top.held = <<>>
    <2>1. Top.kind \notin {"statement_expression", "else"} BY <1>1
    <2> QED BY <2>1, PendingParts DEF HoldsNothing
  <1>10. RangeOf(<<>>) = {} BY DEF RangeOf
  <1> QED BY <1>4, <1>6, <1>8, <1>9, <1>10, PendingIs

\* The annotations in front of an expression are put aside.
LEMMA StatementExpressionPending ==
    ASSUME BodyInv, statement_expression
    PROVE  Pending \subseteq Pending'
  <1>1. PICK f : f = Frame("statement_expression", "items") OBVIOUS
  <1>2. PICK a, id, h : a = active_expression /\ id = Len(expression_parents) + 1 /\ h = fallthrough
    OBVIOUS
  <1>3. PICK g : g = [f EXCEPT !.previous = a, !.expression = id, !.held = h] OBVIOUS
  <1>4. frames' = Append(frames, g) /\ Top.pc \in {"operand", "initializer", "init"}
    BY <1>1, <1>2, <1>3 DEF statement_expression
  <1>5. f = [kind |-> "statement_expression", pc |-> "items", base |-> Len(scopes), expects |-> "any",
             held |-> <<>>, previous |-> None, expression |-> None]
    BY <1>1 DEF Frame
  <1>6. g.held = h BY ONLY <1>3, <1>5
  <1>7. Taken = frames BY <1>4 DEF Taken
  <1> QED BY <1>2, <1>4, <1>6, <1>7, PushPending, Zenon

\* A label of a switch takes away what waits for it.
LEMMA LabelPending ==
    ASSUME BodyInv, frames' = Append(Taken, Frame("label", "statement"))
    PROVE  \A e \in Pending \ Pending' : Innermost.offset = e
  <1>1. PICK g : g = Frame("label", "statement") OBVIOUS
  <1>2. frames' = Append(Taken, g) BY <1>1, Zenon
  <1>3. Aside \subseteq Aside' BY <1>2, PushesAside, Zenon
  <1>4. \A e \in RangeOf(fallthrough) : e = Innermost.offset BY PendingParts, Zenon DEF Mine
  <1> QED BY <1>3, <1>4, PendingIs

\* Nothing but a label of a switch takes an annotation away.
LEMMA OthersKeepPending ==
    ASSUME BodyInv, [Next]_vars
    PROVE  Pending \subseteq Pending' \/ Default \/ \E c \in job.cases : Case(c[1], c[2])
  <1>1. CASE \/ Empty \/ Plain \/ Fallthrough \/ Break \/ Continue \/ (\E l \in Labels : Goto(l))
             \/ EndBody \/ Fail \/ Done \/ UNCHANGED vars
    <2>1. /\ frames' = frames \/ frames' = Taken
          /\ fallthrough' = fallthrough \/ fallthrough = <<>>
      BY <1>1, Zenon
      DEF Empty, Plain, Fallthrough, Break, Continue, Goto, EndBody, Fail, Done, vars, require_no_fallthrough
    <2> QED BY <2>1, PlainPending, Zenon
  <1>2. CASE \/ Compound \/ Expression \/ If \/ Do \/ Switch
             \/ (\E l \in Labels : \E quiet \in BOOLEAN : Label(l, quiet))
             \/ (\E kind \in {"vm", "object", "typedef"} : Declare(kind))
             \/ (\E kind \in {"while", "for"} : While(kind))
    <2>1. fallthrough' = fallthrough /\ \E g : frames' = Append(Taken, g)
      BY <1>2, Zenon DEF Compound, Expression, If, Do, Switch, Label, Declare, While, Controlled, Push
    <2> QED BY <2>1, PushPending, Zenon
  <1>3. CASE \/ Declared \/ Then \/ LoopBody \/ ForClauses \/ DoCondition
             \/ \E signed \in BOOLEAN : SwitchBody(signed)
    <2>1. fallthrough' = fallthrough /\ \E pc : Step(pc)
      BY <1>3, Zenon DEF Declared, Then, LoopBody, ForClauses, DoCondition, SwitchBody
    <2> QED BY <2>1, StepPending, Zenon
  <1>4. CASE \/ EndLabel \/ EndOperands \/ EndCompound \/ EndLoop \/ EndDo \/ EndSwitch
    <2>1. /\ fallthrough' = fallthrough /\ frames' = Outer(frames)
          /\ Top.kind \in {"label", "expression", "vm", "object", "typedef", "compound", "while", "for",
                           "do", "switch"}
      BY <1>4 DEF EndLabel, EndOperands, EndCompound, EndLoop, EndDo, EndSwitch, Pop
    <2>2. Top.kind \notin {"statement_expression", "else"} BY <2>1
    <2> QED BY <2>1, <2>2, PopPending, Zenon
  <1>5. CASE EndStatementExpression \/ EndIf \/ Else \/ statement_expression
    BY <1>5, EndStatementExpressionPending, EndIfPending, ElsePending, StatementExpressionPending, Zenon
  <1> QED BY <1>1, <1>2, <1>3, <1>4, <1>5, Zenon DEF Next

LEMMA LostAnnotations ==
    ASSUME BodyInv, [Next]_vars, NEW switch \in Pending \ Pending'
    PROVE  LabelStep /\ Innermost.offset = switch
  <1>1. Default \/ \E c \in job.cases : Case(c[1], c[2]) BY OthersKeepPending
  <1>2. CASE Default
    <2>1. frames' = Append(Taken, Frame("label", "statement")) BY <1>2, Zenon DEF Default, Push
    <2> QED BY <1>2, <2>1, DefaultParts, LabelPending, Zenon DEF LabelStep
  <1>3. ASSUME NEW c \in job.cases, Case(c[1], c[2]) PROVE LabelStep /\ Innermost.offset = switch
    <2>1. c[1] \in Int /\ c[2] \in Int BY BodyParts, JobParts
    <2>2. frames' = Append(Taken, Frame("label", "statement")) BY <1>3, Zenon DEF Case, Push
    <2>3. LabelStep BY <1>3, <2>1, CaseParts, Zenon DEF LabelStep
    <2> QED BY <2>2, <2>3, LabelPending, Zenon
  <1> QED BY <1>1, <1>2, <1>3, Zenon

-----------------------------------------------------------------------------
(* What is promised of a body                                              *)

\* A switch label that is accepted stands in the scopes of variably modified
\* identifiers and the statement expressions its switch stands in
\* (check_switch_entry); looking at one range finds the overlap of two cases, and
\* nothing else (case_range); an annotation, also one a branch or a statement
\* expression has put aside, is only taken away by a label of its own switch
\* (require_no_fallthrough).
THEOREM LabelsHold == Spec => BodiesExact
  <1>1. BodyInv => CaseTestExact BY CaseTest
  <1>2. BodyInv /\ [Next]_vars
           => [LabelStep => Live = Innermost.live /\ Inside = Innermost.inside]_vars
    BY LabelsEnterNothing
  <1>3. BodyInv /\ [Next]_vars
           => [\A switch \in Pending \ Pending' : LabelStep /\ Innermost.offset = switch]_vars
    BY LostAnnotations
  <1> QED
    BY <1>1, <1>2, <1>3, BodyInvariant, PTL
    DEF Spec, BodiesExact, SwitchEntersNothing, FallthroughReachesItsSwitch
=============================================================================
