------------------------- MODULE PreprocessorProofs -------------------------
(***************************************************************************)
(* Proofs about the directive driver, for every file system, every text    *)
(* and every limit: what holds of the include stack, of waiting text, of   *)
(* the output maps and of #pragma once, whatever is read and wherever the  *)
(* driver stops.                                                           *)
(***************************************************************************)
EXTENDS Preprocessor, MacroTableProofs, FiniteSetTheorems, NaturalsInduction, WellFoundedInduction

-----------------------------------------------------------------------------
(* The include stack *)

\* The source being read is sound.
LEMMA TopFrame ==
    ASSUME StackSound, frames # <<>>
    PROVE  /\ Len(frames) \in Nat \ {0}
           /\ Top \in SoundFrames /\ Top \in FrameTypes
  <1>1. frames \in Seq(SoundFrames) BY DEF StackSound
  <1>2. Len(frames) \in Nat \ {0} BY <1>1, EmptySeq
  <1>3. Top \in SoundFrames BY <1>1, <1>2, ElementOfSeq DEF Top
  <1>4. Top \in FrameTypes BY <1>3 DEF SoundFrames
  <1> QED BY <1>2, <1>3, <1>4

\* What a step may do to the stack.
Rewrites(t) ==
    /\ frames # <<>> /\ SetTop(t)
    /\ t \in SoundFrames /\ t.saved_system = Top.saved_system
    /\ t.path = Top.path /\ t.identity = Top.identity

Pushes(f) ==
    /\ frames' = Append(frames, f)
    /\ f \in SoundFrames /\ f.saved_system = documentation_system
    /\ frames # <<>> => Waits(Top)
    /\ Len(frames) < Max({1, MaxIncludeDepth})

Pops ==
    /\ frames # <<>>
    /\ frames' = SubSeq(frames, 1, Len(frames) - 1)
    /\ documentation_system' = Top.saved_system

Keeps == frames' = frames /\ (frames = <<>> => documentation_system' = documentation_system)

Clears == frames' = <<>> /\ ~documentation_system'

LEMMA DeepestIsNat == Max({1, MaxIncludeDepth}) \in Nat /\ Max({1, MaxIncludeDepth}) >= 1
                        /\ Max({1, MaxIncludeDepth}) >= MaxIncludeDepth
  <1>1. MaxIncludeDepth \in Nat BY DriverAssumption
  <1> DEFINE S == {1, MaxIncludeDepth}
  <1>2. \E x \in S : \A y \in S : x >= y BY <1>1
  <1>3. Max(S) \in S /\ \A y \in S : Max(S) >= y BY <1>2 DEF Max
  <1> QED BY <1>1, <1>3

LEMMA RewritesSound ==
    ASSUME StackSound, NEW t, Rewrites(t)
    PROVE  /\ StackSound' /\ frames' # <<>> /\ Len(frames') = Len(frames)
           /\ Top' = t
           /\ \A k \in 1 .. (Len(frames) - 1) : frames'[k] = frames[k]
  <1>1. frames \in Seq(SoundFrames) /\ Len(frames) \in Nat \ {0} /\ frames # <<>>
    BY TopFrame DEF StackSound, Rewrites
  <1>2. t \in SoundFrames /\ frames' = [frames EXCEPT ![Len(frames)] = t] BY DEF Rewrites, SetTop
  <1>3. Len(frames) \in 1 .. Len(frames) BY <1>1
  <1>4. /\ frames' \in Seq(SoundFrames) /\ Len(frames') = Len(frames)
        /\ \A j \in 1 .. Len(frames) : frames'[j] = IF j = Len(frames) THEN t ELSE frames[j]
    BY <1>1, <1>2, <1>3, ExceptSeq
  <1>5. \A k \in 1 .. (Len(frames) - 1) : frames'[k] = frames[k] BY <1>1, <1>4
  <1>6. frames' # <<>> BY <1>1, <1>4
  <1>7. Top' = t BY <1>3, <1>4 DEF Top
  <1>8. ~frames'[1].saved_system
    <2>1. CASE Len(frames) = 1 BY <1>1, <1>4, <2>1 DEF StackSound, Rewrites, Top
    <2>2. CASE Len(frames) # 1
      <3>1. PICK n \in Nat \ {0} : n = Len(frames) BY <1>1
      <3>2. n # 1 BY <2>2, <3>1
      <3>3. 1 \in 1 .. (n - 1) BY <3>2
      <3>4. 1 \in 1 .. (Len(frames) - 1) BY <3>1, <3>3
      <3> QED BY <1>1, <1>5, <3>4 DEF StackSound
    <2> QED BY <2>1, <2>2
  <1>9. \A k \in 1 .. (Len(frames') - 1) : Waits(frames'[k]) BY <1>4, <1>5 DEF StackSound
  <1>10. Len(frames') <= Max({1, MaxIncludeDepth}) BY <1>4 DEF StackSound
  <1>11. StackSound' BY <1>4, <1>6, <1>8, <1>9, <1>10 DEF StackSound
  <1> QED BY <1>4, <1>5, <1>6, <1>7, <1>11

LEMMA PushesSound ==
    ASSUME StackSound, NEW f, Pushes(f)
    PROVE  /\ StackSound' /\ frames' # <<>> /\ Len(frames') = Len(frames) + 1
           /\ Top' = f
           /\ \A k \in 1 .. Len(frames) : frames'[k] = frames[k]
  <1>1. frames \in Seq(SoundFrames) /\ Len(frames) \in Nat BY LenProperties DEF StackSound
  <1>2. f \in SoundFrames /\ frames' = Append(frames, f) BY DEF Pushes
  <1>3. /\ frames' \in Seq(SoundFrames) /\ Len(frames') = Len(frames) + 1
        /\ \A k \in 1 .. Len(frames) : frames'[k] = frames[k]
        /\ frames'[Len(frames) + 1] = f
    BY <1>1, <1>2, AppendProperties
  <1>4. frames' # <<>> /\ Top' = f BY <1>1, <1>3 DEF Top
  <1>5. ~frames'[1].saved_system
    <2>1. CASE frames = <<>> BY <1>1, <1>3, <2>1 DEF StackSound, Pushes
    <2>2. CASE frames # <<>>
      <3>1. 1 \in 1 .. Len(frames) BY <1>1, <2>2, EmptySeq
      <3> QED BY <1>3, <2>2, <3>1 DEF StackSound
    <2> QED BY <2>1, <2>2
  <1>6. ASSUME NEW k \in 1 .. (Len(frames') - 1) PROVE Waits(frames'[k])
    <2>1. k \in 1 .. Len(frames) BY <1>1, <1>3
    <2>2. frames'[k] = frames[k] BY <1>3, <2>1
    <2>3. CASE k = Len(frames) BY <1>1, <2>1, <2>2, <2>3 DEF Pushes, Top
    <2>4. CASE k # Len(frames)
      <3>1. k \in 1 .. (Len(frames) - 1) BY <1>1, <2>1, <2>4
      <3> QED BY <2>2, <3>1 DEF StackSound
    <2> QED BY <2>3, <2>4
  <1>7. Len(frames') <= Max({1, MaxIncludeDepth}) BY <1>1, <1>3, DeepestIsNat DEF Pushes
  <1>8. StackSound' BY <1>3, <1>4, <1>5, <1>6, <1>7 DEF StackSound
  <1> QED BY <1>3, <1>4, <1>8

LEMMA PopsSound ==
    ASSUME StackSound, Pops
    PROVE  /\ StackSound' /\ Len(frames') = Len(frames) - 1
           /\ \A k \in 1 .. (Len(frames) - 1) : frames'[k] = frames[k]
           /\ frames' # <<>> => Waits(Top') /\ Top' = frames[Len(frames) - 1]
  <1>1. frames \in Seq(SoundFrames) /\ Len(frames) \in Nat \ {0} /\ frames # <<>>
    BY TopFrame DEF StackSound, Pops
  <1>2. /\ frames' \in Seq(SoundFrames) /\ Len(frames') = Len(frames) - 1
        /\ \A k \in 1 .. (Len(frames) - 1) : frames'[k] = frames[k]
    BY <1>1, DropLast DEF Pops
  <1>3. frames' # <<>> => Len(frames') \in Nat \ {0} BY <1>2, EmptySeq
  <1>4. ASSUME frames' # <<>> PROVE Waits(Top') /\ Top' = frames[Len(frames) - 1]
    <2>1. Len(frames) - 1 \in 1 .. (Len(frames) - 1) BY <1>1, <1>2, <1>3, <1>4
    <2>2. Top' = frames[Len(frames) - 1] BY <1>2, <2>1 DEF Top
    <2> QED BY <2>1, <2>2 DEF StackSound
  <1>5. ASSUME frames' # <<>> PROVE ~frames'[1].saved_system
    <2>1. 1 \in 1 .. (Len(frames) - 1) BY <1>1, <1>2, <1>3, <1>5
    <2> QED BY <1>1, <1>2, <2>1 DEF StackSound
  <1>6. ASSUME frames' = <<>> PROVE ~documentation_system'
    <2>1. Len(frames) = 1 BY <1>1, <1>2, <1>6
    <2> QED BY <1>1, <2>1 DEF StackSound, Pops, Top
  <1>7. \A k \in 1 .. (Len(frames') - 1) : Waits(frames'[k])
    <2>1. \A k \in 1 .. (Len(frames') - 1) : k \in 1 .. (Len(frames) - 1) BY <1>1, <1>2
    <2> QED BY <1>2, <2>1 DEF StackSound
  <1>8. Len(frames') <= Max({1, MaxIncludeDepth}) BY <1>1, <1>2, DeepestIsNat DEF StackSound
  <1>9. StackSound' BY <1>2, <1>5, <1>6, <1>7, <1>8 DEF StackSound
  <1> QED BY <1>2, <1>4, <1>9

LEMMA KeepsSound ==
    ASSUME StackSound, Keeps
    PROVE  StackSound' /\ Top' = Top
  BY DEF StackSound, Keeps, Top

LEMMA ClearsSound ==
    ASSUME StackSound, Clears
    PROVE  StackSound' /\ frames' = <<>>
  <1>1. frames' \in Seq(SoundFrames) /\ Len(frames') = 0 /\ frames' = <<>>
    BY EmptySeq DEF Clears
  <1>2. ~documentation_system' BY DEF StackSound, Clears
  <1>3. Len(frames') <= Max({1, MaxIncludeDepth}) BY <1>1, DeepestIsNat
  <1> QED BY <1>1, <1>2, <1>3 DEF StackSound

-----------------------------------------------------------------------------
(* Conditional groups *)

\* A group is in an active place when the branch of the group around it is.
Outer(conditions, i) == i # 1 => conditions[i - 1].active

GroupSound(c, outer) ==
    /\ c.active \/ c.can_take_branch => outer
    /\ c.can_take_branch => c.taken = 0 /\ ~c.active /\ ~c.seen_else
    /\ c.active => c.taken = 1
    /\ c.taken <= 1
    /\ outer /\ c.seen_else => c.taken = 1
    /\ ~outer => c.taken = 0
    /\ outer /\ ~c.can_take_branch => c.taken = 1

LEMMA OuterActive ==
    ASSUME NEW c \in Seq(Groups), NEW i \in 1 .. Len(c)
    PROVE  ActiveIn(SubSeq(c, 1, i - 1)) <=> Outer(c, i)
  <1>1. Len(c) \in Nat /\ \A k \in 1 .. (i - 1) : c[k] \in Groups BY ElementOfSeq, LenProperties
  <1>2. CASE i = 1
    <2>1. SubSeq(c, 1, i - 1) = <<>> BY <1>2, SubSeqEmpty
    <2> QED BY <1>2, <2>1 DEF ActiveIn, Outer
  <1>3. CASE i # 1
    <2>1. i - 1 \in Int /\ 1 <= i - 1 /\ i - 1 \in Nat \ {0} BY <1>1, <1>3
    <2>2. /\ SubSeq(c, 1, i - 1) \in Seq(Groups)
          /\ Len(SubSeq(c, 1, i - 1)) = i - 1
          /\ \A k \in 1 .. (i - 1) : SubSeq(c, 1, i - 1)[k] = c[k]
      BY <1>1, <2>1, SubSeqProperties DEF Groups
    <2>3. SubSeq(c, 1, i - 1) # <<>> BY <2>1, <2>2
    <2>4. SubSeq(c, 1, i - 1)[i - 1] = c[i - 1] BY <2>1, <2>2
    <2> QED BY <1>3, <2>2, <2>3, <2>4 DEF ActiveIn, Outer
  <1> QED BY <1>2, <1>3

LEMMA GroupsByPlace ==
    ASSUME NEW c \in Seq(Groups)
    PROVE  GroupsNest(c) /\ GroupsUsed(c) <=> \A i \in 1 .. Len(c) : GroupSound(c[i], Outer(c, i))
  <1>1. DOMAIN c = 1 .. Len(c) BY LenProperties
  <1>2. \A i \in 1 .. Len(c) : ActiveIn(SubSeq(c, 1, i - 1)) <=> Outer(c, i) BY OuterActive
  <1> QED BY <1>1, <1>2 DEF GroupsNest, GroupsUsed, GroupSound

\* #if and its kin open a group ...
LEMMA OpenedGroup ==
    ASSUME NEW c \in Seq(Groups), GroupsNest(c), GroupsUsed(c),
           NEW parent \in BOOLEAN, NEW matches \in BOOLEAN,
           parent <=> ActiveIn(c), matches => parent
    PROVE  LET d == Append(c, NewConditional(parent, matches))
           IN  /\ d \in Seq(Groups) /\ Len(d) = Len(c) + 1
               /\ GroupsNest(d) /\ GroupsUsed(d)
  <1> DEFINE g == NewConditional(parent, matches)
             d == Append(c, g)
  <1>1. g \in Groups BY DEF NewConditional, Groups
  <1>2. Len(c) \in Nat BY LenProperties
  <1>3. /\ d \in Seq(Groups) /\ Len(d) = Len(c) + 1 /\ d[Len(c) + 1] = g
        /\ \A i \in 1 .. Len(c) : d[i] = c[i]
    BY <1>1, AppendProperties
  <1>4. \A i \in 1 .. Len(c) : GroupSound(c[i], Outer(c, i)) BY GroupsByPlace
  <1>5. ActiveIn(c) <=> Outer(d, Len(c) + 1)
    <2>1. CASE c = <<>> BY <2>1 DEF ActiveIn, Outer
    <2>2. CASE c # <<>>
      <3>1. Len(c) \in 1 .. Len(c) /\ Len(c) + 1 # 1 BY <1>2, <2>2, EmptySeq
      <3>2. d[Len(c)] = c[Len(c)] BY <1>3, <3>1
      <3> QED BY <1>2, <2>2, <3>1, <3>2 DEF ActiveIn, Outer
    <2> QED BY <2>1, <2>2
  <1>6. /\ matches => g.active /\ ~g.can_take_branch /\ ~g.seen_else /\ g.taken = 1
        /\ ~matches => /\ ~g.active /\ ~g.seen_else /\ g.taken = 0
                       /\ (g.can_take_branch <=> parent)
    BY DEF NewConditional
  <1> HIDE DEF g, d
  <1>9. GroupSound(g, parent)
    <2>1. CASE matches BY <1>6, <2>1 DEF GroupSound
    <2>2. CASE ~matches BY <1>6, <2>2 DEF GroupSound
    <2> QED BY <2>1, <2>2
  <1>7. ASSUME NEW i \in 1 .. Len(d) PROVE GroupSound(d[i], Outer(d, i))
    <2>1. CASE i = Len(c) + 1 BY <1>3, <1>5, <1>9, <2>1 DEF GroupSound
    <2>2. CASE i # Len(c) + 1
      <3>1. i \in 1 .. Len(c) BY <1>2, <1>3, <2>2
      <3>2. i # 1 => i - 1 \in 1 .. Len(c) BY <1>2, <3>1
      <3>3. Outer(d, i) <=> Outer(c, i) BY <1>3, <3>2 DEF Outer
      <3> QED BY <1>3, <1>4, <3>1, <3>3 DEF GroupSound
    <2> QED BY <2>1, <2>2
  <1>8. GroupsNest(d) /\ GroupsUsed(d) BY <1>3, <1>7, GroupsByPlace
  <1> QED BY <1>3, <1>8 DEF d, g

\* ... #elif and #else go to its next branch ...
LEMMA BranchedGroup ==
    ASSUME NEW c \in Seq(Groups), c # <<>>, GroupsNest(c), GroupsUsed(c),
           ~c[Len(c)].seen_else,
           NEW matches \in BOOLEAN, NEW is_else \in BOOLEAN,
           matches => c[Len(c)].can_take_branch,
           is_else => (matches <=> c[Len(c)].can_take_branch)
    PROVE  LET d == [c EXCEPT ![Len(c)] = NextBranch(c[Len(c)], matches, is_else)]
           IN  /\ d \in Seq(Groups) /\ Len(d) = Len(c)
               /\ GroupsNest(d) /\ GroupsUsed(d)
  <1> DEFINE g == NextBranch(c[Len(c)], matches, is_else)
             d == [c EXCEPT ![Len(c)] = g]
  <1>1. Len(c) \in Nat \ {0} BY EmptySeq
  <1>2. Len(c) \in 1 .. Len(c) BY <1>1
  <1>3. c[Len(c)] \in Groups BY <1>2, ElementOfSeq
  <1>4. g \in Groups BY <1>3 DEF NextBranch, Groups
  <1>5. /\ d \in Seq(Groups) /\ Len(d) = Len(c)
        /\ \A i \in 1 .. Len(c) : d[i] = IF i = Len(c) THEN g ELSE c[i]
    BY <1>2, <1>4, ExceptSeq
  <1>6. \A i \in 1 .. Len(c) : GroupSound(c[i], Outer(c, i)) BY GroupsByPlace
  <1>7. GroupSound(c[Len(c)], Outer(c, Len(c))) BY <1>2, <1>6
  <1>8. Outer(c, Len(c)) \in BOOLEAN
    <2>1. Len(c) # 1 => Len(c) - 1 \in 1 .. Len(c)
      <3>1. PICK n \in Nat \ {0} : n = Len(c) BY <1>1
      <3>2. n # 1 => n - 1 \in 1 .. n OBVIOUS
      <3> QED BY <3>1, <3>2
    <2>2. Len(c) # 1 => c[Len(c) - 1] \in Groups BY <2>1, ElementOfSeq
    <2> QED BY <2>2 DEF Outer, Groups
  <1>9. GroupSound(g, Outer(c, Len(c)))
    BY <1>3, <1>7, <1>8 DEF GroupSound, NextBranch, Groups
  <1> HIDE DEF g, d
  <1>10. ASSUME NEW i \in 1 .. Len(d) PROVE GroupSound(d[i], Outer(d, i))
    <2>1. i \in 1 .. Len(c) BY <1>5
    <2>2. i # 1 => i - 1 \in 1 .. Len(c) /\ i - 1 # Len(c) BY <1>1, <2>1
    <2>3. Outer(d, i) <=> Outer(c, i) BY <1>5, <2>2 DEF Outer
    <2>4. CASE i = Len(c) BY <1>5, <1>9, <2>1, <2>3, <2>4 DEF GroupSound
    <2>5. CASE i # Len(c) BY <1>5, <1>6, <2>1, <2>3, <2>5 DEF GroupSound
    <2> QED BY <2>4, <2>5
  <1>11. GroupsNest(d) /\ GroupsUsed(d) BY <1>5, <1>10, GroupsByPlace
  <1> QED BY <1>5, <1>11 DEF d, g

\* ... and #endif closes it.
LEMMA ClosedGroup ==
    ASSUME NEW c \in Seq(Groups), c # <<>>, GroupsNest(c), GroupsUsed(c)
    PROVE  LET d == SubSeq(c, 1, Len(c) - 1)
           IN  /\ d \in Seq(Groups) /\ Len(d) = Len(c) - 1
               /\ GroupsNest(d) /\ GroupsUsed(d)
  <1> DEFINE d == SubSeq(c, 1, Len(c) - 1)
  <1>1. Len(c) \in Nat \ {0} BY EmptySeq
  <1>2. /\ d \in Seq(Groups) /\ Len(d) = Len(c) - 1
        /\ \A i \in 1 .. (Len(c) - 1) : d[i] = c[i]
    BY DropLast
  <1>3. \A i \in 1 .. Len(c) : GroupSound(c[i], Outer(c, i)) BY GroupsByPlace
  <1> HIDE DEF d
  <1>4. ASSUME NEW i \in 1 .. Len(d) PROVE GroupSound(d[i], Outer(d, i))
    <2>1. i \in 1 .. (Len(c) - 1) /\ i \in 1 .. Len(c) BY <1>1, <1>2
    <2>2. i # 1 => i - 1 \in 1 .. (Len(c) - 1) BY <1>1, <2>1
    <2>3. Outer(d, i) <=> Outer(c, i) BY <1>2, <2>2 DEF Outer
    <2> QED BY <1>2, <1>3, <2>1, <2>3 DEF GroupSound
  <1>5. GroupsNest(d) /\ GroupsUsed(d) BY <1>2, <1>4, GroupsByPlace
  <1> QED BY <1>2, <1>5 DEF d

-----------------------------------------------------------------------------
(* Frames and the control of the driver *)

\* A change of the fields that are not counted keeps a source sound.
LEMMA ChangedFrame ==
    ASSUME NEW f \in SoundFrames, NEW t \in FrameTypes,
           t.conditions = f.conditions, t.markers = f.markers
    PROVE  t \in SoundFrames
  BY DEF SoundFrames

LEMMA FrameFields ==
    ASSUME NEW f \in FrameTypes
    PROVE  /\ f.path \in Sites /\ f.identity \in Sites /\ f.main \in BOOLEAN /\ f.system \in BOOLEAN
           /\ f.left \in Nat /\ f.conditions \in Seq(Groups) /\ f.logical \in Presumed
           /\ f.pending \in Seq(TextTokens(AllMeanings \cup {None}))
           /\ f.markers \in Seq(Presumed) /\ f.job \in DOMAIN Lines /\ f.saved_system \in BOOLEAN
  BY DEF FrameTypes

\* A source that is entered.
LEMMA NewFrame ==
    ASSUME NEW path \in Sites, NEW identity \in Sites, NEW main \in BOOLEAN, NEW system \in BOOLEAN,
           NEW n \in Lengths, Job \in DOMAIN Lines, documentation_system \in BOOLEAN
    PROVE  LET f == Frame(path, identity, main, system, n)
           IN  /\ f \in SoundFrames /\ f.saved_system = documentation_system
               /\ f.path = path /\ f.identity = identity /\ f.main = main /\ f.pending = <<>>
  <1> DEFINE f == Frame(path, identity, main, system, n)
  <1>1. n \in Nat BY DriverAssumption DEF Lengths
  <1>2. path \in Presumed BY DEF Presumed
  <1>3. /\ <<>> \in Seq(Groups) /\ <<>> \in Seq(TextTokens(AllMeanings \cup {None})) /\ <<>> \in Seq(Presumed)
        /\ Len(<<>>) = 0
    BY EmptySeq
  <1>4. f \in FrameTypes BY <1>1, <1>2, <1>3 DEF Frame, FrameTypes
  <1>5. f.conditions = <<>> /\ f.markers = <<>> BY DEF Frame
  <1>6. GroupsNest(<<>>) /\ GroupsUsed(<<>>) BY DEF GroupsNest, GroupsUsed
  <1>7. ConditionalLimit \in Nat BY DriverAssumption DEF ConditionalLimit
  <1>8. f \in SoundFrames BY <1>3, <1>4, <1>5, <1>6, <1>7, DriverAssumption DEF SoundFrames
  <1> QED BY <1>8 DEF Frame

\* What a rejected input, text or directive does.
LEMMA UnwindSound ==
    ASSUME DriverSound, Unwind
    PROVE  Clears /\ (StackSound /\ ControlSound)'
  <1>1. StackSound /\ ControlSound BY DEF DriverSound
  <1>2. ~documentation_system'
    BY <1>1 DEF Unwind, StackSound
  <1>3. Clears BY <1>2 DEF Unwind, Clears
  <1>4. StackSound' BY <1>1, <1>3, ClearsSound
  <1>5. <<>> \in Seq(InputTypes) BY EmptySeq
  <1>6. ControlSound'
    <2>1. /\ status' = "failed" /\ frames' = <<>> /\ inputs' \in Seq(InputTypes)
          /\ phase' = "line" /\ line' = None /\ tokens' \in 0 .. MaxTokens
          /\ documentation_system' \in BOOLEAN
      <3>1. tokens' \in 0 .. MaxTokens BY <1>1 DEF ControlSound, Unwind
      <3>2. documentation_system' \in BOOLEAN
        <4>1. CASE frames = <<>> BY <1>1, <4>1 DEF ControlSound, Unwind
        <4>2. CASE frames # <<>>
          <5>1. 1 \in 1 .. Len(frames) BY <1>1, <4>2, TopFrame
          <5>2. frames[1] \in SoundFrames BY <1>1, <5>1, ElementOfSeq DEF StackSound
          <5>3. frames[1].saved_system \in BOOLEAN BY <5>2, FrameFields DEF SoundFrames
          <5> QED BY <4>2, <5>3 DEF Unwind
        <4> QED BY <4>1, <4>2
      <3> QED BY <1>5, <3>1, <3>2 DEF Unwind
    <2> QED BY <2>1 DEF ControlSound
  <1> QED BY <1>3, <1>4, <1>6

\* What a directive does to the stack when it enters no source, and when it does.
QuietStep ==
    \/ Keeps \/ Pops
    \/ \E t \in SoundFrames : t.pending = <<>> /\ Rewrites(t)

StackStep == QuietStep \/ \E t \in SoundFrames : t.pending = <<>> /\ Pushes(t)

\* After a directive no text waits in the source that is read on.
Settled ==
    /\ (StackSound /\ ControlSound)'
    /\ frames' # <<>> => Top'.pending = <<>>

LEMMA ExecutedSound ==
    ASSUME DriverSound, phase = "exec", Executed, StackStep, documentation_system' \in BOOLEAN
    PROVE  Settled
  <1>1. StackSound /\ ControlSound BY DEF DriverSound
  <1>2. frames # <<>> /\ status = "running" /\ Top.pending = <<>> BY <1>1 DEF ControlSound
  <1>3. StackSound' /\ (frames' # <<>> => Top'.pending = <<>>)
    <2>1. CASE Keeps BY <1>1, <1>2, <2>1, KeepsSound
    <2>2. CASE Pops BY <1>1, <2>2, PopsSound DEF Waits
    <2>3. ASSUME NEW t \in SoundFrames, t.pending = <<>>, Rewrites(t)
          PROVE  StackSound' /\ (frames' # <<>> => Top'.pending = <<>>)
      BY <1>1, <2>3, RewritesSound
    <2>4. ASSUME NEW t \in SoundFrames, t.pending = <<>>, Pushes(t)
          PROVE  StackSound' /\ (frames' # <<>> => Top'.pending = <<>>)
      BY <1>1, <2>4, PushesSound
    <2> QED BY <2>1, <2>2, <2>3, <2>4 DEF StackStep, QuietStep
  <1>4. ControlSound' BY <1>1, <1>2, <1>3 DEF ControlSound, Executed
  <1> QED BY <1>3, <1>4 DEF Settled

\* The place of the first pragma that waits.
LEMMA LeastIsMin ==
    ASSUME NEW S \in SUBSET Nat, S # {}
    PROVE  Min(S) \in S /\ \A k \in S : Min(S) <= k
  <1>1. PICK m \in S : \A k \in S : <<k, m>> \notin OpToRel(<, Nat)
    BY NatLessThanWellFounded, WFMin
  <1>2. ASSUME NEW k \in S PROVE m <= k
    <2>1. m \in Nat /\ k \in Nat /\ <<k, m>> \notin OpToRel(<, Nat) BY <1>1
    <2>2. ~(k < m) BY <2>1 DEF OpToRel
    <2>3. m \in Nat /\ k \in Nat BY <2>1
    <2> QED BY ONLY <2>2, <2>3
  <1> QED BY <1>1, <1>2 DEF Min

LEMMA StretchPlace ==
    ASSUME NEW T, NEW pending \in Seq(T)
    PROVE  LET end == StretchEnd(pending)
           IN  /\ end \in 0 .. Len(pending)
               /\ \A i \in 1 .. end : ~IsPragma(pending[i])
               /\ end < Len(pending) => IsPragma(pending[end + 1])
               /\ pending # <<>> /\ ~IsPragma(Head(pending)) => end > 0
  <1> DEFINE end == StretchEnd(pending)
             S == {i \in DOMAIN pending : IsPragma(pending[i])}
  <1>1. Len(pending) \in Nat /\ DOMAIN pending = 1 .. Len(pending) BY LenProperties
  <1>2. CASE S = {}
    <2>1. end = Len(pending) BY <1>2 DEF StretchEnd
    <2> QED BY <1>1, <1>2, <2>1, EmptySeq
  <1>3. CASE S # {}
    <2>1. S \in SUBSET Nat BY <1>1
    <2>2. end = Min(S) - 1 BY <1>3 DEF StretchEnd
    <2>3. Min(S) \in S /\ \A k \in S : Min(S) <= k BY <1>3, <2>1, LeastIsMin
    <2>4. \A i \in 1 .. end : ~IsPragma(pending[i])
      <3>1. SUFFICES ASSUME NEW i \in 1 .. end, IsPragma(pending[i]) PROVE FALSE OBVIOUS
      <3>2. PICK m \in 1 .. Len(pending) : m = Min(S) BY <1>1, <2>3
      <3>3. i \in 1 .. Len(pending) /\ i <= m - 1 BY <1>1, <2>2, <3>2
      <3>4. i \in S BY <1>1, <3>1, <3>3
      <3>5. m <= i BY <2>3, <3>2, <3>4
      <3> QED BY <3>2, <3>3, <3>5
    <2>5. end \in 0 .. Len(pending) /\ IsPragma(pending[end + 1])
      <3>1. PICK m \in 1 .. Len(pending) : m = Min(S) /\ IsPragma(pending[m]) BY <1>1, <2>3
      <3> QED BY <1>1, <2>2, <3>1
    <2>6. ASSUME pending # <<>>, ~IsPragma(Head(pending)) PROVE end > 0
      <3>1. Head(pending) = pending[1] BY <2>6
      <3>2. 1 \notin S BY <2>6, <3>1
      <3>3. PICK m \in S : m = Min(S) BY <2>3
      <3>4. m \in Nat /\ m # 1 /\ m # 0 BY <1>1, <3>2, <3>3
      <3> QED BY <2>2, <3>3, <3>4
    <2> QED BY <2>4, <2>5, <2>6
  <1> QED BY <1>2, <1>3

Waiting == TextTokens(AllMeanings \cup {None})

\* Text that is read, with what its names mean, is text that waits.
LEMMA TextRead ==
    ASSUME MacroInv, NEW p \in Seq(Waiting), NEW toks \in Seq(TextTokens({None}))
    PROVE  LET e == ExtendPending(p, toks)
           IN  /\ e \in Seq(Waiting) /\ Len(e) = Len(p) + Len(toks)
               /\ \A i \in 1 .. Len(p) : e[i] = p[i]
               /\ \A i \in 1 .. Len(toks) :
                      e[Len(p) + i] = Noted(toks[i], p \o SubSeq(toks, 1, i - 1))
  <1> DEFINE q == [i \in 1 .. Len(toks) |-> Noted(toks[i], p \o SubSeq(toks, 1, i - 1))]
  <1>1. Len(toks) \in Nat /\ Len(p) \in Nat BY LenProperties
  <1>2. ASSUME NEW i \in 1 .. Len(toks) PROVE q[i] \in Waiting
    <2>1. toks[i] \in TextTokens({None}) BY ElementOfSeq
    <2>2. ASSUME NEW before, toks[i].kind = "name"
          PROVE  [toks[i] EXCEPT !.seen = SeenMeaning(toks[i], before)] \in Waiting
      <3>1. toks[i] \in [kind : {"name"}, name : Names, seen : {None}] BY <2>1, <2>2 DEF TextTokens
      <3>2. SeenMeaning(toks[i], before) \in AllMeanings \cup {None}
        BY <3>1, MeaningTyped DEF SeenMeaning, MeaningsTyped
      <3>3. [toks[i] EXCEPT !.seen = SeenMeaning(toks[i], before)]
              \in [kind : {"name"}, name : Names, seen : AllMeanings \cup {None}]
        BY <3>1, <3>2
      <3> QED BY <3>3 DEF Waiting, TextTokens
    <2>3. ASSUME toks[i].kind # "name" PROVE toks[i] \in Waiting
      BY <2>1, <2>3 DEF Waiting, TextTokens
    <2>4. Noted(toks[i], p \o SubSeq(toks, 1, i - 1)) \in Waiting BY <2>2, <2>3 DEF Noted
    <2> QED BY <2>4
  <1>3. q \in Seq(Waiting) /\ Len(q) = Len(toks)
        /\ \A i \in 1 .. Len(toks) : q[i] = Noted(toks[i], p \o SubSeq(toks, 1, i - 1))
    BY <1>1, <1>2
  <1> HIDE DEF q
  <1>4. p \o q \in Seq(Waiting) /\ Len(p \o q) = Len(p) + Len(q)
        /\ \A i \in 1 .. Len(p) + Len(q) : (p \o q)[i] = IF i <= Len(p) THEN p[i] ELSE q[i - Len(p)]
    BY <1>3, ConcatProperties, ZenonT(60)
  <1>5. \A i \in 1 .. Len(p) : (p \o q)[i] = p[i] BY <1>1, <1>3, <1>4
  <1>6. ASSUME NEW i \in 1 .. Len(toks) PROVE (p \o q)[Len(p) + i] = q[i]
    <2>1. Len(p) + i \in 1 .. Len(p) + Len(q) /\ ~(Len(p) + i <= Len(p)) /\ (Len(p) + i) - Len(p) = i
      BY <1>1, <1>3
    <2> QED BY <1>4, <2>1
  <1> QED BY <1>3, <1>4, <1>5, <1>6 DEF ExtendPending, q

\* The directive being executed is one of those the job may contain.
LEMMA LineFacts ==
    ASSUME ControlSound, phase # "line", line.kind # "eof"
    PROVE  line \in AllLines /\ LineFields(line)
  BY InputAssumption DEF ControlSound, Eof

\* The source that reads.
LEMMA ReadingFacts ==
    ASSUME DriverSound, frames # <<>>
    PROVE  /\ Top.job \in DOMAIN Lines /\ Job = Top.job
           /\ status = "running"
  BY TopFrame, FrameFields DEF DriverSound, ControlSound, Job

LEMMA RunningMacros ==
    ASSUME MacrosSound, status # "failed"
    PROVE  MacroInv
  BY DEF MacrosSound, MacroInv

LEMMA RereadFrame ==
    ASSUME NEW f \in FrameTypes, NEW n \in Nat,
           NEW x \in Seq(TextTokens(AllMeanings \cup {None}))
    PROVE  [f EXCEPT !.left = n, !.pending = x] \in FrameTypes
  BY DEF FrameTypes

LEMMA ReadLineSound ==
    ASSUME DriverSound, ReadLine
    PROVE  /\ (StackSound /\ ControlSound)' /\ frames # <<>> /\ frames' # <<>>
           /\ \E t : Rewrites(t)
           /\ \/ Top'.pending = Top.pending
              \/ \E toks \in Seq(TextTokens({None})) : Top'.pending = ExtendPending(Top.pending, toks)
  <1>1. StackSound /\ ControlSound /\ MacroInv /\ frames # <<>> /\ phase = "line"
    BY RunningMacros DEF DriverSound, ReadLine, Reading
  <1>2. Top \in SoundFrames /\ Top \in FrameTypes /\ Top.left \in Nat \ {0} /\ status = "running"
    BY <1>1, TopFrame, FrameFields DEF ReadLine, Reading
  <1>3. PICK l \in Lines[Top.job] :
          /\ tokens + TokenCount(l) <= MaxTokens
          /\ tokens' = tokens + TokenCount(l)
          /\ ReadText(l) \/ (l.kind # "text" /\ StartDirective(l))
    BY DEF ReadLine
  <1>4. l \in AllLines /\ LineFields(l)
    <2>1. Top.job \in DOMAIN Lines BY <1>2, FrameFields
    <2> QED BY <1>3, <2>1, InputAssumption DEF AllLines
  <1>5. tokens' \in 0 .. MaxTokens
    <2>1. TokenCount(l) \in Nat
      <3>1. CASE l.kind = "text"
        <4>1. l.tokens \in Seq(TextTokens({None})) BY <1>4, <3>1 DEF LineFields
        <4> QED BY <3>1, <4>1, LenProperties DEF TokenCount
      <3>2. CASE l.kind # "text" BY <3>2 DEF TokenCount
      <3> QED BY <3>1, <3>2
    <2> QED BY <1>1, <1>3, <2>1, DriverAssumption DEF ControlSound
  <1>6. CASE ReadText(l)
    <2> DEFINE t == [Top EXCEPT !.left = @ - 1,
                 !.pending = IF Active THEN ExtendPending(@, l.tokens) ELSE @]
    <2>1. l.tokens \in Seq(TextTokens({None})) BY <1>4, <1>6 DEF ReadText, LineFields
    <2>2. Top.pending \in Seq(Waiting) BY <1>2, FrameFields DEF Waiting
    <2>3. ExtendPending(Top.pending, l.tokens) \in Seq(Waiting) BY <1>1, <2>1, <2>2, TextRead
    <2>4. t \in FrameTypes
      <3> DEFINE x == IF Active THEN ExtendPending(Top.pending, l.tokens) ELSE Top.pending
      <3>1. x \in Seq(TextTokens(AllMeanings \cup {None})) BY <2>2, <2>3 DEF Waiting
      <3>2. Top.left - 1 \in Nat BY <1>2
      <3>3. t = [Top EXCEPT !.left = Top.left - 1, !.pending = x] BY <1>2 DEF FrameTypes
      <3> HIDE DEF x, t
      <3> QED BY <1>2, <3>1, <3>2, <3>3, RereadFrame
    <2>5. /\ t.conditions = Top.conditions /\ t.markers = Top.markers
          /\ t.path = Top.path /\ t.identity = Top.identity /\ t.saved_system = Top.saved_system
          /\ t.pending = Top.pending \/ t.pending = ExtendPending(Top.pending, l.tokens)
      BY <1>2 DEF FrameTypes
    <2>6. t \in SoundFrames BY <1>2, <2>4, <2>5, ChangedFrame
    <2>7. frames' = [frames EXCEPT ![Len(frames)] = t] BY <1>6 DEF ReadText, SetTop
    <2> HIDE DEF t
    <2>8. Rewrites(t) BY <1>1, <2>5, <2>6, <2>7 DEF Rewrites, SetTop
    <2>9. StackSound' /\ frames' # <<>> /\ Top' = t BY <1>1, <2>8, RewritesSound
    <2>10. ControlSound' BY <1>1, <1>2, <1>5, <1>6, <2>9 DEF ControlSound, ReadLine, ReadText
    <2> QED BY <1>1, <2>1, <2>5, <2>8, <2>9, <2>10
  <1>7. CASE l.kind # "text" /\ StartDirective(l)
    <2> DEFINE t == [Top EXCEPT !.left = @ - 1]
    <2>4. t \in FrameTypes BY <1>2, SMTT(60) DEF FrameTypes
    <2>5. /\ t.conditions = Top.conditions /\ t.markers = Top.markers /\ t.pending = Top.pending
          /\ t.path = Top.path /\ t.identity = Top.identity /\ t.saved_system = Top.saved_system
      BY <1>2 DEF FrameTypes
    <2>6. t \in SoundFrames BY <1>2, <2>4, <2>5, ChangedFrame
    <2>7. frames' = [frames EXCEPT ![Len(frames)] = t] BY <1>7 DEF StartDirective, SetTop
    <2> HIDE DEF t
    <2>8. Rewrites(t) BY <1>1, <2>5, <2>6, <2>7 DEF Rewrites, SetTop
    <2>9. StackSound' /\ frames' # <<>> /\ Top' = t BY <1>1, <2>8, RewritesSound
    <2>10. phase' \in {"exec", "flush"} /\ (phase' = "exec" => Top'.pending = <<>>) /\ line' = l
      BY <1>7, <2>5, <2>9 DEF StartDirective
    <2>11. ControlSound' BY <1>1, <1>2, <1>4, <1>5, <1>7, <2>9, <2>10 DEF ControlSound, ReadLine
    <2> QED BY <1>1, <2>5, <2>8, <2>9, <2>11
  <1> QED BY <1>3, <1>6, <1>7

LEMMA EndOfFileSound ==
    ASSUME DriverSound, EndOfFile
    PROVE  (StackSound /\ ControlSound)' /\ Keeps /\ frames # <<>>
  <1>1. StackSound /\ ControlSound /\ frames # <<>> /\ status = "running" /\ Keeps
    BY DEF DriverSound, EndOfFile, Reading, Keeps
  <1>2. StackSound' /\ Top' = Top BY <1>1, KeepsSound
  <1>3. phase' \in {"exec", "flush"} /\ (phase' = "exec" => Top'.pending = <<>>) /\ line' = Eof
    BY <1>2 DEF EndOfFile
  <1>4. ControlSound' BY <1>1, <1>3 DEF ControlSound, EndOfFile
  <1> QED BY <1>1, <1>2, <1>4

\* The rest of the waiting text.
LEMMA TextRest ==
    ASSUME NEW S, NEW p \in Seq(S), NEW end \in 0 .. Len(p)
    PROVE  LET rest == SubSeq(p, end + 1, Len(p))
           IN  /\ rest \in Seq(S) /\ Len(rest) = Len(p) - end
               /\ \A i \in 1 .. (Len(p) - end) : rest[i] = p[end + i]
  <1>1. Len(p) \in Nat /\ \A i \in 1 .. Len(p) : p[i] \in S BY LenProperties, ElementOfSeq
  <1>2. CASE end = Len(p)
    <2>1. SubSeq(p, end + 1, Len(p)) = <<>> BY <1>1, <1>2, SubSeqEmpty
    <2> QED BY <1>1, <1>2, <2>1, EmptySeq
  <1>3. CASE end # Len(p)
    <2>1. /\ end + 1 \in 1 .. Len(p) /\ Len(p) \in (end + 1) .. Len(p)
      BY <1>1, <1>3
    <2> QED BY <1>1, <2>1, SubSeqProperties
  <1> QED BY <1>2, <1>3

\* The text of the source being read gets shorter.
LEMMA TakenText ==
    ASSUME StackSound, frames # <<>>, NEW rest \in Seq(TextTokens(AllMeanings \cup {None})),
           SetTop([Top EXCEPT !.pending = rest])
    PROVE  /\ \E t : Rewrites(t) /\ t.pending = rest
           /\ StackSound' /\ frames' # <<>> /\ Top'.pending = rest /\ Top'.path = Top.path
  <1>1. Top \in SoundFrames /\ Top \in FrameTypes BY TopFrame
  <1> DEFINE t == [Top EXCEPT !.pending = rest]
  <1>2. t \in FrameTypes BY <1>1 DEF FrameTypes
  <1>3. /\ t.conditions = Top.conditions /\ t.markers = Top.markers /\ t.pending = rest
        /\ t.path = Top.path /\ t.identity = Top.identity /\ t.saved_system = Top.saved_system
    BY <1>1 DEF FrameTypes
  <1>4. t \in SoundFrames BY <1>1, <1>2, <1>3, ChangedFrame
  <1>5. frames' = [frames EXCEPT ![Len(frames)] = t] BY DEF SetTop
  <1> HIDE DEF t
  <1>6. Rewrites(t) BY <1>3, <1>4, <1>5 DEF Rewrites, SetTop
  <1>7. StackSound' /\ frames' # <<>> /\ Top' = t BY <1>6, RewritesSound
  <1> QED BY <1>3, <1>6, <1>7

LEMMA PragmaFlag ==
    ASSUME documentation_system \in BOOLEAN, NEW p, pragma(p)
    PROVE  documentation_system' \in BOOLEAN
  BY DEF pragma

LEMMA FlushTextSound ==
    ASSUME DriverSound, FlushText
    PROVE  /\ (StackSound /\ ControlSound)' /\ \E t : Rewrites(t)
           /\ frames # <<>> /\ frames' # <<>> /\ Top'.path = Top.path
           /\ Top'.pending = SubSeq(Top.pending, StretchEnd(Top.pending) + 1, Len(Top.pending))
  <1>1. StackSound /\ ControlSound /\ status = "running" /\ phase = "flush" /\ frames # <<>>
    BY DEF DriverSound, ControlSound, FlushText, Flushing
  <1>2. Top.pending \in Seq(Waiting) BY <1>1, TopFrame, FrameFields DEF Waiting
  <1> DEFINE end == StretchEnd(Top.pending)
             rest == SubSeq(Top.pending, end + 1, Len(Top.pending))
  <1>3. rest \in Seq(Waiting) BY <1>2, StretchPlace, TextRest
  <1>4. SetTop([Top EXCEPT !.pending = rest])
    <2>1. Top \in FrameTypes BY <1>1, TopFrame
    <2> QED BY <2>1 DEF FlushText, FrameTypes
  <1> HIDE DEF rest, end
  <1>5. /\ StackSound' /\ frames' # <<>> /\ \E t : Rewrites(t)
        /\ Top'.pending = rest /\ Top'.path = Top.path
    BY <1>1, <1>3, <1>4, TakenText DEF Waiting
  <1>6. ControlSound' BY <1>1, <1>5 DEF ControlSound, FlushText
  <1> QED BY <1>1, <1>5, <1>6 DEF rest, end

LEMMA FlushPragmaSound ==
    ASSUME DriverSound, FlushPragma
    PROVE  /\ (StackSound /\ ControlSound)' /\ \E t : Rewrites(t)
           /\ frames # <<>> /\ frames' # <<>> /\ Top'.path = Top.path
           /\ Top'.pending = Tail(Top.pending)
  <1>1. StackSound /\ ControlSound /\ status = "running" /\ phase = "flush" /\ frames # <<>>
    BY DEF DriverSound, ControlSound, FlushPragma, Flushing
  <1>2. Top.pending \in Seq(Waiting) /\ Top.pending # <<>>
    BY <1>1, TopFrame, FrameFields DEF Waiting, FlushPragma
  <1> DEFINE rest == Tail(Top.pending)
  <1>3. rest \in Seq(Waiting) BY <1>2, HeadTailProperties
  <1>4. SetTop([Top EXCEPT !.pending = rest])
    <2>1. Top \in FrameTypes BY <1>1, TopFrame
    <2> QED BY <2>1 DEF FlushPragma, FrameTypes
  <1> HIDE DEF rest
  <1>5. /\ StackSound' /\ frames' # <<>> /\ \E t : Rewrites(t)
        /\ Top'.pending = rest /\ Top'.path = Top.path
    BY <1>1, <1>3, <1>4, TakenText DEF Waiting
  <1>6. documentation_system' \in BOOLEAN BY <1>1, PragmaFlag DEF ControlSound, FlushPragma
  <1>7. /\ status' = status /\ inputs' = inputs /\ phase' = phase /\ line' = line /\ tokens' = tokens
    BY DEF FlushPragma
  <1>8. ControlSound' BY <1>1, <1>5, <1>6, <1>7 DEF ControlSound
  <1> QED BY <1>1, <1>5, <1>8 DEF rest

LEMMA FlushDoneSound ==
    ASSUME DriverSound, FlushDone
    PROVE  (StackSound /\ ControlSound)' /\ Keeps /\ frames # <<>>
  <1>1. StackSound /\ ControlSound /\ status = "running" /\ phase = "flush" /\ frames # <<>> /\ Keeps
    BY DEF DriverSound, ControlSound, FlushDone, Flushing, Keeps
  <1>2. StackSound' /\ Top' = Top BY <1>1, KeepsSound
  <1>3. /\ phase' = "exec" /\ Top'.pending = <<>> /\ line' = line /\ frames' = frames
        /\ UNCHANGED <<status, inputs, tokens, documentation_system>>
    BY <1>2 DEF FlushDone
  <1>4. ControlSound' BY <1>1, <1>3 DEF ControlSound
  <1> QED BY <1>1, <1>2, <1>4

\* The groups of the source being read change.
LEMMA RegroupedSound ==
    ASSUME DriverSound, phase = "exec", Executed, documentation_system' \in BOOLEAN,
           NEW d \in Seq(Groups), GroupsNest(d), GroupsUsed(d), Len(d) <= ConditionalLimit,
           SetConditions(d)
    PROVE  Settled /\ QuietStep
  <1>1. StackSound /\ ControlSound BY DEF DriverSound
  <1>2. frames # <<>> /\ Top.pending = <<>> BY <1>1 DEF ControlSound
  <1>3. Top \in SoundFrames /\ Top \in FrameTypes BY <1>1, <1>2, TopFrame
  <1> DEFINE t == [Top EXCEPT !.conditions = d]
  <1>4. t \in FrameTypes BY <1>3 DEF FrameTypes
  <1>5. /\ t.conditions = d /\ t.markers = Top.markers /\ t.pending = Top.pending
        /\ t.path = Top.path /\ t.identity = Top.identity /\ t.saved_system = Top.saved_system
    BY <1>3 DEF FrameTypes
  <1>6. frames' = [frames EXCEPT ![Len(frames)] = t] BY DEF SetConditions, SetTop
  <1> HIDE DEF t
  <1>7. t \in SoundFrames BY <1>3, <1>4, <1>5 DEF SoundFrames
  <1>8. Rewrites(t) BY <1>2, <1>5, <1>6, <1>7 DEF Rewrites, SetTop
  <1>9. QuietStep BY <1>2, <1>5, <1>7, <1>8 DEF QuietStep
  <1> QED BY <1>9, ExecutedSound DEF StackStep

LEMMA TopGroups ==
    ASSUME DriverSound, frames # <<>>
    PROVE  /\ Top.conditions \in Seq(Groups) /\ GroupsNest(Top.conditions) /\ GroupsUsed(Top.conditions)
           /\ Len(Top.conditions) \in Nat /\ Len(Top.conditions) <= ConditionalLimit
           /\ ConditionalLimit \in Nat /\ Active \in BOOLEAN
           /\ Top.conditions # <<>> => Group \in Groups
  <1>1. Top \in SoundFrames /\ Top \in FrameTypes BY TopFrame DEF DriverSound
  <1>2. /\ Top.conditions \in Seq(Groups) /\ GroupsNest(Top.conditions) /\ GroupsUsed(Top.conditions)
        /\ Len(Top.conditions) <= ConditionalLimit
    BY <1>1, FrameFields DEF SoundFrames
  <1>3. Len(Top.conditions) \in Nat BY <1>2, LenProperties
  <1>4. ConditionalLimit \in Nat BY DriverAssumption DEF ConditionalLimit
  <1>5. Top.conditions # <<>> => Group \in Groups
    <2>1. Top.conditions # <<>> => Len(Top.conditions) \in 1 .. Len(Top.conditions)
      BY <1>2, <1>3, EmptySeq
    <2> QED BY <1>2, <2>1, ElementOfSeq DEF Group
  <1>6. Active \in BOOLEAN BY <1>5 DEF Active, ActiveIn, Group, Groups
  <1> QED BY <1>2, <1>3, <1>4, <1>5, <1>6

\* #if, #ifdef and #ifndef, in an active place or not.
LEMMA OpensSound ==
    ASSUME DriverSound, phase = "exec", Executed, documentation_system' \in BOOLEAN,
           Len(Top.conditions) < ConditionalLimit, NEW matches \in BOOLEAN, matches => Active,
           SetConditions(Append(Top.conditions, NewConditional(Active, matches)))
    PROVE  Settled /\ QuietStep
  <1>1. frames # <<>> BY DEF DriverSound, ControlSound
  <1> DEFINE d == Append(Top.conditions, NewConditional(Active, matches))
  <1>2. /\ d \in Seq(Groups) /\ Len(d) = Len(Top.conditions) + 1
        /\ GroupsNest(d) /\ GroupsUsed(d)
    BY <1>1, TopGroups, OpenedGroup DEF Active
  <1>3. Len(d) <= ConditionalLimit BY <1>1, <1>2, TopGroups
  <1>4. SetConditions(d) OBVIOUS
  <1> HIDE DEF d
  <1> QED BY <1>2, <1>3, <1>4, RegroupedSound

LEMMA IfSound ==
    ASSUME DriverSound, If \/ Ifdef \/ SkippedIf
    PROVE  Settled /\ QuietStep
  <1>1. /\ phase = "exec" /\ Executed /\ Len(Top.conditions) < ConditionalLimit
        /\ documentation_system \in BOOLEAN
    BY DEF If, Ifdef, SkippedIf, Executing, DriverSound, ControlSound
  <1>2. Active \in BOOLEAN
    <2>1. frames # <<>> BY <1>1 DEF DriverSound, ControlSound
    <2> QED BY <2>1, TopGroups
  <1>3. CASE If
    <2>1. Active = TRUE BY <1>2, <1>3 DEF If
    <2>2. PICK matches \in BOOLEAN : SetConditions(Append(Top.conditions, NewConditional(TRUE, matches)))
      BY <1>3 DEF If
    <2>3. documentation_system' \in BOOLEAN BY <1>1, <1>3, PragmaFlag DEF If, condition
    <2>4. SetConditions(Append(Top.conditions, NewConditional(Active, matches))) BY <2>1, <2>2
    <2> QED BY <1>1, <2>1, <2>3, <2>4, OpensSound
  <1>4. CASE Ifdef
    <2>1. Active = TRUE BY <1>2, <1>4 DEF Ifdef
    <2>2. PICK matches \in BOOLEAN : SetConditions(Append(Top.conditions, NewConditional(TRUE, matches)))
      BY <1>4 DEF Ifdef
    <2>3. documentation_system' \in BOOLEAN BY <1>1, <1>4 DEF Ifdef
    <2>4. SetConditions(Append(Top.conditions, NewConditional(Active, matches))) BY <2>1, <2>2
    <2> QED BY <1>1, <2>1, <2>3, <2>4, OpensSound
  <1>5. CASE SkippedIf
    <2>1. Active = FALSE BY <1>2, <1>5 DEF SkippedIf
    <2>2. SetConditions(Append(Top.conditions, NewConditional(Active, FALSE))) BY <1>5, <2>1 DEF SkippedIf
    <2>3. documentation_system' \in BOOLEAN BY <1>1, <1>5 DEF SkippedIf
    <2> QED BY <1>1, <2>2, <2>3, OpensSound
  <1> QED BY <1>3, <1>4, <1>5

\* #elif and #else.
LEMMA BranchesSound ==
    ASSUME DriverSound, phase = "exec", Executed, documentation_system' \in BOOLEAN,
           Top.conditions # <<>>, ~Group.seen_else,
           NEW matches \in BOOLEAN, NEW is_else \in BOOLEAN,
           matches => Group.can_take_branch,
           is_else => (matches <=> Group.can_take_branch),
           SetGroup(NextBranch(Group, matches, is_else))
    PROVE  Settled /\ QuietStep
  <1>1. frames # <<>> BY DEF DriverSound, ControlSound
  <1> DEFINE c == Top.conditions
             d == [c EXCEPT ![Len(c)] = NextBranch(c[Len(c)], matches, is_else)]
  <1>2. d \in Seq(Groups) /\ Len(d) = Len(c) /\ GroupsNest(d) /\ GroupsUsed(d)
    BY <1>1, TopGroups, BranchedGroup DEF Group
  <1>3. Len(d) <= ConditionalLimit BY <1>1, <1>2, TopGroups
  <1>4. SetConditions(d) BY DEF SetGroup, Group
  <1> HIDE DEF d
  <1> QED BY <1>2, <1>3, <1>4, RegroupedSound

LEMMA ElifSound ==
    ASSUME DriverSound, Elif \/ Else
    PROVE  Settled /\ QuietStep
  <1>1. /\ phase = "exec" /\ Executed /\ Top.conditions # <<>> /\ ~Group.seen_else
        /\ documentation_system \in BOOLEAN
    BY DEF Elif, Else, Executing, DriverSound, ControlSound
  <1>2. Group.can_take_branch \in BOOLEAN
    <2>1. frames # <<>> BY <1>1 DEF DriverSound, ControlSound
    <2> QED BY <1>1, <2>1, TopGroups DEF Groups
  <1>3. CASE Elif
    <2>1. documentation_system' \in BOOLEAN BY <1>1, <1>3, PragmaFlag DEF Elif, condition
    <2>2. PICK matches \in BOOLEAN :
            (matches => Group.can_take_branch) /\ SetGroup(NextBranch(Group, matches, FALSE))
      BY <1>3 DEF Elif
    <2> QED BY <1>1, <2>1, <2>2, BranchesSound
  <1>4. CASE Else
    <2>1. SetGroup(NextBranch(Group, Group.can_take_branch, TRUE)) BY <1>4 DEF Else
    <2>2. documentation_system' \in BOOLEAN BY <1>1, <1>4 DEF Else
    <2> QED BY <1>1, <1>2, <2>1, <2>2, BranchesSound
  <1> QED BY <1>3, <1>4

LEMMA EndifSound ==
    ASSUME DriverSound, Endif
    PROVE  Settled /\ QuietStep
  <1>1. phase = "exec" /\ Executed /\ documentation_system' \in BOOLEAN /\ Top.conditions # <<>>
    BY DEF Endif, Executing, DriverSound, ControlSound
  <1>2. frames # <<>> BY <1>1 DEF DriverSound, ControlSound
  <1> DEFINE d == SubSeq(Top.conditions, 1, Len(Top.conditions) - 1)
  <1>3. d \in Seq(Groups) /\ Len(d) = Len(Top.conditions) - 1 /\ GroupsNest(d) /\ GroupsUsed(d)
    BY <1>1, <1>2, TopGroups, ClosedGroup
  <1>4. Len(d) <= ConditionalLimit BY <1>2, <1>3, TopGroups
  <1>5. SetConditions(d) BY DEF Endif
  <1> HIDE DEF d
  <1> QED BY <1>1, <1>3, <1>4, <1>5, RegroupedSound

\* Directives that leave the include stack alone.
LEMMA PlainSound ==
    ASSUME DriverSound, Ignored \/ ExecDefine \/ ExecUndef \/ ExecPragma
    PROVE  Settled /\ QuietStep
  <1>1. /\ phase = "exec" /\ Executed /\ documentation_system \in BOOLEAN /\ frames' = frames
        /\ frames # <<>>
    BY DEF Ignored, ExecDefine, ExecUndef, ExecPragma, Executing, DriverSound, ControlSound
  <1>2. documentation_system' \in BOOLEAN
    <2>1. CASE ExecPragma BY <1>1, <2>1, PragmaFlag DEF ExecPragma
    <2>2. CASE Ignored \/ ExecDefine \/ ExecUndef BY <1>1, <2>2 DEF Ignored, ExecDefine, ExecUndef
    <2> QED BY <2>1, <2>2
  <1>3. QuietStep BY <1>1 DEF QuietStep, Keeps
  <1> QED BY <1>1, <1>2, <1>3, ExecutedSound DEF StackStep

\* A line marker renames the rest of the source being read.
LEMMA RenamedSound ==
    ASSUME DriverSound, phase = "exec", Executed, documentation_system' \in BOOLEAN,
           NEW logical \in Presumed, NEW markers \in Seq(Presumed), Len(markers) <= MaxIncludeDepth,
           SetTop([Top EXCEPT !.logical = logical, !.markers = markers])
    PROVE  Settled /\ QuietStep
  <1>1. StackSound /\ ControlSound BY DEF DriverSound
  <1>2. frames # <<>> /\ Top.pending = <<>> BY <1>1 DEF ControlSound
  <1>3. Top \in SoundFrames /\ Top \in FrameTypes BY <1>1, <1>2, TopFrame
  <1> DEFINE t == [Top EXCEPT !.logical = logical, !.markers = markers]
  <1>4. t \in FrameTypes BY <1>3 DEF FrameTypes
  <1>5. /\ t.conditions = Top.conditions /\ t.markers = markers /\ t.pending = Top.pending
        /\ t.path = Top.path /\ t.identity = Top.identity /\ t.saved_system = Top.saved_system
    BY <1>3 DEF FrameTypes
  <1>6. frames' = [frames EXCEPT ![Len(frames)] = t] BY DEF SetTop
  <1> HIDE DEF t
  <1>7. t \in SoundFrames BY <1>3, <1>4, <1>5 DEF SoundFrames
  <1>8. Rewrites(t) BY <1>2, <1>5, <1>6, <1>7 DEF Rewrites, SetTop
  <1>9. QuietStep BY <1>2, <1>5, <1>7, <1>8 DEF QuietStep
  <1> QED BY <1>9, ExecutedSound DEF StackStep

LEMMA MarkerSound ==
    ASSUME DriverSound, ExecLine \/ ExecMarker
    PROVE  Settled /\ QuietStep
  <1>1. /\ phase = "exec" /\ Executed /\ line.kind \in {"line", "marker"}
        /\ documentation_system \in BOOLEAN /\ ControlSound
    BY DEF ExecLine, ExecMarker, Executing, DriverSound, ControlSound
  <1>2. frames # <<>> BY <1>1 DEF ControlSound
  <1>3. line \in AllLines /\ LineFields(line) BY <1>1, LineFacts
  <1>4. line.file \in Presumed BY <1>1, <1>3 DEF Presumed
  <1>5. Top \in SoundFrames /\ Top \in FrameTypes BY <1>2, TopFrame DEF DriverSound
  <1>6. Top.markers \in Seq(Presumed) /\ Len(Top.markers) \in Nat /\ Len(Top.markers) <= MaxIncludeDepth
        /\ Top.logical \in Presumed /\ MaxIncludeDepth \in Nat
    BY <1>5, FrameFields, LenProperties, DriverAssumption DEF SoundFrames
  <1>7. CASE ExecLine
    <2>1. [Top EXCEPT !.logical = line.file] = [Top EXCEPT !.logical = line.file, !.markers = Top.markers]
      BY <1>5 DEF FrameTypes
    <2>2. SetTop([Top EXCEPT !.logical = line.file, !.markers = Top.markers])
      BY <1>7, <2>1 DEF ExecLine
    <2>3. documentation_system' \in BOOLEAN BY <1>1, <1>7 DEF ExecLine
    <2> QED BY <1>1, <1>4, <1>6, <2>2, <2>3, RenamedSound
  <1>8. CASE ExecMarker
    <2>1. line.kind = "marker" BY <1>8 DEF ExecMarker, Executing
    <2>2. documentation_system' \in BOOLEAN BY <1>3, <1>8, <2>1 DEF ExecMarker, LineFields
    <2>3. CASE SetTop([Top EXCEPT !.logical = line.file])
      <3>1. [Top EXCEPT !.logical = line.file] = [Top EXCEPT !.logical = line.file, !.markers = Top.markers]
        BY <1>5 DEF FrameTypes
      <3>2. SetTop([Top EXCEPT !.logical = line.file, !.markers = Top.markers])
        BY <2>3, <3>1
      <3> QED BY <1>1, <1>4, <1>6, <2>2, <3>2, RenamedSound
    <2>4. CASE /\ Len(Top.markers) < MaxIncludeDepth
               /\ SetTop([Top EXCEPT !.logical = line.file, !.markers = Append(@, Top.logical)])
      <3> DEFINE m == Append(Top.markers, Top.logical)
      <3>1. m \in Seq(Presumed) /\ Len(m) = Len(Top.markers) + 1 BY <1>6, AppendProperties
      <3>2. Len(m) <= MaxIncludeDepth BY <1>6, <2>4, <3>1
      <3>3. SetTop([Top EXCEPT !.logical = line.file, !.markers = m]) BY <1>5, <2>4 DEF FrameTypes
      <3> HIDE DEF m
      <3> QED BY <1>1, <1>4, <2>2, <3>1, <3>2, <3>3, RenamedSound
    <2>5. CASE /\ Top.markers # <<>>
               /\ SetTop([Top EXCEPT !.logical = line.file, !.markers = SubSeq(@, 1, Len(@) - 1)])
      <3> DEFINE m == SubSeq(Top.markers, 1, Len(Top.markers) - 1)
      <3>1. m \in Seq(Presumed) /\ Len(m) = Len(Top.markers) - 1 BY <1>6, <2>5, DropLast
      <3>2. Len(m) <= MaxIncludeDepth BY <1>6, <3>1
      <3>3. SetTop([Top EXCEPT !.logical = line.file, !.markers = m]) BY <1>5, <2>5 DEF FrameTypes
      <3> HIDE DEF m
      <3> QED BY <1>1, <1>4, <2>2, <3>1, <3>2, <3>3, RenamedSound
    <2> QED BY <1>8, <2>3, <2>4, <2>5 DEF ExecMarker
  <1> QED BY <1>7, <1>8

LEMMA LeaveSound ==
    ASSUME DriverSound, LeaveSource
    PROVE  Settled /\ QuietStep
  <1>1. phase = "exec" /\ Executed /\ ControlSound /\ StackSound
    BY DEF LeaveSource, Executing, DriverSound
  <1>2. frames # <<>> BY <1>1 DEF ControlSound
  <1>3. Top \in FrameTypes BY <1>1, <1>2, TopFrame
  <1>4. documentation_system' \in BOOLEAN BY <1>3, FrameFields DEF LeaveSource
  <1>5. QuietStep BY <1>2 DEF LeaveSource, QuietStep, Pops
  <1> QED BY <1>1, <1>4, <1>5, ExecutedSound DEF StackStep

\* A source that is entered, at a place that can wait for it.
LEMMA EnteredShape ==
    ASSUME ControlSound, Job \in DOMAIN Lines, frames # <<>> => Waits(Top),
           Len(frames) < Max({1, MaxIncludeDepth}),
           NEW path \in Sites, NEW identity \in Sites, NEW main \in BOOLEAN, NEW system \in BOOLEAN,
           NEW n \in Lengths, EnterSource(Frame(path, identity, main, system, n), n)
    PROVE  /\ documentation_system' \in BOOLEAN
           /\ \E t \in SoundFrames :
                 /\ t.path = path /\ t.identity = identity /\ t.main = main /\ t.pending = <<>>
                 /\ Pushes(t)
  <1> DEFINE t == Frame(path, identity, main, system, n)
  <1>1. documentation_system \in BOOLEAN BY DEF ControlSound
  <1>2. /\ t \in SoundFrames /\ t.saved_system = documentation_system
        /\ t.path = path /\ t.identity = identity /\ t.main = main /\ t.pending = <<>>
    BY <1>1, NewFrame
  <1>3. frames' = Append(frames, t) /\ documentation_system' = (documentation_system \/ t.system)
    BY DEF EnterSource
  <1> HIDE DEF t
  <1>4. Pushes(t) BY <1>2, <1>3 DEF Pushes
  <1> QED BY <1>2, <1>3, <1>4

\* The first source of a run is entered on no frames.
LEMMA FirstShape ==
    ASSUME ControlSound, Job \in DOMAIN Lines, frames = <<>>,
           NEW path \in Sites, NEW identity \in Sites, NEW main \in BOOLEAN, NEW system \in BOOLEAN,
           NEW n \in Lengths, EnterSource(Frame(path, identity, main, system, n), n)
    PROVE  /\ documentation_system' \in BOOLEAN
           /\ \E t \in SoundFrames :
                 /\ t.path = path /\ t.identity = identity /\ t.main = main /\ t.pending = <<>>
                 /\ Pushes(t)
  <1>1. Len(frames) < Max({1, MaxIncludeDepth}) BY DeepestIsNat, EmptySeq
  <1> QED BY <1>1, EnteredShape

LEMMA IdentityType ==
    ASSUME IncludesSound, NEW f \in Files
    PROVE  Identity(f) \in Files /\ Identity(f) \in Sites
  <1>1. Inode[f] \in {Inode[g] : g \in Files} OBVIOUS
  <1>2. hardlinks[Inode[f]] \in Files \cup {None} BY <1>1 DEF IncludesSound
  <1>3. Identity(f) \in Files BY <1>2 DEF Identity
  <1> QED BY <1>3, DriverAssumption

\* file(): nothing is entered, or the file is, under the identity of its inode.
LEMMA FileShape ==
    ASSUME ControlSound, IncludesSound, Job \in DOMAIN Lines, frames # <<>> => Waits(Top),
           NEW f \in Files, NEW system \in BOOLEAN, file(f, system), Len(frames) \in Nat
    PROVE  /\ documentation_system' \in BOOLEAN
           /\ \/ Keeps
              \/ \E t \in SoundFrames :
                   /\ t.path = f /\ t.identity = Identity(f) /\ ~t.main /\ t.pending = <<>>
                   /\ Pushes(t)
  <1>1. documentation_system \in BOOLEAN BY DEF ControlSound
  <1>2. Len(frames) < Max({1, MaxIncludeDepth})
    BY DeepestIsNat, DriverAssumption DEF file, TooDeep
  <1>3. f \in Sites /\ Identity(f) \in Sites BY IdentityType, DriverAssumption
  <1>4. CASE UNCHANGED <<frames, documentation_system>> BY <1>1, <1>4 DEF Keeps
  <1>5. CASE \E n \in Lengths : EnterSource(Frame(f, Identity(f), FALSE, system, n), n)
    <2>1. PICK n \in Lengths : EnterSource(Frame(f, Identity(f), FALSE, system, n), n) BY <1>5
    <2>2. ControlSound /\ Job \in DOMAIN Lines /\ (frames # <<>> => Waits(Top)) OBVIOUS
    <2>3. system \in BOOLEAN /\ FALSE \in BOOLEAN /\ n \in Lengths OBVIOUS
    <2>4. /\ documentation_system' \in BOOLEAN
          /\ \E t \in SoundFrames :
                /\ t.path = f /\ t.identity = Identity(f) /\ t.main = FALSE /\ t.pending = <<>>
                /\ Pushes(t)
      BY ONLY <1>2, <1>3, <2>1, <2>2, <2>3, EnteredShape, ZenonT(60)
    <2> QED BY <2>4
  <1> QED BY <1>4, <1>5 DEF file

LEMMA IncludeSound ==
    ASSUME DriverSound, ExecInclude
    PROVE  /\ Settled /\ StackStep
           /\ \/ Keeps
              \/ \E t \in SoundFrames :
                   /\ t.path = line.target /\ ~t.main /\ t.pending = <<>> /\ Pushes(t)
                   /\ \/ line.target \in Files /\ t.identity = Identity(line.target)
                      \/ line.target \in Virtual /\ t.identity = line.target
  <1>1. /\ phase = "exec" /\ Executed /\ ControlSound /\ StackSound /\ IncludesSound /\ Active
    BY DEF ExecInclude, Executing, DriverSound
  <1>2. frames # <<>> /\ Top.pending = <<>> /\ documentation_system \in BOOLEAN BY <1>1 DEF ControlSound
  <1>3. Job \in DOMAIN Lines BY <1>2, ReadingFacts
  <1>4. Waits(Top) BY <1>1, <1>2 DEF Waits, Active
  <1>5. Len(frames) \in Nat /\ Top.system \in BOOLEAN BY <1>1, <1>2, TopFrame, FrameFields
  <1>6. CASE line.target \in Files /\ file(line.target, line.target \in SystemFiles \/ Top.system)
    <2>1. (line.target \in SystemFiles \/ Top.system) \in BOOLEAN OBVIOUS
    <2>2. /\ documentation_system' \in BOOLEAN
          /\ \/ Keeps
             \/ \E t \in SoundFrames :
                  /\ t.path = line.target /\ t.identity = Identity(line.target) /\ ~t.main
                  /\ t.pending = <<>> /\ Pushes(t)
      BY <1>1, <1>3, <1>4, <1>5, <1>6, <2>1, FileShape
    <2>3. StackStep BY <2>2 DEF StackStep, QuietStep
    <2> QED BY <1>1, <1>6, <2>2, <2>3, ExecutedSound
  <1>7. CASE /\ line.target \in Virtual /\ ~TooDeep
             /\ \E n \in Lengths :
                   EnterSource(Frame(line.target, line.target, FALSE, TRUE, n), n)
    <2>1. PICK n \in Lengths : EnterSource(Frame(line.target, line.target, FALSE, TRUE, n), n) BY <1>7
    <2>2. line.target \in Sites BY <1>7, DriverAssumption
    <2>3. Len(frames) < Max({1, MaxIncludeDepth})
      BY <1>5, <1>7, DeepestIsNat, DriverAssumption DEF TooDeep
    <2>4. /\ documentation_system' \in BOOLEAN
          /\ \E t \in SoundFrames :
                 /\ t.path = line.target /\ t.identity = line.target /\ t.main = FALSE
                 /\ t.pending = <<>> /\ Pushes(t)
      BY <1>1, <1>3, <1>4, <2>1, <2>2, <2>3, EnteredShape, ZenonT(60)
    <2>5. StackStep BY <2>4 DEF StackStep
    <2> QED BY <1>1, <1>7, <2>4, <2>5, ExecutedSound
  <1>8. CASE UNCHANGED <<frames, documentation_system>>
    <2>1. Keeps /\ documentation_system' \in BOOLEAN BY <1>2, <1>8 DEF Keeps
    <2>2. StackStep BY <2>1 DEF StackStep, QuietStep
    <2> QED BY <1>1, <2>1, <2>2, ExecutedSound
  <1> QED BY <1>6, <1>7, <1>8 DEF ExecInclude

-----------------------------------------------------------------------------
(* Inputs and runs *)

LEMMA NextInputSound ==
    ASSUME DriverSound, NextInput
    PROVE  /\ Settled /\ frames = <<>> /\ Head(inputs) \in InputTypes
           /\ \/ Keeps
              \/ \E t \in SoundFrames :
                   /\ t.path = Head(inputs).path /\ t.pending = <<>> /\ Pushes(t)
                   /\ t.main <=> Head(inputs).kind \in {"str", "main"}
                   /\ \/ Head(inputs).kind \in {"forced", "str"} /\ t.identity = Head(inputs).path
                      \/ Head(inputs).kind \in {"header", "main"} /\ t.identity = Identity(Head(inputs).path)
  <1> DEFINE input == Head(inputs)
  <1>1. /\ ControlSound /\ StackSound /\ IncludesSound /\ frames = <<>> /\ inputs # <<>>
        /\ status = "running"
    BY DEF NextInput, DriverSound
  <1>2. input \in InputTypes /\ Tail(inputs) \in Seq(InputTypes)
    BY <1>1, HeadTailProperties DEF ControlSound
  <1>3. /\ input.job \in DOMAIN Lines
        /\ input.kind \in {"forced", "str", "header", "main"}
        /\ input.kind = "forced" => input.path \in Virtual
        /\ input.kind = "str" => input.path \in Sites
        /\ input.kind \in {"header", "main"} => input.path \in Files
    BY <1>2 DEF InputTypes
  <1>4. Job \in DOMAIN Lines BY <1>1, <1>3 DEF Job
  <1>5. Len(frames) = 0 /\ Len(frames) \in Nat /\ Len(frames) < Max({1, MaxIncludeDepth})
    BY <1>1, DeepestIsNat, EmptySeq
  <1>6. input.path \in Sites BY <1>3, DriverAssumption
  <1> DEFINE Shape ==
        \/ Keeps
        \/ \E t \in SoundFrames :
             /\ t.path = input.path /\ t.pending = <<>> /\ Pushes(t)
             /\ t.main <=> input.kind \in {"str", "main"}
             /\ \/ input.kind \in {"forced", "str"} /\ t.identity = input.path
                \/ input.kind \in {"header", "main"} /\ t.identity = Identity(input.path)
  <1>7. documentation_system' \in BOOLEAN /\ Shape
    <2>1. documentation_system \in BOOLEAN BY <1>1 DEF ControlSound
    <2>2. CASE UNCHANGED <<frames, documentation_system>> BY <2>1, <2>2 DEF Keeps
    <2>3. CASE /\ input.kind \in {"forced", "str"}
               /\ \E n \in Lengths :
                    EnterSource(Frame(input.path, input.path, input.kind = "str", FALSE, n), n)
      <3> DEFINE Entered(b) ==
            /\ documentation_system' \in BOOLEAN
            /\ \E t \in SoundFrames :
                 /\ t.path = input.path /\ t.identity = input.path /\ t.main = b
                 /\ t.pending = <<>> /\ Pushes(t)
      <3>1. PICK n \in Lengths :
              EnterSource(Frame(input.path, input.path, input.kind = "str", FALSE, n), n)
        BY <2>3
      <3>0. n \in Lengths OBVIOUS
      <3>2. CASE input.kind = "str"
        <4>1. EnterSource(Frame(input.path, input.path, TRUE, FALSE, n), n) BY <3>1, <3>2
        <4> HIDE DEF input
        <4>2. TRUE \in BOOLEAN /\ FALSE \in BOOLEAN /\ ControlSound /\ frames = <<>> BY <1>1
        <4>3. Entered(TRUE) BY ONLY <1>4, <1>6, <3>0, <4>1, <4>2, FirstShape, ZenonT(60)
        <4> QED BY <3>2, <4>3 DEF input
      <3>3. CASE input.kind = "forced"
        <4>1. EnterSource(Frame(input.path, input.path, FALSE, FALSE, n), n) BY <3>1, <3>3
        <4> HIDE DEF input
        <4>2. FALSE \in BOOLEAN /\ ControlSound /\ frames = <<>> BY <1>1
        <4>3. Entered(FALSE) BY ONLY <1>4, <1>6, <3>0, <4>1, <4>2, FirstShape, ZenonT(60)
        <4>4. input.kind # "str" /\ input.kind # "main" BY <3>3
        <4> QED BY <3>3, <4>3, <4>4 DEF input
      <3> QED BY <2>3, <3>2, <3>3
    <2>4. CASE input.kind = "header" /\ file(input.path, input.path \in SystemFiles)
      <3>1. (input.path \in SystemFiles) \in BOOLEAN /\ input.path \in Files BY <1>3, <2>4
      <3>2. /\ documentation_system' \in BOOLEAN
            /\ \/ Keeps
               \/ \E t \in SoundFrames :
                    /\ t.path = input.path /\ t.identity = Identity(input.path) /\ ~t.main
                    /\ t.pending = <<>> /\ Pushes(t)
        BY <1>1, <1>4, <1>5, <2>4, <3>1, FileShape
      <3> QED BY <2>4, <3>2
    <2>5. CASE /\ input.kind = "main"
               /\ \E n \in Lengths :
                    EnterSource(Frame(input.path, Identity(input.path), TRUE, FALSE, n), n)
      <3>1. PICK n \in Lengths :
              EnterSource(Frame(input.path, Identity(input.path), TRUE, FALSE, n), n)
        BY <2>5
      <3>2. Identity(input.path) \in Sites /\ TRUE \in BOOLEAN /\ FALSE \in BOOLEAN /\ n \in Lengths
        BY <1>1, <1>3, <2>5, IdentityType
      <3> HIDE DEF input
      <3>4. ControlSound /\ frames = <<>> BY <1>1
      <3>3. /\ documentation_system' \in BOOLEAN
            /\ \E t \in SoundFrames :
                 /\ t.path = input.path /\ t.identity = Identity(input.path) /\ t.main = TRUE
                 /\ t.pending = <<>> /\ Pushes(t)
        BY ONLY <1>4, <1>6, <3>1, <3>2, <3>4, FirstShape, ZenonT(60)
      <3> QED BY <2>5, <3>3 DEF input
    <2> QED BY <2>2, <2>3, <2>4, <2>5 DEF NextInput
  <1> HIDE DEF input
  <1>8. StackSound' /\ (frames' # <<>> => Top'.pending = <<>>)
    <2>1. CASE Keeps BY <1>1, <2>1, KeepsSound DEF Keeps
    <2>2. ASSUME NEW t \in SoundFrames, t.pending = <<>>, Pushes(t)
          PROVE  StackSound' /\ (frames' # <<>> => Top'.pending = <<>>)
      BY <1>1, <2>2, PushesSound
    <2> QED BY <1>7, <2>1, <2>2
  <1>9. ControlSound'
    <2>1. /\ inputs' \in Seq(InputTypes) /\ UNCHANGED <<status, phase, line, tokens>>
      BY <1>2 DEF NextInput
    <2>2. phase = "line" BY <1>1 DEF ControlSound
    <2> QED BY <1>1, <1>7, <2>1, <2>2 DEF ControlSound
  <1> QED BY <1>1, <1>2, <1>7, <1>8, <1>9 DEF Settled, input

LEMMA FinishSound ==
    ASSUME DriverSound, Finish
    PROVE  Settled /\ Keeps /\ frames = <<>>
  <1>1. StackSound /\ ControlSound /\ frames = <<>> /\ Keeps BY DEF DriverSound, Finish, Keeps
  <1>2. StackSound' BY <1>1, KeepsSound
  <1>3. ControlSound' BY <1>1 DEF ControlSound, Finish
  <1> QED BY <1>1, <1>2, <1>3 DEF Settled, Keeps

\* A rejected input, text or directive.
LEMMA UnwindSettled ==
    ASSUME DriverSound, Unwind
    PROVE  Settled /\ frames' = <<>> /\ status' = "failed"
  BY UnwindSound DEF Settled, Clears, Unwind

LEMMA InputsTyped ==
    ASSUME NEW job \in Jobs
    PROVE  Inputs(job) \in Seq(InputTypes)
  <1> DEFINE a == [i \in 1..Len(job.forced) |-> [kind |-> "forced", path |-> job.forced[i], job |-> job.name]]
             b == [i \in 1..Len(job.headers) |-> [kind |-> "header", path |-> job.headers[i], job |-> job.name]]
             c == <<[kind |-> job.kind, path |-> job.main, job |-> job.name]>>
  <1>1. JobFields(job) BY InputAssumption
  <1>2. a \in Seq(InputTypes)
    <2>1. Len(job.forced) \in Nat /\ \A i \in 1 .. Len(job.forced) : job.forced[i] \in Virtual
      BY <1>1, LenProperties, ElementOfSeq DEF JobFields
    <2>2. \A i \in 1 .. Len(job.forced) : a[i] \in InputTypes
      BY <1>1, <2>1 DEF InputTypes, JobFields
    <2>3. a = [i \in 1 .. Len(job.forced) |-> a[i]] OBVIOUS
    <2> HIDE DEF a
    <2>4. a \in [1 .. Len(job.forced) -> InputTypes] BY <2>2, <2>3
    <2> QED BY <2>1, <2>4
  <1>3. b \in Seq(InputTypes)
    <2>1. Len(job.headers) \in Nat /\ \A i \in 1 .. Len(job.headers) : job.headers[i] \in Files
      BY <1>1, LenProperties, ElementOfSeq DEF JobFields
    <2>2. \A i \in 1 .. Len(job.headers) : b[i] \in InputTypes
      BY <1>1, <2>1 DEF InputTypes, JobFields
    <2>3. b = [i \in 1 .. Len(job.headers) |-> b[i]] OBVIOUS
    <2> HIDE DEF b
    <2>4. b \in [1 .. Len(job.headers) -> InputTypes] BY <2>2, <2>3
    <2> QED BY <2>1, <2>4
  <1>4. c \in Seq(InputTypes)
    <2>1. [kind |-> job.kind, path |-> job.main, job |-> job.name] \in InputTypes
      BY <1>1 DEF JobFields, InputTypes
    <2> QED BY <2>1
  <1> HIDE DEF a, b, c
  <1>5. (a \o b) \o c \in Seq(InputTypes) BY <1>2, <1>3, <1>4, ConcatProperties
  <1> QED BY <1>5 DEF Inputs, a, b, c

LEMMA EntrySound ==
    ASSUME DriverSound, NEW job \in Jobs, Preprocess(job) \/ PreprocessError(job)
    PROVE  Settled /\ frames' = <<>> /\ status # "running"
  <1>1. Cardinality(DOMAIN Defines) \in Nat BY FS_CardinalityType, DriverAssumption
  <1>2. /\ frames' = <<>> /\ phase' = "line" /\ line' = None /\ documentation_system' = FALSE
        /\ status # "running" /\ status' \in {"running", "failed"}
    BY DEF Preprocess, PreprocessError, ResetRun
  <1>3. inputs' \in Seq(InputTypes)
    BY InputsTyped, EmptySeq DEF Preprocess, PreprocessError
  <1>4. tokens' \in 0 .. MaxTokens
    <2>1. CASE Preprocess(job)
      BY <1>1, <2>1, DriverAssumption DEF Preprocess, ResetRun, DefinesFit
    <2>2. CASE PreprocessError(job)
      <3>1. PICK n \in 0 .. Cardinality(DOMAIN Defines) : n <= MaxTokens /\ tokens' = n
        BY <2>2 DEF PreprocessError, ResetRun
      <3> QED BY <1>1, <3>1, DriverAssumption
    <2> QED BY <2>1, <2>2
  <1>5. StackSound'
    <2>1. StackSound /\ Clears BY <1>2 DEF DriverSound, Clears
    <2> QED BY <2>1, ClearsSound
  <1>6. ControlSound' BY <1>2, <1>3, <1>4 DEF ControlSound
  <1> QED BY <1>2, <1>5, <1>6 DEF Settled

-----------------------------------------------------------------------------
(* The macro environment under the driver *)

LEMMA MacrosKept ==
    ASSUME MacrosSound, UNCHANGED macroVars, status' # "failed" => status # "failed"
    PROVE  MacrosSound'
  <1>1. UNCHANGED <<macros, macro_origins, active_queries, ms_pragma_active, macro_stacks,
                    macro_stack_bytes, definition_bytes, redefinition_bytes>>
    BY DEF macroVars, envVars, stackVars, recordVars
  <1>2. MacroTypeOK' /\ OneMeaning' /\ SnapshotsSound' /\ macro_stack_bytes' <= MaxSourceBytes
    BY <1>1 DEF MacrosSound, MacroTypeOK, OneMeaning, SnapshotsSound
  <1>3. status' # "failed" => OriginMatchesDefinition'
    BY <1>1 DEF MacrosSound, OriginMatchesDefinition
  <1> QED BY <1>2, <1>3 DEF MacrosSound

LEMMA MacrosFromInv ==
    ASSUME MacroInv', macro_stack_bytes' <= MaxSourceBytes
    PROVE  MacrosSound'
  BY DEF MacrosSound, MacroInv

LEMMA PragmaMacros ==
    ASSUME MacrosSound, status # "failed", NEW p \in Pragmas, pragma(p)
    PROVE  MacrosSound'
  <1>1. MacroInv BY RunningMacros
  <1>2. CASE UNCHANGED macroVars BY <1>2, MacrosKept
  <1>3. CASE p.op = "push_macro" /\ push_macro(p.name)
    <2>1. p.name \in Names BY <1>3 DEF Pragmas
    <2>2. MacroInv' BY <1>1, <1>3, <2>1, PushInv
    <2>3. macro_stack_bytes' = macro_stack_bytes + SnapshotBytes(p.name) BY <1>3 DEF push_macro
    <2>4. ~(macro_stack_bytes + SnapshotBytes(p.name) > MaxSourceBytes)
      BY <1>3 DEF push_macro, PushRejected
    <2>5. macro_stack_bytes' \in Int /\ MaxSourceBytes \in Nat
      BY <2>2, MacroAssumption DEF MacroInv, MacroTypeOK
    <2>6. macro_stack_bytes' <= MaxSourceBytes BY <2>3, <2>4, <2>5
    <2> QED BY <2>2, <2>6, MacrosFromInv
  <1>4. CASE p.op = "pop_macro" /\ pop_macro(p.name)
    <2>1. p.name \in Names BY <1>4 DEF Pragmas
    <2>2. MacroInv' BY <1>1, <1>4, <2>1, PopInv
    <2> DEFINE top == macro_stacks[p.name][Len(macro_stacks[p.name])]
    <2>3. macro_stack_bytes' = macro_stack_bytes - top.bytes BY <1>4 DEF pop_macro
    <2>4. top \in Snapshot BY <1>1, <1>4, <2>1, TopSnapshot DEF pop_macro, PopRejected
    <2>5. top.bytes \in Nat BY <2>4 DEF Snapshot
    <2>6. macro_stack_bytes \in Int /\ macro_stack_bytes <= MaxSourceBytes /\ MaxSourceBytes \in Nat
      BY MacroAssumption DEF MacrosSound, MacroTypeOK
    <2> HIDE DEF top
    <2>7. macro_stack_bytes' <= MaxSourceBytes BY <2>3, <2>5, <2>6
    <2> QED BY <2>2, <2>7, MacrosFromInv
  <1> QED BY <1>2, <1>3, <1>4 DEF pragma

\* A definition whose record exceeds its budget leaves a stale origin in a run
\* that has failed: everything else still holds.
LEMMA UnrecordedMacros ==
    ASSUME MacrosSound, status # "failed", status' = "failed",
           NEW n \in Names, NEW v \in Values, NEW s \in Sites, DefineUnrecorded(n, v, s)
    PROVE  MacrosSound'
  <1>1. MacroInv BY RunningMacros
  <1>2. MacroTypeOK'
    <2>1. macros' \in [Names -> Definition \cup {None}]
      BY <1>1, DefinitionFacts DEF DefineUnrecorded, Replace, MacroInv, MacroTypeOK
    <2>2. active_queries' \subseteq QueryNames /\ ms_pragma_active' \in BOOLEAN
      BY <1>1 DEF DefineUnrecorded, Replace, MacroInv, MacroTypeOK
    <2>3. redefinition_bytes' \in Nat
      BY <1>1, MacroAssumption DEF DefineUnrecorded, RecordRedefinition, MacroInv, MacroTypeOK
    <2> QED BY <1>1, <2>1, <2>2, <2>3 DEF DefineUnrecorded, stackVars, MacroInv, MacroTypeOK
  <1>3. OneMeaning'
    BY <1>1 DEF DefineUnrecorded, Replace, MacroInv, MacroTypeOK, OneMeaning
  <1>4. SnapshotsSound' /\ macro_stack_bytes' <= MaxSourceBytes
    BY DEF DefineUnrecorded, stackVars, MacrosSound, SnapshotsSound
  <1> QED BY <1>2, <1>3, <1>4 DEF MacrosSound

LEMMA ResetMacrosSound == ResetMacroTable => MacrosSound'
  <1> SUFFICES ASSUME ResetMacroTable PROVE MacrosSound' OBVIOUS
  <1>1. MacroInv' BY ResetInv
  <1>2. macro_stack_bytes' <= MaxSourceBytes BY MacroAssumption DEF ResetMacroTable
  <1> QED BY <1>1, <1>2, MacrosFromInv

LEMMA ConditionMacros ==
    ASSUME MacrosSound, status # "failed", NEW p \in Pragmas \cup {None}, condition(p)
    PROVE  MacrosSound'
  <1>1. CASE p = None BY <1>1, MacrosKept DEF condition
  <1>2. CASE p # None BY <1>2, PragmaMacros DEF condition
  <1> QED BY <1>1, <1>2

\* The pragma that a source is about to flush.
LEMMA WaitingPragma ==
    ASSUME DriverSound, frames # <<>>, Top.pending # <<>>, IsPragma(Head(Top.pending))
    PROVE  Head(Top.pending).pragma \in Pragmas
  <1>1. Top.pending \in Seq(Waiting) BY TopFrame, FrameFields DEF DriverSound, Waiting
  <1>2. Head(Top.pending) \in Waiting BY <1>1, HeadTailProperties
  <1>3. Head(Top.pending).kind = "pragma" BY DEF IsPragma
  <1> QED BY <1>2, <1>3 DEF Waiting, TextTokens

LEMMA ConditionPragma ==
    ASSUME DriverSound, phase = "exec", line.kind \in {"if", "elif"}
    PROVE  line.pragma \in Pragmas \cup {None}
  <1>1. LineFields(line) BY LineFacts DEF DriverSound
  <1> QED BY <1>1 DEF LineFields

LEMMA StepMacros ==
    ASSUME DriverSound, Step
    PROVE  MacrosSound'
  <1>1. MacrosSound /\ ControlSound /\ StackSound BY DEF DriverSound
  <1>2. CASE Fail BY <1>1, <1>2, MacrosKept DEF Fail, Unwind
  <1>3. CASE NextInput \/ Finish \/ ReadLine \/ EndOfFile \/ FlushText \/ FlushDone
    <2>1. UNCHANGED macroVars /\ status = "running"
      BY <1>3 DEF NextInput, Finish, ReadLine, EndOfFile, FlushText, FlushDone, Reading, Flushing
    <2> QED BY <1>1, <2>1, MacrosKept
  <1>4. CASE Ifdef \/ SkippedIf \/ Else \/ Endif \/ Ignored \/ ExecInclude \/ ExecLine \/ ExecMarker
               \/ LeaveSource
    <2>1. UNCHANGED macroVars /\ status = "running"
      BY <1>4 DEF Ifdef, SkippedIf, Else, Endif, Ignored, ExecInclude, ExecLine, ExecMarker,
                  LeaveSource, Executing
    <2> QED BY <1>1, <2>1, MacrosKept
  <1>5. CASE FlushPragma
    <2>1. status = "running" /\ frames # <<>> BY <1>1, <1>5 DEF FlushPragma, Flushing, ControlSound
    <2>2. Head(Top.pending).pragma \in Pragmas BY <1>5, <2>1, WaitingPragma DEF FlushPragma
    <2> QED BY <1>1, <1>5, <2>1, <2>2, PragmaMacros DEF FlushPragma
  <1>6. CASE If \/ Elif
    <2>1. status = "running" /\ phase = "exec" /\ line.kind \in {"if", "elif"}
      BY <1>6 DEF If, Elif, Executing
    <2>2. line.pragma \in Pragmas \cup {None} BY <2>1, ConditionPragma
    <2>3. CASE condition(line.pragma) BY <1>1, <2>1, <2>2, <2>3, ConditionMacros
    <2>4. CASE UNCHANGED macroVars BY <1>1, <2>1, <2>4, MacrosKept
    <2> QED BY <1>6, <2>3, <2>4 DEF If, Elif
  <1>7. CASE ExecPragma
    <2>1. status = "running" /\ phase = "exec" /\ line.kind = "pragma"
      BY <1>7 DEF ExecPragma, Executing
    <2>2. line.pragma \in Pragmas BY <1>1, <2>1, LineFacts DEF LineFields
    <2> QED BY <1>1, <1>7, <2>1, <2>2, PragmaMacros DEF ExecPragma
  <1>8. CASE ExecDefine \/ ExecDefineUnrecorded \/ ExecUndef
    <2>1. status = "running" /\ phase = "exec" /\ line.kind \in {"define", "undef"} /\ frames # <<>>
      BY <1>1, <1>8 DEF ExecDefine, ExecDefineUnrecorded, ExecUndef, Executing, ControlSound
    <2>2. line.name \in Names /\ (line.kind = "define" => line.value \in Values)
      BY <1>1, <2>1, LineFacts DEF LineFields
    <2>3. Top.path \in Sites BY <1>1, <2>1, TopFrame, FrameFields
    <2>4. MacroInv /\ macro_stack_bytes <= MaxSourceBytes BY <1>1, <2>1, RunningMacros DEF MacrosSound
    <2>5. CASE ExecDefine
      <3>1. line.value \in Values BY <2>2, <2>5 DEF ExecDefine, Executing
      <3>2. MacroInv' BY <2>2, <2>3, <2>4, <2>5, <3>1, DefineInv DEF ExecDefine
      <3>3. macro_stack_bytes' = macro_stack_bytes BY <2>5 DEF ExecDefine, Define, stackVars
      <3> QED BY <2>4, <3>2, <3>3, MacrosFromInv
    <2>6. CASE ExecDefineUnrecorded
      <3>1. line.value \in Values BY <2>2, <2>6 DEF ExecDefineUnrecorded, Executing
      <3> QED BY <1>1, <2>1, <2>2, <2>3, <2>6, <3>1, UnrecordedMacros DEF ExecDefineUnrecorded, Unwind
    <2>7. CASE ExecUndef
      <3>1. MacroInv' BY <2>2, <2>4, <2>7, UndefInv DEF ExecUndef
      <3>2. macro_stack_bytes' = macro_stack_bytes BY <2>7 DEF ExecUndef, Undef, stackVars
      <3> QED BY <2>4, <3>1, <3>2, MacrosFromInv
    <2> QED BY <1>8, <2>5, <2>6, <2>7
  <1> QED
    BY <1>2, <1>3, <1>4, <1>5, <1>6, <1>7, <1>8
    DEF Step, NextInputError, ReadLineError, UnterminatedIf, FlushError, ConditionalError, DirectiveError

-----------------------------------------------------------------------------
(* The bookkeeping of the files read *)

LEMMA IncludesKept ==
    ASSUME IncludesSound, UNCHANGED sourceVars, Running' => Running
    PROVE  IncludesSound'
  BY DEF IncludesSound, sourceVars, Running

LEMMA PragmaIncludes ==
    ASSUME DriverSound, frames # <<>>, NEW p, pragma(p),
           UNCHANGED <<hardlinks, dependencies, reads, source_bytes>>, Running' => Running
    PROVE  IncludesSound'
  <1>1. Top.identity \in Sites BY TopFrame, FrameFields DEF DriverSound
  <1>2. once' \subseteq Sites BY <1>1 DEF pragma, DriverSound, IncludesSound
  <1> QED BY <1>2 DEF DriverSound, IncludesSound, Running

\* A source is charged before it is entered.
LEMMA EnteredIncludes ==
    ASSUME IncludesSound, NEW path \in Sites, NEW identity, NEW main, NEW system, NEW n \in Lengths,
           Job \in DOMAIN Lines, EnterSource(Frame(path, identity, main, system, n), n)
    PROVE  source_bytes' \in Nat /\ source_bytes' <= MaxSourceBytes /\ reads' \subseteq Sites
  <1>1. n \in Nat BY DriverAssumption DEF Lengths
  <1>2. Frame(path, identity, main, system, n).path = path BY DEF Frame
  <1> QED BY <1>1, <1>2 DEF EnterSource, IncludesSound

LEMMA OpenFileType ==
    ASSUME IncludesSound, NEW f \in Files, OpenFile(f)
    PROVE  hardlinks' \in [{Inode[g] : g \in Files} -> Files \cup {None}]
  BY DEF OpenFile, IncludesSound

LEMMA FileIncludes ==
    ASSUME IncludesSound, Running, NEW f \in Files, NEW system, file(f, system), Job \in DOMAIN Lines
    PROVE  IncludesSound'
  <1>1. f \in Sites BY DriverAssumption
  <1>2. CASE UNCHANGED sourceVars BY <1>2 DEF IncludesSound, sourceVars, Running
  <1>3. CASE /\ OpenFile(f)
             /\ dependencies' = IF ClangPaths THEN dependencies \cup {f} ELSE dependencies
             /\ UNCHANGED <<once, reads, source_bytes>>
    <2>1. dependencies' \subseteq Files BY <1>3 DEF IncludesSound
    <2> QED BY <1>3, <2>1, OpenFileType DEF IncludesSound, Running
  <1>4. CASE /\ OpenFile(f)
             /\ dependencies' = dependencies \cup {f}
             /\ \E n \in Lengths : EnterSource(Frame(f, Identity(f), FALSE, system, n), n)
             /\ UNCHANGED once
    <2>1. PICK n \in Lengths : EnterSource(Frame(f, Identity(f), FALSE, system, n), n) BY <1>4
    <2>2. source_bytes' \in Nat /\ source_bytes' <= MaxSourceBytes /\ reads' \subseteq Sites
      BY <1>1, <2>1, EnteredIncludes
    <2>3. dependencies' \subseteq Files BY <1>4 DEF IncludesSound
    <2> QED BY <1>4, <2>2, <2>3, OpenFileType DEF IncludesSound
  <1> QED BY <1>2, <1>3, <1>4 DEF file

LEMMA StepIncludes ==
    ASSUME DriverSound, Step
    PROVE  IncludesSound'
  <1>1. IncludesSound /\ ControlSound /\ StackSound BY SMTT(60) DEF DriverSound
  <1>2. Step => Running BY DEF Step, NextInput, NextInputError, Finish, ReadLine, ReadLineError,
          EndOfFile, UnterminatedIf, FlushText, FlushPragma, FlushDone, FlushError, If, Ifdef,
          SkippedIf, Elif, Else, Endif, ConditionalError, Ignored, ExecDefine, ExecDefineUnrecorded,
          ExecUndef, ExecPragma, ExecInclude, ExecLine, ExecMarker, DirectiveError, LeaveSource,
          Reading, Flushing, Executing, Running
  <1>3. Running BY <1>2
  <1>4. CASE UNCHANGED sourceVars BY <1>1, <1>3, <1>4, IncludesKept
  <1>5. CASE NextInput
    <2>1. Head(inputs) \in InputTypes /\ frames = <<>> BY <1>5, NextInputSound
    <2>2. /\ Head(inputs).job \in DOMAIN Lines
          /\ Head(inputs).kind \in {"forced", "str"} => Head(inputs).path \in Sites
          /\ Head(inputs).kind \in {"header", "main"} => Head(inputs).path \in Files
      BY <2>1, DriverAssumption DEF InputTypes
    <2>3. Job \in DOMAIN Lines BY <2>1, <2>2 DEF Job
    <2>4. CASE UNCHANGED sourceVars BY <1>1, <1>3, <2>4, IncludesKept
    <2>5. CASE Head(inputs).kind = "header" /\ file(Head(inputs).path, Head(inputs).path \in SystemFiles)
      BY <1>1, <1>3, <2>2, <2>3, <2>5, FileIncludes
    <2>6. ASSUME NEW identity, NEW main, NEW n \in Lengths,
                 EnterSource(Frame(Head(inputs).path, identity, main, FALSE, n), n),
                 UNCHANGED <<once, hardlinks, dependencies>>
          PROVE  IncludesSound'
      <3>1. Head(inputs).path \in Sites BY <2>1, DriverAssumption DEF InputTypes
      <3>2. source_bytes' \in Nat /\ source_bytes' <= MaxSourceBytes /\ reads' \subseteq Sites
        BY <1>1, <2>3, <2>6, <3>1, EnteredIncludes
      <3> QED BY <1>1, <2>6, <3>2 DEF IncludesSound
    <2> QED BY <1>5, <2>4, <2>5, <2>6 DEF NextInput, sourceVars
  <1>6. CASE ExecInclude
    <2>1. frames # <<>> BY <1>1, <1>6 DEF ExecInclude, Executing, ControlSound
    <2>2. Job \in DOMAIN Lines BY <2>1, ReadingFacts
    <2>3. CASE UNCHANGED sourceVars BY <1>1, <1>3, <2>3, IncludesKept
    <2>4. CASE line.target \in Files /\ file(line.target, line.target \in SystemFiles \/ Top.system)
      BY <1>1, <1>3, <2>2, <2>4, FileIncludes
    <2>5. CASE /\ line.target \in Virtual
               /\ \E n \in Lengths : EnterSource(Frame(line.target, line.target, FALSE, TRUE, n), n)
               /\ UNCHANGED <<once, hardlinks, dependencies>>
      <3>1. PICK n \in Lengths : EnterSource(Frame(line.target, line.target, FALSE, TRUE, n), n) BY <2>5
      <3>2. line.target \in Sites BY <2>5, DriverAssumption
      <3>3. source_bytes' \in Nat /\ source_bytes' <= MaxSourceBytes /\ reads' \subseteq Sites
        BY <1>1, <2>2, <3>1, <3>2, EnteredIncludes
      <3> QED BY <1>1, <2>5, <3>3 DEF IncludesSound
    <2> QED BY <1>6, <2>3, <2>4, <2>5 DEF ExecInclude
  <1>7. CASE FlushPragma
    <2>1. frames # <<>> BY <1>1, <1>7 DEF FlushPragma, Flushing, ControlSound
    <2> QED BY <1>3, <1>7, <2>1, PragmaIncludes DEF FlushPragma
  <1>8. CASE If \/ Elif
    <2>1. frames # <<>> BY <1>1, <1>8 DEF If, Elif, Executing, ControlSound
    <2>2. UNCHANGED <<hardlinks, dependencies, reads, source_bytes>> BY <1>8 DEF If, Elif
    <2>3. CASE pragma(line.pragma) BY <1>3, <2>1, <2>2, <2>3, PragmaIncludes
    <2>4. CASE UNCHANGED once BY <1>4, <2>2, <2>4 DEF sourceVars
    <2> QED BY <1>8, <2>3, <2>4 DEF If, Elif, condition
  <1>9. CASE ExecPragma
    <2>1. frames # <<>> BY <1>1, <1>9 DEF ExecPragma, Executing, ControlSound
    <2> QED BY <1>3, <1>9, <2>1, PragmaIncludes DEF ExecPragma
  <1>10. CASE ReadLine \/ Finish \/ EndOfFile \/ FlushText \/ FlushDone
    BY <1>4, <1>10 DEF ReadLine, Finish, EndOfFile, FlushText, FlushDone
  <1>11. CASE Ifdef \/ SkippedIf \/ Else \/ Endif \/ Ignored \/ ExecDefine \/ ExecDefineUnrecorded
                \/ ExecUndef \/ ExecLine \/ ExecMarker \/ LeaveSource
    BY <1>4, <1>11 DEF Ifdef, SkippedIf, Else, Endif, Ignored, ExecDefine, ExecDefineUnrecorded,
                       ExecUndef, ExecLine, ExecMarker, LeaveSource
  <1>12. CASE Fail BY <1>4, <1>12 DEF Fail
  <1> QED
    BY <1>5, <1>6, <1>7, <1>8, <1>9, <1>10, <1>11, <1>12
    DEF Step, NextInputError, ReadLineError, UnterminatedIf, FlushError, ConditionalError, DirectiveError

-----------------------------------------------------------------------------
(* The driver as a whole *)

\* The initial state.
LEMMA InitDriver == Init => DriverSound
  <1> SUFFICES ASSUME Init PROVE DriverSound OBVIOUS
  <1>1. /\ <<>> \in Seq(SoundFrames) /\ Len(<<>>) = 0 /\ <<>> \in Seq(InputTypes) BY EmptySeq
  <1>2. StackSound BY <1>1, DeepestIsNat DEF Init, StackSound
  <1>3. ControlSound
    <2>1. documentation_system \in BOOLEAN BY DEF Init
    <2>2. tokens \in 0 .. MaxTokens BY DriverAssumption DEF Init
    <2> QED BY <1>1, <2>1, <2>2 DEF Init, ControlSound
  <1>4. MacrosSound
    <2>1. MacroTypeOK BY EmptyStacks, MacroAssumption DEF Init, MacroTypeOK
    <2>2. OneMeaning /\ OriginMatchesDefinition BY DEF Init, OneMeaning, OriginMatchesDefinition, OriginOf
    <2>3. SnapshotsSound BY EmptyStacks DEF Init, SnapshotsSound
    <2>4. macro_stack_bytes <= MaxSourceBytes BY MacroAssumption DEF Init
    <2> QED BY <2>1, <2>2, <2>3, <2>4 DEF MacrosSound
  <1>5. NoLinks \in [{Inode[f] : f \in Files} -> Files \cup {None}] BY DEF NoLinks
  <1>6. IncludesSound BY <1>5, MacroAssumption DEF Init, IncludesSound, Running
  <1> QED BY <1>2, <1>3, <1>4, <1>6 DEF DriverSound

\* The stack and the control under every step that leaves no text waiting.
Directive ==
    \/ If \/ Ifdef \/ SkippedIf \/ Elif \/ Else \/ Endif
    \/ Ignored \/ ExecDefine \/ ExecUndef \/ ExecPragma \/ ExecInclude
    \/ ExecLine \/ ExecMarker \/ LeaveSource

Failure == Unwind /\ UNCHANGED <<sourceVars, outputVars>>

Shown == ReadLine \/ EndOfFile \/ FlushText \/ FlushPragma \/ FlushDone

LEMMA StepKinds == Step => NextInput \/ Finish \/ Shown \/ Directive \/ Failure
  BY DEF Step, Shown, Directive, Failure, NextInputError, ReadLineError, UnterminatedIf, FlushError,
         ConditionalError, DirectiveError, ExecDefineUnrecorded, Fail

LEMMA DirectiveSettled ==
    ASSUME DriverSound, Directive
    PROVE  Settled
  BY IfSound, ElifSound, EndifSound, PlainSound, IncludeSound, MarkerSound, LeaveSound DEF Directive

LEMMA StepControl ==
    ASSUME DriverSound, Step
    PROVE  (StackSound /\ ControlSound)' /\ (~Shown => Settled)
  <1>1. CASE Shown
    BY <1>1, ReadLineSound, EndOfFileSound, FlushTextSound, FlushPragmaSound, FlushDoneSound DEF Shown
  <1>2. CASE NextInput \/ Finish \/ Directive \/ Failure
    <2>1. Settled
      BY <1>2, NextInputSound, FinishSound, DirectiveSettled, UnwindSettled DEF Failure
    <2> QED BY <2>1 DEF Settled
  <1> QED BY <1>1, <1>2, StepKinds

LEMMA EntryDriver ==
    ASSUME DriverSound, NEW job \in Jobs, Preprocess(job) \/ PreprocessError(job)
    PROVE  DriverSound'
  <1>1. (StackSound /\ ControlSound)' BY EntrySound DEF Settled
  <1>2. MacrosSound' BY ResetMacrosSound DEF Preprocess, PreprocessError, ResetRun
  <1>3. IncludesSound'
    <2>1. Cardinality(DOMAIN Defines) \in Nat BY FS_CardinalityType, DriverAssumption
    <2>2. once' = {} /\ reads' = {} /\ source_bytes' = Cardinality(DOMAIN Defines)
      BY DEF Preprocess, PreprocessError, ResetRun
    <2>3. Running' => source_bytes' <= MaxSourceBytes
      BY <2>2 DEF Preprocess, PreprocessError, DefinesFit, Running
    <2>4. NoLinks \in [{Inode[f] : f \in Files} -> Files \cup {None}] BY DEF NoLinks
    <2>5. job.kind = "main" => job.main \in Files BY InputAssumption DEF JobFields
    <2>6. dependencies' \subseteq Files BY <2>5 DEF Preprocess, PreprocessError
    <2>7. hardlinks' \in [{Inode[f] : f \in Files} -> Files \cup {None}]
      BY <2>4, <2>5 DEF Preprocess, PreprocessError
    <2> QED BY <2>1, <2>2, <2>3, <2>6, <2>7 DEF IncludesSound
  <1> QED BY <1>1, <1>2, <1>3 DEF DriverSound

LEMMA NextDriver == DriverSound /\ [Next]_vars => DriverSound'
  <1> SUFFICES ASSUME DriverSound, [Next]_vars PROVE DriverSound' OBVIOUS
  <1>1. CASE Step BY <1>1, StepControl, StepMacros, StepIncludes DEF DriverSound
  <1>2. CASE Entry BY <1>2, EntryDriver DEF Entry
  <1>3. CASE InputError
    <2>1. (StackSound /\ ControlSound)' BY <1>3, UnwindSound DEF InputError, Fail
    <2>2. MacrosSound' BY <1>3, MacrosKept DEF DriverSound, InputError, Fail, Unwind
    <2>3. IncludesSound' BY <1>3, IncludesKept DEF DriverSound, InputError, Fail, Running
    <2> QED BY <2>1, <2>2, <2>3 DEF DriverSound
  <1>4. CASE UNCHANGED vars
    <2>1. UNCHANGED <<macroVars, sourceVars, outputVars, controlVars, documentation_system>>
      BY <1>4 DEF vars
    <2>2. StackSound' BY <2>1, KeepsSound DEF DriverSound, Keeps, controlVars
    <2>3. ControlSound' BY <2>1 DEF DriverSound, ControlSound, controlVars, Top
    <2>4. MacrosSound' BY <2>1, MacrosKept DEF DriverSound, controlVars
    <2>5. IncludesSound' BY <2>1, IncludesKept DEF DriverSound, controlVars, Running
    <2> QED BY <2>2, <2>3, <2>4, <2>5 DEF DriverSound
  <1> QED BY <1>1, <1>2, <1>3, <1>4 DEF Next

-----------------------------------------------------------------------------
(* Waiting text *)

\* PendingCurrent, of any text.
CurrentText(p) ==
    \A i \in DOMAIN p :
        p[i].kind = "name" /\ p[i].seen # None =>
            /\ p[i].seen = Meaning(p[i].name)
            /\ \A j \in 1 .. (i - 1) : ~IsPragma(p[j])

LEMMA PendingCurrentIs == PendingCurrent <=> (frames # <<>> => CurrentText(Top.pending))
  BY DEF PendingCurrent, CurrentText

LEMMA PendingCurrentNext ==
    ASSUME NEW p, CurrentText(p), frames' # <<>>, Top'.pending = p, UNCHANGED macroVars
    PROVE  PendingCurrent'
  <1>1. UNCHANGED <<macros, macro_origins, active_queries, ms_pragma_active>>
    BY DEF macroVars, envVars
  <1>2. \A n : Meaning(n)' = Meaning(n) BY <1>1 DEF Meaning, MeaningOf
  <1> QED BY <1>2 DEF PendingCurrent, CurrentText

\* What no longer waits is current.
LEMMA SettledCurrent == Settled => PendingCurrent'
  <1> SUFFICES ASSUME Settled, frames' # <<>> PROVE DOMAIN Top'.pending = {}
    BY DEF PendingCurrent
  <1> QED BY DEF Settled

\* Reading text: names take the meaning of this moment, before any pragma.
LEMMA ReadCurrent ==
    ASSUME MacroInv, NEW p \in Seq(Waiting), NEW toks \in Seq(TextTokens({None})), CurrentText(p)
    PROVE  CurrentText(ExtendPending(p, toks))
  <1> DEFINE e == ExtendPending(p, toks)
  <1>1. /\ e \in Seq(Waiting) /\ Len(e) = Len(p) + Len(toks)
        /\ \A i \in 1 .. Len(p) : e[i] = p[i]
        /\ \A i \in 1 .. Len(toks) : e[Len(p) + i] = Noted(toks[i], p \o SubSeq(toks, 1, i - 1))
    BY TextRead
  <1>2. /\ Len(p) \in Nat /\ Len(toks) \in Nat
        /\ DOMAIN p = 1 .. Len(p) /\ DOMAIN e = 1 .. Len(e)
    BY <1>1, LenProperties
  <1>3. ASSUME NEW i \in 1 .. Len(toks), NEW before PROVE Noted(toks[i], before).kind = toks[i].kind
    <2>1. toks[i] \in TextTokens({None}) BY ElementOfSeq
    <2> QED BY <2>1 DEF Noted, TextTokens
  <1> HIDE DEF e
  <1>4. ASSUME NEW i \in 1 .. Len(e), e[i].kind = "name", e[i].seen # None
        PROVE  e[i].seen = Meaning(e[i].name) /\ \A j \in 1 .. (i - 1) : ~IsPragma(e[j])
    <2>1. CASE i <= Len(p)
      <3>1. i \in 1 .. Len(p) /\ \A j \in 1 .. (i - 1) : j \in 1 .. Len(p) BY <1>2, <2>1
      <3> QED BY <1>1, <1>2, <1>4, <3>1 DEF CurrentText
    <2>2. CASE ~(i <= Len(p))
      <3>1. PICK k \in 1 .. Len(toks) : i = Len(p) + k
        <4>1. i - Len(p) \in 1 .. Len(toks) /\ i = Len(p) + (i - Len(p)) BY <1>1, <1>2, <2>2
        <4> QED BY <4>1
      <3> DEFINE before == p \o SubSeq(toks, 1, k - 1)
      <3>2. e[i] = Noted(toks[k], before) BY <1>1, <3>1
      <3>3. toks[k].kind = "name" BY <1>3, <1>4, <3>2
      <3>4. toks[k] \in [kind : {"name"}, name : Names, seen : {None}]
        <4>1. toks[k] \in TextTokens({None}) BY ElementOfSeq
        <4> QED BY <3>3, <4>1 DEF TextTokens
      <3>5. e[i].name = toks[k].name /\ e[i].seen = SeenMeaning(toks[k], before)
        BY <3>2, <3>3, <3>4 DEF Noted
      <3>6. \A x \in DOMAIN before : before[x].kind # "pragma"
        BY <1>4, <3>5 DEF SeenMeaning
      <3>7. e[i].seen = Meaning(e[i].name) BY <1>4, <3>5 DEF SeenMeaning
      <3>8. /\ SubSeq(toks, 1, k - 1) \in Seq(TextTokens({None}))
            /\ Len(SubSeq(toks, 1, k - 1)) = k - 1
            /\ \A x \in 1 .. (k - 1) : SubSeq(toks, 1, k - 1)[x] = toks[x]
        <4>1. k - 1 \in Int /\ 1 \in Int /\ \A x \in 1 .. (k - 1) : x \in 1 .. Len(toks)
          BY <1>2
        <4>2. \A x \in 1 .. (k - 1) : toks[x] \in TextTokens({None}) BY <4>1, ElementOfSeq
        <4>3. /\ SubSeq(toks, 1, k - 1) \in Seq(TextTokens({None}))
              /\ Len(SubSeq(toks, 1, k - 1)) = IF 1 <= k - 1 THEN (k - 1) - 1 + 1 ELSE 0
              /\ \A x \in 1 .. ((k - 1) - 1 + 1) : SubSeq(toks, 1, k - 1)[x] = toks[1 + x - 1]
          BY <4>1, <4>2, SubSeqProperties
        <4>4. Len(SubSeq(toks, 1, k - 1)) = k - 1 BY <1>2, <4>3
        <4>5. \A x \in 1 .. (k - 1) : SubSeq(toks, 1, k - 1)[x] = toks[x] BY <1>2, <4>3
        <4> QED BY <4>3, <4>4, <4>5
      <3>9. /\ DOMAIN before = 1 .. (Len(p) + (k - 1))
            /\ \A x \in 1 .. Len(p) : before[x] = p[x]
            /\ \A x \in 1 .. (k - 1) : before[Len(p) + x] = toks[x]
        <4> DEFINE w == SubSeq(toks, 1, k - 1)
        <4>1. PICK T : T = Waiting \cup TextTokens({None}) OBVIOUS
        <4>2. p \in Seq(T) /\ w \in Seq(T)
          <5>1. \A x \in 1 .. Len(p) : p[x] \in T BY <4>1, ElementOfSeq
          <5>2. \A x \in 1 .. Len(w) : w[x] \in T BY <3>8, <4>1, ElementOfSeq
          <5> QED BY <3>8, <5>1, <5>2
        <4> HIDE DEF w
        <4>3. /\ p \o w \in Seq(T) /\ Len(p \o w) = Len(p) + Len(w)
              /\ \A x \in 1 .. Len(p) + Len(w) :
                    (p \o w)[x] = IF x <= Len(p) THEN p[x] ELSE w[x - Len(p)]
          BY <4>2, ConcatProperties
        <4>4. DOMAIN (p \o w) = 1 .. Len(p \o w) BY <4>3, LenProperties
        <4>5. Len(w) = k - 1 /\ \A x \in 1 .. (k - 1) : w[x] = toks[x] BY <3>8 DEF w
        <4>6. \A x \in 1 .. Len(p) : (p \o w)[x] = p[x] BY <1>2, <4>3, <4>5
        <4>7. ASSUME NEW x \in 1 .. (k - 1) PROVE (p \o w)[Len(p) + x] = toks[x]
          <5>1. /\ Len(p) + x \in 1 .. Len(p) + Len(w) /\ ~(Len(p) + x <= Len(p))
                /\ (Len(p) + x) - Len(p) = x
            BY <1>2, <4>5
          <5> QED BY <4>3, <4>5, <5>1
        <4> QED BY <4>3, <4>4, <4>5, <4>6, <4>7 DEF w
      <3> HIDE DEF before
      <3>10. ASSUME NEW j \in 1 .. (i - 1) PROVE ~IsPragma(e[j])
        <4>1. CASE j <= Len(p)
          <5>1. j \in 1 .. Len(p) /\ j \in 1 .. (Len(p) + (k - 1)) BY <1>2, <3>1, <4>1
          <5> QED BY <1>1, <3>6, <3>9, <5>1 DEF IsPragma
        <4>2. CASE ~(j <= Len(p))
          <5>1. PICK x \in 1 .. (k - 1) : j = Len(p) + x
            <6>1. j - Len(p) \in 1 .. (k - 1) /\ j = Len(p) + (j - Len(p)) BY <1>2, <3>1, <4>2
            <6> QED BY <6>1
          <5>2. x \in 1 .. Len(toks) /\ Len(p) + x \in 1 .. (Len(p) + (k - 1)) BY <1>2, <5>1
          <5>3. toks[x].kind # "pragma" BY <3>6, <3>9, <5>1, <5>2
          <5> QED BY <1>1, <1>3, <5>1, <5>2, <5>3 DEF IsPragma
        <4> QED BY <4>1, <4>2
      <3> QED BY <3>7, <3>10
    <2> QED BY <2>1, <2>2
  <1>5. CurrentText(e) BY <1>2, <1>4 DEF CurrentText
  <1> QED BY <1>5 DEF e

LEMMA FlushTextCurrent ==
    ASSUME DriverSound, PendingCurrent, FlushText
    PROVE  PendingCurrent' /\ TextSeesItsLine'
  <1> DEFINE p == Top.pending
             end == StretchEnd(p)
             stretch == SubSeq(p, 1, end)
             rest == SubSeq(p, end + 1, Len(p))
  <1>1. frames # <<>> /\ frames' # <<>> /\ Top'.pending = rest BY FlushTextSound
  <1>2. p \in Seq(Waiting) BY <1>1, TopFrame, FrameFields DEF DriverSound, Waiting
  <1>3. CurrentText(p) BY <1>1, PendingCurrentIs
  <1>4. end \in 0 .. Len(p) /\ Len(p) \in Nat /\ DOMAIN p = 1 .. Len(p)
    BY <1>2, StretchPlace, LenProperties
  <1>5. \A i \in 1 .. end : i \in DOMAIN p /\ stretch[i] = p[i]
    <2>1. \A i \in 1 .. end : i \in DOMAIN p /\ p[i] \in Waiting BY <1>2, <1>4, ElementOfSeq
    <2>2. \A i \in 1 .. end - 1 + 1 : stretch[i] = p[1 + i - 1] BY <1>4, <2>1, SubSeqProperties
    <2>3. \A i \in 1 .. end : i \in 1 .. end - 1 + 1 /\ 1 + i - 1 = i BY <1>4
    <2> QED BY <2>1, <2>2, <2>3
  <1>6. /\ rest \in Seq(Waiting) /\ Len(rest) = Len(p) - end
        /\ \A i \in 1 .. (Len(p) - end) : rest[i] = p[end + i]
    BY <1>2, <1>4, TextRest
  <1>7. emitted' = {[seen |-> stretch[i].seen, found |-> Meaning(stretch[i].name)] :
                       i \in {j \in 1 .. end : stretch[j].kind = "name"}}
    BY DEF FlushText
  <1>8. UNCHANGED macroVars BY DEF FlushText
  <1>9. DOMAIN rest = 1 .. Len(rest) BY <1>6, LenProperties
  <1> HIDE DEF p, end, stretch, rest
  <1>10. TextSeesItsLine' BY <1>3, <1>5, <1>7 DEF TextSeesItsLine, CurrentText
  <1>11. ASSUME NEW i \in DOMAIN rest, rest[i].kind = "name", rest[i].seen # None
         PROVE  rest[i].seen = Meaning(rest[i].name) /\ \A j \in 1 .. (i - 1) : ~IsPragma(rest[j])
    <2>1. i \in 1 .. (Len(p) - end) /\ end + i \in DOMAIN p /\ rest[i] = p[end + i]
      BY <1>4, <1>6, <1>9
    <2>2. p[end + i].seen = Meaning(p[end + i].name) /\ \A j \in 1 .. ((end + i) - 1) : ~IsPragma(p[j])
      BY <1>3, <1>11, <2>1 DEF CurrentText
    <2>3. ASSUME NEW j \in 1 .. (i - 1) PROVE ~IsPragma(rest[j])
      <3>1. end + j \in 1 .. ((end + i) - 1) /\ j \in 1 .. (Len(p) - end) BY <1>4, <2>1
      <3> QED BY <1>6, <2>2, <3>1
    <2> QED BY <2>1, <2>2, <2>3
  <1>12. CurrentText(rest) BY <1>11 DEF CurrentText
  <1>13. PendingCurrent' BY <1>1, <1>8, <1>12, PendingCurrentNext
  <1> QED BY <1>10, <1>13

\* A pragma in the text may change any meaning; no name after it has taken one.
LEMMA FlushPragmaCurrent ==
    ASSUME DriverSound, PendingCurrent, TextSeesItsLine, FlushPragma
    PROVE  PendingCurrent' /\ TextSeesItsLine'
  <1> DEFINE p == Top.pending
  <1>1. frames # <<>> /\ frames' # <<>> /\ Top'.pending = Tail(p) BY FlushPragmaSound
  <1>2. p \in Seq(Waiting) /\ p # <<>> /\ IsPragma(Head(p))
    BY <1>1, TopFrame, FrameFields DEF DriverSound, Waiting, FlushPragma
  <1>3. CurrentText(p) BY <1>1, PendingCurrentIs
  <1>4. /\ Tail(p) \in Seq(Waiting) /\ Len(Tail(p)) = Len(p) - 1 /\ Len(p) \in Nat \ {0}
        /\ \A i \in 1 .. Len(Tail(p)) : Tail(p)[i] = p[i + 1]
        /\ DOMAIN p = 1 .. Len(p) /\ DOMAIN Tail(p) = 1 .. Len(Tail(p))
        /\ Head(p) = p[1]
    BY <1>2, HeadTailProperties, LenProperties, EmptySeq
  <1> HIDE DEF p
  <1>5. \A i \in DOMAIN Tail(p) : ~(Tail(p)[i].kind = "name" /\ Tail(p)[i].seen # None)
    <2> SUFFICES ASSUME NEW i \in DOMAIN Tail(p), Tail(p)[i].kind = "name", Tail(p)[i].seen # None
                 PROVE  FALSE
      OBVIOUS
    <2>1. i + 1 \in DOMAIN p /\ Tail(p)[i] = p[i + 1] /\ 1 \in 1 .. ((i + 1) - 1) BY <1>4
    <2>2. ~IsPragma(p[1]) BY <1>3, <2>1 DEF CurrentText
    <2> QED BY <1>2, <1>4, <2>2
  <1>6. PendingCurrent' BY <1>1, <1>5 DEF PendingCurrent
  <1>7. TextSeesItsLine' BY DEF FlushPragma, TextSeesItsLine
  <1> QED BY <1>6, <1>7

LEMMA StepCurrent ==
    ASSUME DriverSound, PendingCurrent, TextSeesItsLine, Step
    PROVE  PendingCurrent' /\ TextSeesItsLine'
  <1>1. CASE NextInput \/ Finish \/ Directive \/ Failure
    <2>1. UNCHANGED emitted
      <3>1. CASE NextInput \/ Finish \/ Failure
        BY <3>1 DEF NextInput, Finish, Failure, outputVars
      <3>2. CASE If \/ Ifdef \/ SkippedIf \/ Elif \/ Else \/ Endif
        BY <3>2 DEF If, Ifdef, SkippedIf, Elif, Else, Endif, condition, outputVars
      <3>3. CASE Ignored \/ ExecDefine \/ ExecUndef \/ ExecPragma \/ ExecInclude
        BY <3>3 DEF Ignored, ExecDefine, ExecUndef, ExecPragma, ExecInclude, outputVars
      <3>4. CASE ExecLine \/ ExecMarker \/ LeaveSource
        BY <3>4 DEF ExecLine, ExecMarker, LeaveSource, outputVars
      <3> QED BY <1>1, <3>1, <3>2, <3>3, <3>4 DEF Directive
    <2>2. TextSeesItsLine' BY <2>1 DEF TextSeesItsLine
    <2>3. Settled BY <1>1, NextInputSound, FinishSound, DirectiveSettled, UnwindSettled DEF Failure
    <2> QED BY <2>2, <2>3, SettledCurrent
  <1>2. CASE ReadLine
    <2>1. /\ frames # <<>> /\ frames' # <<>>
          /\ \/ Top'.pending = Top.pending
             \/ \E toks \in Seq(TextTokens({None})) : Top'.pending = ExtendPending(Top.pending, toks)
      BY <1>2, ReadLineSound
    <2>2. UNCHANGED macroVars /\ UNCHANGED emitted /\ status = "running"
      BY <1>2 DEF ReadLine, Reading, outputVars
    <2>3. Top.pending \in Seq(Waiting) /\ CurrentText(Top.pending) /\ MacroInv
      BY <2>1, <2>2, TopFrame, FrameFields, PendingCurrentIs, RunningMacros DEF DriverSound, Waiting
    <2>4. CurrentText(Top'.pending)
      <3>1. ASSUME NEW toks \in Seq(TextTokens({None})), Top'.pending = ExtendPending(Top.pending, toks)
            PROVE  CurrentText(Top'.pending)
        BY <2>3, <3>1, ReadCurrent
      <3> QED BY <2>1, <2>3, <3>1
    <2>5. PendingCurrent' BY <2>1, <2>2, <2>4, PendingCurrentNext
    <2> QED BY <2>2, <2>5 DEF TextSeesItsLine
  <1>3. CASE EndOfFile \/ FlushDone
    <2>1. frames' = frames /\ frames # <<>> BY <1>3, EndOfFileSound, FlushDoneSound DEF Keeps
    <2>2. UNCHANGED macroVars /\ UNCHANGED emitted BY <1>3 DEF EndOfFile, FlushDone, outputVars
    <2>3. CurrentText(Top.pending) /\ Top'.pending = Top.pending BY <2>1, PendingCurrentIs DEF Top
    <2>4. PendingCurrent' BY <2>1, <2>2, <2>3, PendingCurrentNext
    <2> QED BY <2>2, <2>4 DEF TextSeesItsLine
  <1>4. CASE FlushText BY <1>4, FlushTextCurrent
  <1>5. CASE FlushPragma BY <1>5, FlushPragmaCurrent
  <1> QED BY <1>1, <1>2, <1>3, <1>4, <1>5, StepKinds DEF Shown

-----------------------------------------------------------------------------
(* The maps of the output *)

Mapped == [start : Nat, end : Nat, path : Presumed, file : Sites]
Origins == [start : Nat, end : Nat, path : Sites, system : BOOLEAN]

\* One more range, and several, in order.
LEMMA TilesAppend ==
    ASSUME NEW S, NEW m \in Seq(S), NEW r \in S, NEW a, Tiles(m, a), r.start = a, r.start < r.end
    PROVE  Tiles(Append(m, r), r.end)
  <1> DEFINE d == Append(m, r)
  <1>1. Len(m) \in Nat /\ DOMAIN m = 1 .. Len(m) BY LenProperties
  <1>2. /\ d \in Seq(S) /\ Len(d) = Len(m) + 1 /\ d[Len(m) + 1] = r
        /\ \A i \in 1 .. Len(m) : d[i] = m[i]
    BY AppendProperties
  <1>3. DOMAIN d = 1 .. (Len(m) + 1) /\ d # <<>> BY <1>1, <1>2, LenProperties, EmptySeq
  <1> HIDE DEF d
  <1>4. ASSUME NEW i \in 1 .. (Len(m) + 1)
        PROVE  d[i].start < d[i].end /\ d[i].start = IF i = 1 THEN 0 ELSE d[i - 1].end
    <2>1. CASE i = Len(m) + 1
      <3>1. CASE m = <<>>
        <4>1. i = 1 BY <1>1, <2>1, <3>1, EmptySeq
        <4> QED BY <1>2, <2>1, <3>1, <4>1 DEF Tiles
      <3>2. CASE m # <<>>
        <4>1. i # 1 /\ i - 1 = Len(m) /\ Len(m) \in 1 .. Len(m) BY <1>1, <2>1, <3>2, EmptySeq
        <4> QED BY <1>2, <2>1, <3>2, <4>1 DEF Tiles
      <3> QED BY <3>1, <3>2
    <2>2. CASE i # Len(m) + 1
      <3>1. i \in 1 .. Len(m) /\ (i # 1 => i - 1 \in 1 .. Len(m)) BY <1>1, <2>2
      <3> QED BY <1>1, <1>2, <3>1 DEF Tiles
    <2> QED BY <2>1, <2>2
  <1>5. Tiles(d, r.end) BY <1>2, <1>3, <1>4 DEF Tiles
  <1> QED BY <1>5 DEF d

LEMMA TilesConcat ==
    ASSUME NEW S, NEW m \in Seq(S), NEW q \in Seq(S), q # <<>>, NEW a, Tiles(m, a),
           \A i \in 1 .. Len(q) :
              /\ q[i].start < q[i].end
              /\ q[i].start = IF i = 1 THEN a ELSE q[i - 1].end
    PROVE  Tiles(m \o q, q[Len(q)].end)
  <1> DEFINE d == m \o q
  <1>1. Len(m) \in Nat /\ Len(q) \in Nat \ {0} /\ DOMAIN m = 1 .. Len(m) BY LenProperties, EmptySeq
  <1>2. /\ d \in Seq(S) /\ Len(d) = Len(m) + Len(q)
        /\ \A i \in 1 .. Len(m) + Len(q) : d[i] = IF i <= Len(m) THEN m[i] ELSE q[i - Len(m)]
    BY ConcatProperties
  <1>3. DOMAIN d = 1 .. (Len(m) + Len(q)) /\ d # <<>> BY <1>1, <1>2, LenProperties, EmptySeq
  <1> HIDE DEF d
  <1>4. \A i \in 1 .. Len(m) : d[i] = m[i] BY <1>1, <1>2
  <1>5. ASSUME NEW i \in 1 .. Len(q) PROVE d[Len(m) + i] = q[i]
    <2>1. /\ Len(m) + i \in 1 .. Len(m) + Len(q) /\ ~(Len(m) + i <= Len(m))
          /\ (Len(m) + i) - Len(m) = i
      BY <1>1
    <2> QED BY <1>2, <2>1
  <1>6. ASSUME NEW i \in 1 .. (Len(m) + Len(q))
        PROVE  d[i].start < d[i].end /\ d[i].start = IF i = 1 THEN 0 ELSE d[i - 1].end
    <2>1. CASE i <= Len(m)
      <3>1. i \in 1 .. Len(m) /\ (i # 1 => i - 1 \in 1 .. Len(m)) BY <1>1, <2>1
      <3> QED BY <1>1, <1>4, <3>1 DEF Tiles
    <2>2. CASE i = Len(m) + 1
      <3>1. 1 \in 1 .. Len(q) /\ d[i] = q[1] BY <1>1, <1>5, <2>2
      <3>2. q[1].start < q[1].end /\ q[1].start = a BY <3>1
      <3>3. CASE m = <<>>
        <4>1. i = 1 BY <1>1, <2>2, <3>3, EmptySeq
        <4> QED BY <3>1, <3>2, <3>3, <4>1 DEF Tiles
      <3>4. CASE m # <<>>
        <4>1. i # 1 /\ i - 1 = Len(m) /\ Len(m) \in 1 .. Len(m) BY <1>1, <2>2, <3>4, EmptySeq
        <4> QED BY <1>4, <3>1, <3>2, <3>4, <4>1, ZenonT(60) DEF Tiles
      <3> QED BY <3>3, <3>4
    <2>3. CASE i > Len(m) + 1
      <3>1. PICK k \in 2 .. Len(q) : i = Len(m) + k
        <4>1. i - Len(m) \in 2 .. Len(q) /\ i = Len(m) + (i - Len(m)) BY <1>1, <2>3
        <4> QED BY <4>1
      <3>2. k \in 1 .. Len(q) /\ k - 1 \in 1 .. Len(q) /\ i - 1 = Len(m) + (k - 1) /\ k # 1 /\ i # 1
        BY <1>1, <3>1
      <3>3. d[i] = q[k] /\ d[i - 1] = q[k - 1] BY <1>5, <3>1, <3>2
      <3> QED BY <3>2, <3>3
    <2> QED BY <1>1, <2>1, <2>2, <2>3
  <1>7. Len(q) \in 1 .. Len(q) BY <1>1
  <1>8. d[Len(d)].end = q[Len(q)].end BY <1>2, <1>5, <1>7
  <1>9. Tiles(d, q[Len(q)].end) BY <1>3, <1>6, <1>8 DEF Tiles
  <1> QED BY <1>9 DEF d

\* Covered, in any map of origins.
CoveredBy(maps, s, e, path) ==
    \E j \in DOMAIN maps : maps[j].start <= s /\ e <= maps[j].end /\ maps[j].path = path

\* A range of one source is appended: it is covered, and so is what was.
LEMMA OriginAppended ==
    ASSUME NEW maps \in Seq(Origins), NEW a \in Nat, NEW b \in Nat, a <= b, Tiles(maps, a),
           NEW path \in Sites, NEW system \in BOOLEAN
    PROVE  LET d == AppendOrigin(maps, a, b, path, system)
           IN  /\ d \in Seq(Origins) /\ Tiles(d, b)
               /\ \A p : \A s \in Nat, e \in Nat : CoveredBy(maps, s, e, p) => CoveredBy(d, s, e, p)
               /\ \A s \in Nat, e \in Nat :
                    a <= s /\ s < e /\ e <= b => CoveredBy(d, s, e, path)
  <1> DEFINE d == AppendOrigin(maps, a, b, path, system)
             last == maps[Len(maps)]
  <1>1. Len(maps) \in Nat /\ DOMAIN maps = 1 .. Len(maps) BY LenProperties
  <1>2. CASE a = b
    <2>1. d = maps BY <1>2 DEF AppendOrigin
    <2>2. \A s \in Nat, e \in Nat : ~(a <= s /\ s < e /\ e <= b) BY <1>2
    <2> QED BY <1>2, <2>1, <2>2
  <1>3. CASE a # b /\ maps # <<>> /\ last.path = path /\ last.system = system /\ last.end = a
    <2>1. Len(maps) \in 1 .. Len(maps) BY <1>1, <1>3, EmptySeq
    <2>2. last \in Origins BY <2>1, ElementOfSeq
    <2> DEFINE r == [last EXCEPT !.end = b]
    <2>3. r \in Origins /\ r.start = last.start /\ r.end = b /\ r.path = path BY <1>3, <2>2, SMTT(60) DEF Origins
    <2>4. d = [maps EXCEPT ![Len(maps)] = r] BY <1>3 DEF AppendOrigin
    <2> HIDE DEF r
    <2>5. /\ d \in Seq(Origins) /\ Len(d) = Len(maps)
          /\ \A i \in 1 .. Len(maps) : d[i] = IF i = Len(maps) THEN r ELSE maps[i]
      BY <2>1, <2>3, <2>4, ExceptSeq
    <2>6. DOMAIN d = 1 .. Len(maps) /\ d # <<>> BY <1>1, <1>3, <2>5, LenProperties, EmptySeq
    <2>7. last.start < last.end /\ last.start \in Nat BY <1>1, <2>1, <2>2 DEF Tiles, Origins
    <2>8. a < b /\ last.start < b /\ last.end < b BY <1>3, <2>7
    <2> HIDE DEF d
    <2>9. ASSUME NEW i \in 1 .. Len(maps)
          PROVE  d[i].start < d[i].end /\ d[i].start = IF i = 1 THEN 0 ELSE d[i - 1].end
      <3>1. i # 1 => i - 1 \in 1 .. Len(maps) /\ i - 1 # Len(maps) BY <1>1
      <3>2. CASE i = Len(maps) BY <1>1, <2>1, <2>3, <2>5, <2>8, <3>1, <3>2, ZenonT(60) DEF Tiles
      <3>3. CASE i # Len(maps) BY <1>1, <2>5, <3>1, <3>3, ZenonT(60) DEF Tiles
      <3> QED BY <3>2, <3>3
    <2>10. Tiles(d, b) BY <2>1, <2>3, <2>5, <2>6, <2>9 DEF Tiles
    <2>11. ASSUME NEW s \in Nat, NEW e \in Nat, NEW p, CoveredBy(maps, s, e, p) PROVE CoveredBy(d, s, e, p)
      <3>1. PICK j \in 1 .. Len(maps) : maps[j].start <= s /\ e <= maps[j].end /\ maps[j].path = p
        BY <1>1, <2>11, SMTT(60) DEF CoveredBy
      <3>2. CASE j = Len(maps)
        <4>1. e <= b BY <1>3, <2>8, <3>1, <3>2, SMTT(60)
        <4> QED BY <1>3, <2>3, <2>5, <2>6, <3>1, <3>2, <4>1 DEF CoveredBy
      <3>3. CASE j # Len(maps) BY <2>5, <2>6, <3>1, <3>3, ZenonT(60) DEF CoveredBy
      <3> QED BY <3>2, <3>3
    <2>12. ASSUME NEW s \in Nat, NEW e \in Nat, a <= s, e <= b PROVE CoveredBy(d, s, e, path)
      <3>1. r.start <= s BY <1>3, <2>3, <2>7, <2>12
      <3> QED BY <2>1, <2>3, <2>5, <2>6, <2>12, <3>1 DEF CoveredBy
    <2> QED BY <2>5, <2>10, <2>11, <2>12 DEF d
  <1>4. CASE a # b /\ ~(maps # <<>> /\ last.path = path /\ last.system = system /\ last.end = a)
    <2> DEFINE r == [start |-> a, end |-> b, path |-> path, system |-> system]
    <2>1. d = Append(maps, r) BY <1>4 DEF AppendOrigin
    <2>2. r \in Origins /\ r.start = a /\ r.end = b /\ r.path = path BY DEF Origins
    <2> HIDE DEF d, r
    <2>3. a < b BY <1>4
    <2>4. Tiles(d, b) BY <2>1, <2>2, <2>3, TilesAppend
    <2>5. /\ d \in Seq(Origins) /\ Len(d) = Len(maps) + 1 /\ d[Len(maps) + 1] = r
          /\ \A i \in 1 .. Len(maps) : d[i] = maps[i]
      BY <2>1, <2>2, AppendProperties
    <2>6. DOMAIN d = 1 .. (Len(maps) + 1) BY <2>5, LenProperties
    <2>7. ASSUME NEW s \in Nat, NEW e \in Nat, NEW p, CoveredBy(maps, s, e, p) PROVE CoveredBy(d, s, e, p)
      <3>1. PICK j \in 1 .. Len(maps) : maps[j].start <= s /\ e <= maps[j].end /\ maps[j].path = p
        BY <1>1, <2>7 DEF CoveredBy
      <3>2. j \in 1 .. (Len(maps) + 1) BY <1>1
      <3> QED BY <2>5, <2>6, <3>1, <3>2 DEF CoveredBy
    <2>8. ASSUME NEW s \in Nat, NEW e \in Nat, a <= s, e <= b PROVE CoveredBy(d, s, e, path)
      <3>1. Len(maps) + 1 \in 1 .. (Len(maps) + 1) BY <1>1
      <3> QED BY <2>2, <2>5, <2>6, <2>8, <3>1 DEF CoveredBy
    <2> QED BY <2>4, <2>5, <2>7, <2>8 DEF d
  <1> QED BY <1>2, <1>3, <1>4

\* The tokens a stretch of waiting text expands to are finitely many.
LEMMA StretchCounted ==
    ASSUME MacroTypeOK, NEW stretch \in Seq(Waiting)
    PROVE  StretchLen(stretch) \in Nat
  <1> DEFINE D == DOMAIN stretch
             f == [i \in D |-> {i} \X (1 .. ExpandedLen(stretch[i]))]
             T == {f[i] : i \in D}
  <1>1. D = 1 .. Len(stretch) /\ Len(stretch) \in Nat BY LenProperties
  <1>2. IsFiniteSet(D) BY <1>1, FS_Interval
  <1>3. ASSUME NEW i \in D PROVE ExpandedLen(stretch[i]) \in Nat
    <2>1. stretch[i] \in Waiting BY <1>1, ElementOfSeq
    <2>2. CASE stretch[i].kind = "name" /\ macros[stretch[i].name] # None
      <3>1. stretch[i].name \in Names BY <2>1, <2>2 DEF Waiting, TextTokens
      <3>2. macros[stretch[i].name] \in Definition BY <2>2, <3>1 DEF MacroTypeOK
      <3>3. macros[stretch[i].name].value \in Values BY <3>2 DEF Definition
      <3> QED BY <2>2, <3>3, DriverAssumption DEF ExpandedLen
    <2>3. CASE ~(stretch[i].kind = "name" /\ macros[stretch[i].name] # None)
      BY <2>3 DEF ExpandedLen
    <2> QED BY <2>2, <2>3
  <1>4. ASSUME NEW i \in D PROVE IsFiniteSet(f[i])
    <2>1. IsFiniteSet(1 .. ExpandedLen(stretch[i])) BY <1>3, FS_Interval
    <2>2. IsFiniteSet({i}) BY FS_Singleton
    <2> QED BY <2>1, <2>2, FS_Product
  <1>5. f \in Surjection(D, T) BY DEF Surjection
  <1>6. IsFiniteSet(T) BY <1>2, <1>5, FS_Surjection
  <1>7. IsFiniteSet(UNION T) BY <1>4, <1>6, FS_UNION
  <1>8. Replaced(stretch) = UNION T BY DEF Replaced
  <1>9. Cardinality(UNION T) \in Nat BY <1>7, FS_CardinalityType
  <1> QED BY <1>8, <1>9 DEF StretchLen

\* What writing output does: the new bytes come from the source being read.
Written ==
    /\ mappings' \in Seq(Mapped) /\ Tiles(mappings', output')
    /\ output' \in Nat /\ output' <= MaxSourceBytes /\ output <= output'
    /\ output_tokens' \in 0 .. MaxTokens
    /\ \A i \in DOMAIN mappings' :
          \/ i \in DOMAIN mappings /\ mappings'[i] = mappings[i]
          \/ /\ output <= mappings'[i].start /\ mappings'[i].end <= output'
             /\ mappings'[i].file = Top.path

LEMMA MappingFacts ==
    ASSUME DriverSound, frames # <<>>, NEW s \in Nat, NEW e \in Nat
    PROVE  /\ Mapping(s, e) \in Mapped
           /\ Mapping(s, e).start = s /\ Mapping(s, e).end = e /\ Mapping(s, e).file = Top.path
  <1>1. Top.logical \in Presumed /\ Top.path \in Sites
    BY TopFrame, FrameFields DEF DriverSound
  <1> QED BY <1>1 DEF Mapping, Mapped

LEMMA NothingWritten ==
    ASSUME OutputSound, UNCHANGED <<output_tokens, output, mappings>>
    PROVE  Written
  BY DEF OutputSound, Written, Mapped

\* Several ranges are appended to the map.
LEMMA RangesWritten ==
    ASSUME OutputSound, NEW q \in Seq(Mapped), q # <<>>, mappings' = mappings \o q,
           \A i \in 1 .. Len(q) :
              /\ q[i].start < q[i].end
              /\ q[i].start = IF i = 1 THEN output ELSE q[i - 1].end
              /\ output <= q[i].start /\ q[i].end <= output' /\ q[i].file = Top.path,
           output' = q[Len(q)].end,
           output' \in Nat, output' <= MaxSourceBytes, output <= output',
           output_tokens' \in 0 .. MaxTokens
    PROVE  Written
  <1>1. mappings \in Seq(Mapped) /\ Tiles(mappings, output) BY DEF OutputSound, Mapped
  <1>2. Tiles(mappings', output') BY <1>1, TilesConcat
  <1>3. /\ mappings' \in Seq(Mapped) /\ Len(mappings') = Len(mappings) + Len(q)
        /\ \A i \in 1 .. Len(mappings) + Len(q) :
              mappings'[i] = IF i <= Len(mappings) THEN mappings[i] ELSE q[i - Len(mappings)]
    BY <1>1, ConcatProperties
  <1>4. /\ DOMAIN mappings = 1 .. Len(mappings) /\ DOMAIN mappings' = 1 .. Len(mappings')
        /\ Len(mappings) \in Nat /\ Len(q) \in Nat
    BY <1>1, <1>3, LenProperties
  <1>5. ASSUME NEW i \in DOMAIN mappings'
        PROVE  \/ i \in DOMAIN mappings /\ mappings'[i] = mappings[i]
               \/ /\ output <= mappings'[i].start /\ mappings'[i].end <= output'
                  /\ mappings'[i].file = Top.path
    <2>1. CASE i <= Len(mappings) BY <1>3, <1>4, <2>1
    <2>2. CASE ~(i <= Len(mappings))
      <3>1. i - Len(mappings) \in 1 .. Len(q) /\ mappings'[i] = q[i - Len(mappings)]
        BY <1>3, <1>4, <2>2
      <3> QED BY <3>1
    <2> QED BY <2>1, <2>2
  <1> QED BY <1>2, <1>3, <1>5 DEF Written

LEMMA WriteTokensWritten ==
    ASSUME DriverSound, OutputSound, frames # <<>>, NEW n \in Nat, WriteTokens(n)
    PROVE  Written
  <1>1. output \in Nat /\ output_tokens \in Nat /\ MaxTokens \in Nat
    BY DriverAssumption DEF OutputSound
  <1>2. /\ output' = output + OutputBytes(n) /\ output' <= MaxSourceBytes
        /\ output_tokens' \in 0 .. MaxTokens
    BY <1>1 DEF WriteTokens, OutputFits
  <1>3. CASE n = 0
    <2> DEFINE r == Mapping(output, output + 1)
    <2>1. output' = output + 1 BY <1>2, <1>3 DEF OutputBytes
    <2>2. r \in Mapped /\ r.start = output /\ r.end = output + 1 /\ r.file = Top.path
      BY <1>1, MappingFacts
    <2>3. mappings' = mappings \o <<r>> BY <1>3 DEF WriteTokens
    <2> HIDE DEF r
    <2>4. <<r>> \in Seq(Mapped) /\ Len(<<r>>) = 1 /\ <<r>> # <<>> /\ <<r>>[1] = r BY <2>2
    <2>5. \A i \in 1 .. Len(<<r>>) :
              /\ <<r>>[i].start < <<r>>[i].end
              /\ <<r>>[i].start = IF i = 1 THEN output ELSE <<r>>[i - 1].end
              /\ output <= <<r>>[i].start /\ <<r>>[i].end <= output' /\ <<r>>[i].file = Top.path
      BY <1>1, <2>1, <2>2, <2>4
    <2>6. output' = <<r>>[Len(<<r>>)].end BY <2>1, <2>2, <2>4
    <2>7. output' \in Nat /\ output <= output' BY <1>1, <2>1
    <2> QED BY <1>2, <2>3, <2>4, <2>5, <2>6, <2>7, RangesWritten
  <1>4. CASE n # 0
    <2> DEFINE q == [i \in 1 .. n |-> Mapping(output + 2 * (i - 1), output + 2 * i)]
    <2>1. output' = output + 2 * n BY <1>2, <1>4 DEF OutputBytes
    <2>2. ASSUME NEW i \in 1 .. n
          PROVE  /\ q[i] \in Mapped
                 /\ q[i].start = output + 2 * (i - 1) /\ q[i].end = output + 2 * i
                 /\ q[i].file = Top.path
      <3>1. output + 2 * (i - 1) \in Nat /\ output + 2 * i \in Nat BY <1>1
      <3> QED BY <3>1, MappingFacts
    <2>3. mappings' = mappings \o q BY <1>4 DEF WriteTokens
    <2>4. q \in [1 .. n -> Mapped]
      <3>1. q = [i \in 1 .. n |-> q[i]] OBVIOUS
      <3> HIDE DEF q
      <3> QED BY <2>2, <3>1
    <2> HIDE DEF q
    <2>5. q \in Seq(Mapped) /\ Len(q) = n BY <2>4
    <2>6. q # <<>> BY <1>4, <2>5, EmptySeq
    <2>7. ASSUME NEW i \in 1 .. Len(q)
          PROVE  /\ q[i].start < q[i].end
                 /\ q[i].start = IF i = 1 THEN output ELSE q[i - 1].end
                 /\ output <= q[i].start /\ q[i].end <= output' /\ q[i].file = Top.path
      <3>1. i \in 1 .. n BY <2>5
      <3>2. q[i].start = output + 2 * (i - 1) /\ q[i].end = output + 2 * i /\ q[i].file = Top.path
        BY <2>2, <3>1
      <3>3. i # 1 => q[i - 1].end = output + 2 * (i - 1)
        <4>1. i # 1 => i - 1 \in 1 .. n BY <3>1
        <4> QED BY <2>2, <4>1
      <3>4. i = 1 => q[i].start = output BY <1>1, <3>2
      <3> QED BY <1>1, <2>1, <3>1, <3>2, <3>3, <3>4, SMTT(60)
    <2>8. output' = q[Len(q)].end
      <3>1. n \in 1 .. n BY <1>4
      <3> QED BY <2>1, <2>2, <2>5, <3>1
    <2>9. output' \in Nat /\ output <= output' BY <1>1, <2>1
    <2> QED BY <1>2, <2>3, <2>5, <2>6, <2>7, <2>8, <2>9, RangesWritten
  <1> QED BY <1>3, <1>4

LEMMA PragmaWritten ==
    ASSUME DriverSound, OutputSound, frames # <<>>, NEW p, pragma(p)
    PROVE  Written
  <1>1. CASE UNCHANGED <<output_tokens, output, mappings>> BY <1>1, NothingWritten
  <1>2. CASE /\ output + PackBytes <= MaxSourceBytes
             /\ output_tokens + PackTokens <= MaxTokens
             /\ output' = output + PackBytes
             /\ output_tokens' = output_tokens + PackTokens
             /\ mappings' = Append(mappings, Mapping(output, output + PackBytes))
    <2> DEFINE r == Mapping(output, output + PackBytes)
    <2>1. /\ output \in Nat /\ output_tokens \in Nat /\ MaxTokens \in Nat /\ output' = output + 2
          /\ output' <= MaxSourceBytes /\ output_tokens' \in 0 .. MaxTokens /\ output <= output'
          /\ output' \in Nat
      BY <1>2, DriverAssumption DEF OutputSound, PackBytes, PackTokens
    <2>2. r \in Mapped /\ r.start = output /\ r.end = output' /\ r.file = Top.path
      BY <2>1, MappingFacts DEF PackBytes
    <2>3. mappings' = Append(mappings, r) BY <1>2
    <2> HIDE DEF r
    <2>4. mappings \in Seq(Mapped) /\ Tiles(mappings, output) BY DEF OutputSound, Mapped
    <2>5. Tiles(mappings', output') BY <2>1, <2>2, <2>3, <2>4, TilesAppend
    <2>6. /\ mappings' \in Seq(Mapped) /\ Len(mappings') = Len(mappings) + 1
          /\ mappings'[Len(mappings) + 1] = r
          /\ \A i \in 1 .. Len(mappings) : mappings'[i] = mappings[i]
      BY <2>2, <2>3, <2>4, AppendProperties
    <2>7. /\ DOMAIN mappings = 1 .. Len(mappings) /\ DOMAIN mappings' = 1 .. Len(mappings')
          /\ Len(mappings) \in Nat
      BY <2>4, <2>6, LenProperties
    <2>8. ASSUME NEW i \in DOMAIN mappings'
          PROVE  \/ i \in DOMAIN mappings /\ mappings'[i] = mappings[i]
                 \/ /\ output <= mappings'[i].start /\ mappings'[i].end <= output'
                    /\ mappings'[i].file = Top.path
      <3>1. CASE i = Len(mappings) + 1 BY <2>1, <2>2, <2>6, <3>1
      <3>2. CASE i # Len(mappings) + 1 BY <2>6, <2>7, <3>2
      <3> QED BY <3>1, <3>2
    <2> QED BY <2>1, <2>5, <2>6, <2>8 DEF Written
  <1> QED BY <1>1, <1>2 DEF pragma

\* The output of a run that does not go on.
LEMMA StoppedOutput ==
    ASSUME OutputSound, UNCHANGED outputVars, UNCHANGED flush, ~Running'
    PROVE  OutputSound'
  BY DEF OutputSound, outputVars, Running

\* OutputSound', part by part.
LEMMA OutputNext ==
    ASSUME output_tokens' \in 0 .. MaxTokens, output' \in Nat, output' <= MaxSourceBytes,
           flush' \in [start : Nat, had_pragma : BOOLEAN],
           mappings' \in Seq(Mapped), file_mappings' \in Seq(Origins), Tiles(mappings', output'),
           Mark' <= output', Tiles(file_mappings', Mark'),
           \A i \in DOMAIN mappings' :
              /\ mappings'[i].end <= output'
              /\ \/ CoveredBy(file_mappings', mappings'[i].start, mappings'[i].end, mappings'[i].file)
                 \/ phase' = "flush" /\ Mark' <= mappings'[i].start /\ mappings'[i].file = Top'.path
    PROVE  OutputSound'
  <1>1. ASSUME NEW i \in DOMAIN mappings'
        PROVE  \/ Covered(mappings[i])'
               \/ phase' = "flush" /\ Mark' <= mappings'[i].start /\ mappings'[i].file = Top'.path
    BY DEF Covered, CoveredBy
  <1> QED BY <1>1 DEF OutputSound, Mapped, Origins

\* Where nothing is written, outside a flush; a flush may begin.
LEMMA QuietOutput ==
    ASSUME OutputSound, UNCHANGED outputVars, Running, phase # "flush",
           flush' \in [start : Nat, had_pragma : BOOLEAN], phase' = "flush" => flush'.start = output
    PROVE  OutputSound'
  <1>1. UNCHANGED <<output_tokens, output, mappings, file_mappings>> BY DEF outputVars
  <1>2. Mark = output /\ Mark' = output BY <1>1 DEF Mark
  <1>3. output \in Nat BY DEF OutputSound
  <1>4. /\ Tiles(file_mappings, output)
        /\ \A i \in DOMAIN mappings : mappings[i].end <= output /\ Covered(mappings[i])
    BY <1>2 DEF OutputSound
  <1>5. Tiles(file_mappings', Mark') /\ Mark' <= output' BY <1>1, <1>2, <1>3, <1>4
  <1>6. \A i \in DOMAIN mappings' :
           /\ mappings'[i].end <= output'
           /\ CoveredBy(file_mappings', mappings'[i].start, mappings'[i].end, mappings'[i].file)
    BY <1>1, <1>4 DEF Covered, CoveredBy
  <1>8. /\ output_tokens' \in 0 .. MaxTokens /\ output' \in Nat /\ output' <= MaxSourceBytes
        /\ mappings' \in Seq([start : Nat, end : Nat, path : Presumed, file : Sites])
        /\ file_mappings' \in Seq([start : Nat, end : Nat, path : Sites, system : BOOLEAN])
        /\ Tiles(mappings', output')
    BY <1>1 DEF OutputSound
  <1> QED BY <1>5, <1>6, <1>8, OutputNext DEF Origins, Mapped

\* What is written is covered at once: a pragma, or the end of a flush.
LEMMA ClosedOutput ==
    ASSUME DriverSound, OutputSound, frames # <<>>, Running, Written, UNCHANGED flush,
           phase' # "flush",
           file_mappings' = AppendOrigin(file_mappings, Mark, output', Top.path, Top.system)
    PROVE  OutputSound'
  <1>1. Top.path \in Sites /\ Top.system \in BOOLEAN BY TopFrame, FrameFields DEF DriverSound
  <1>2. /\ Mark \in Nat /\ output \in Nat /\ output' \in Nat /\ Mark <= output /\ output <= output'
        /\ Tiles(file_mappings, Mark) /\ file_mappings \in Seq(Origins) /\ mappings \in Seq(Mapped)
        /\ mappings' \in Seq(Mapped)
    BY DEF OutputSound, Written, Mark, Origins, Mapped
  <1>3. Mark <= output' BY <1>2
  <1>4. /\ file_mappings' \in Seq(Origins) /\ Tiles(file_mappings', output')
        /\ \A p : \A s \in Nat, e \in Nat :
              CoveredBy(file_mappings, s, e, p) => CoveredBy(file_mappings', s, e, p)
        /\ \A s \in Nat, e \in Nat :
              Mark <= s /\ s < e /\ e <= output' => CoveredBy(file_mappings', s, e, Top.path)
    BY <1>1, <1>2, <1>3, OriginAppended
  <1>5. ASSUME NEW i \in DOMAIN mappings'
        PROVE  /\ mappings'[i].end <= output'
               /\ CoveredBy(file_mappings', mappings'[i].start, mappings'[i].end, mappings'[i].file)
    <2> DEFINE m == mappings'[i]
    <2>1. m \in Mapped
      <3>1. i \in 1 .. Len(mappings') BY <1>2, LenProperties
      <3> QED BY <1>2, <3>1, ElementOfSeq
    <2>2. m.start \in Nat /\ m.end \in Nat BY <2>1 DEF Mapped
    <2>3. m.start < m.end BY DEF Written, Tiles
    <2>4. CASE i \in DOMAIN mappings /\ m = mappings[i]
      <3>1. /\ m.end <= output
            /\ Covered(m) \/ (Mark <= m.start /\ m.file = Top.path)
        BY <2>4 DEF OutputSound
      <3>2. m.end <= output' BY <1>2, <2>2, <3>1
      <3>3. CASE Covered(m)
        <4>1. CoveredBy(file_mappings, m.start, m.end, m.file) BY <3>3 DEF Covered, CoveredBy
        <4> HIDE DEF m
        <4>2. CoveredBy(file_mappings', m.start, m.end, m.file) BY <1>4, <2>2, <4>1
        <4> QED BY <3>2, <4>2 DEF m
      <3>4. CASE Mark <= m.start /\ m.file = Top.path
        <4> HIDE DEF m
        <4>1. CoveredBy(file_mappings', m.start, m.end, m.file) BY <1>4, <2>2, <2>3, <3>2, <3>4
        <4> QED BY <3>2, <4>1 DEF m
      <3> QED BY <3>1, <3>3, <3>4
    <2>5. CASE output <= m.start /\ m.end <= output' /\ m.file = Top.path
      <3> HIDE DEF m
      <3>1. Mark <= m.start BY <1>2, <2>2, <2>5
      <3>2. CoveredBy(file_mappings', m.start, m.end, m.file) BY <1>4, <2>2, <2>3, <2>5, <3>1
      <3> QED BY <2>5, <3>2 DEF m
    <2> QED BY <2>4, <2>5 DEF Written
  <1>7. Mark' = output' BY DEF Mark
  <1>8. /\ output_tokens' \in 0 .. MaxTokens /\ output' \in Nat /\ output' <= MaxSourceBytes
        /\ mappings' \in Seq([start : Nat, end : Nat, path : Presumed, file : Sites])
        /\ file_mappings' \in Seq([start : Nat, end : Nat, path : Sites, system : BOOLEAN])
        /\ Tiles(mappings', output') /\ flush' \in [start : Nat, had_pragma : BOOLEAN]
    BY <1>4 DEF OutputSound, Written, Origins, Mapped
  <1>9. Mark' <= output' BY <1>2, <1>7
  <1> QED BY <1>4, <1>5, <1>7, <1>8, <1>9, OutputNext DEF Origins, Mapped

\* What a flush writes waits for its end, and comes from the source it flushes.
LEMMA OpenOutput ==
    ASSUME DriverSound, OutputSound, frames # <<>>, Running, phase = "flush", phase' = "flush",
           Written, UNCHANGED file_mappings, Top'.path = Top.path,
           flush' \in [start : Nat, had_pragma : BOOLEAN], flush'.start = flush.start
    PROVE  OutputSound'
  <1>1. /\ Mark = flush.start /\ Mark' = flush.start /\ Mark \in Nat /\ output \in Nat
        /\ output' \in Nat /\ Mark <= output /\ output <= output' /\ Tiles(file_mappings, Mark)
        /\ mappings' \in Seq(Mapped)
    BY DEF OutputSound, Written, Mark
  <1>2. Mark' <= output' /\ Tiles(file_mappings', Mark') BY <1>1
  <1>3. ASSUME NEW i \in DOMAIN mappings'
        PROVE  /\ mappings'[i].end <= output'
               /\ Covered(mappings'[i]) \/ (Mark <= mappings'[i].start /\ mappings'[i].file = Top.path)
    <2> DEFINE m == mappings'[i]
    <2>1. m \in Mapped
      <3>1. i \in 1 .. Len(mappings') BY <1>1, LenProperties
      <3> QED BY <1>1, <3>1, ElementOfSeq
    <2>2. m.start \in Nat /\ m.end \in Nat BY <2>1 DEF Mapped
    <2>3. CASE i \in DOMAIN mappings /\ m = mappings[i]
      <3>1. /\ m.end <= output
            /\ Covered(m) \/ (Mark <= m.start /\ m.file = Top.path)
        BY <2>3 DEF OutputSound
      <3> HIDE DEF m
      <3>2. m.end <= output' BY <1>1, <2>2, <3>1
      <3> QED BY <3>1, <3>2 DEF m
    <2>4. CASE output <= m.start /\ m.end <= output' /\ m.file = Top.path
      <3> HIDE DEF m
      <3>1. Mark <= m.start BY <1>1, <2>2, <2>4
      <3> QED BY <2>4, <3>1 DEF m
    <2> QED BY <2>3, <2>4 DEF Written
  <1>4. \A i \in DOMAIN mappings' :
           /\ mappings'[i].end <= output'
           /\ \/ CoveredBy(file_mappings', mappings'[i].start, mappings'[i].end, mappings'[i].file)
              \/ phase' = "flush" /\ Mark' <= mappings'[i].start /\ mappings'[i].file = Top'.path
    BY <1>1, <1>3 DEF Covered, CoveredBy
  <1>5. /\ output_tokens' \in 0 .. MaxTokens /\ output' \in Nat /\ output' <= MaxSourceBytes
        /\ mappings' \in Seq([start : Nat, end : Nat, path : Presumed, file : Sites])
        /\ file_mappings' \in Seq([start : Nat, end : Nat, path : Sites, system : BOOLEAN])
        /\ Tiles(mappings', output')
    BY DEF OutputSound, Written, Mapped
  <1> QED BY <1>2, <1>4, <1>5, OutputNext DEF Origins, Mapped

\* A directive that runs no pragma writes nothing.
LEMMA PlainOutput ==
    ASSUME OutputSound, Running, phase = "exec", Executed, UNCHANGED outputVars
    PROVE  OutputSound'
  <1>1. flush' \in [start : Nat, had_pragma : BOOLEAN] /\ phase' = "line"
    BY DEF Executed, OutputSound
  <1> QED BY <1>1, QuietOutput

\* A pragma of a directive is covered by the source that contains it.
LEMMA PragmaOutput ==
    ASSUME DriverSound, OutputSound, Running, phase = "exec", Executed, NEW p, pragma(p),
           file_mappings' = AppendOrigin(file_mappings, output, output', Top.path, Top.system)
    PROVE  OutputSound'
  <1>1. frames # <<>> BY DEF DriverSound, ControlSound
  <1>2. Written BY <1>1, PragmaWritten
  <1>3. Mark = output BY DEF Mark
  <1>4. UNCHANGED flush /\ phase' # "flush" BY DEF Executed
  <1> QED BY <1>1, <1>2, <1>3, <1>4, ClosedOutput

LEMMA DirectiveOutput ==
    ASSUME DriverSound, OutputSound, Directive
    PROVE  OutputSound'
  <1>1. CASE If \/ Elif
    <2>1. Running /\ phase = "exec" /\ Executed BY <1>1 DEF If, Elif, Executing, Running
    <2>2. CASE UNCHANGED outputVars BY <2>1, <2>2, PlainOutput
    <2>3. CASE /\ pragma(line.pragma)
               /\ file_mappings' = AppendOrigin(file_mappings, output, output', Top.path, Top.system)
      BY <2>1, <2>3, PragmaOutput
    <2> QED BY <1>1, <2>2, <2>3 DEF If, Elif, condition
  <1>2. CASE ExecPragma
    <2>1. Running /\ phase = "exec" /\ Executed BY <1>2 DEF ExecPragma, Executing, Running
    <2> QED BY <1>2, <2>1, PragmaOutput DEF ExecPragma
  <1>3. CASE Ifdef \/ SkippedIf \/ Else \/ Endif \/ Ignored \/ ExecDefine \/ ExecUndef
    <2>1. Running /\ phase = "exec" /\ Executed /\ UNCHANGED outputVars
      BY <1>3 DEF Ifdef, SkippedIf, Else, Endif, Ignored, ExecDefine, ExecUndef, Executing, Running
    <2> QED BY <2>1, PlainOutput
  <1>4. CASE ExecInclude \/ ExecLine \/ ExecMarker \/ LeaveSource
    <2>1. Running /\ phase = "exec" /\ Executed /\ UNCHANGED outputVars
      BY <1>4 DEF ExecInclude, ExecLine, ExecMarker, LeaveSource, Executing, Running
    <2> QED BY <2>1, PlainOutput
  <1> QED BY <1>1, <1>2, <1>3, <1>4 DEF Directive

LEMMA ShownOutput ==
    ASSUME DriverSound, OutputSound, Shown
    PROVE  OutputSound'
  <1>1. CASE ReadLine \/ EndOfFile
    <2>1. Running /\ phase # "flush" /\ UNCHANGED outputVars
      BY <1>1 DEF ReadLine, EndOfFile, Reading, Running
    <2>2. \/ phase' = phase /\ flush' = flush
          \/ flush' = [start |-> output, had_pragma |-> FALSE]
      BY <1>1 DEF ReadLine, EndOfFile, ReadText, StartDirective
    <2>3. [start |-> output, had_pragma |-> FALSE] \in [start : Nat, had_pragma : BOOLEAN]
      <3>1. output \in Nat /\ FALSE \in BOOLEAN BY DEF OutputSound
      <3> QED BY <3>1
    <2>4. flush' \in [start : Nat, had_pragma : BOOLEAN] BY <2>2, <2>3 DEF OutputSound
    <2>5. phase' = "flush" => flush'.start = output BY <2>1, <2>2
    <2> QED BY <2>1, <2>4, <2>5, QuietOutput
  <1>2. CASE FlushText
    <2>1. /\ Running /\ phase = "flush" /\ phase' = "flush" /\ UNCHANGED flush
          /\ UNCHANGED file_mappings
      BY <1>2 DEF FlushText, Flushing, Running
    <2>2. frames # <<>> /\ Top'.path = Top.path BY <1>2, FlushTextSound
    <2>3. Top.pending \in Seq(Waiting)
      BY <2>2, TopFrame, FrameFields DEF DriverSound, Waiting
    <2> DEFINE end == StretchEnd(Top.pending)
               stretch == SubSeq(Top.pending, 1, end)
    <2>4. stretch \in Seq(Waiting)
      <3>1. Len(Top.pending) \in Nat /\ end \in 0 .. Len(Top.pending) BY <2>3, StretchPlace, LenProperties
      <3>2. \A i \in 1 .. end : Top.pending[i] \in Waiting BY <2>3, <3>1, ElementOfSeq
      <3> QED BY <3>1, <3>2, SubSeqProperties
    <2>5. Written
      <3>1. StretchLen(stretch) \in Nat BY <2>4, StretchCounted DEF DriverSound, MacrosSound
      <3>2. CASE WriteTokens(StretchLen(stretch)) BY <2>2, <3>1, <3>2, WriteTokensWritten
      <3>3. CASE UNCHANGED <<output_tokens, output, mappings>> BY <3>3, NothingWritten
      <3> QED BY <1>2, <3>2, <3>3 DEF FlushText
    <2>6. flush' \in [start : Nat, had_pragma : BOOLEAN] /\ flush'.start = flush.start
      BY <2>1 DEF OutputSound
    <2> QED BY <2>1, <2>2, <2>5, <2>6, OpenOutput
  <1>3. CASE FlushPragma
    <2>1. Running /\ phase = "flush" /\ phase' = "flush" /\ UNCHANGED file_mappings
      BY <1>3 DEF FlushPragma, Flushing, Running
    <2>2. frames # <<>> /\ Top'.path = Top.path BY <1>3, FlushPragmaSound
    <2>3. Written BY <1>3, <2>2, PragmaWritten DEF FlushPragma
    <2>4. flush' \in [start : Nat, had_pragma : BOOLEAN] /\ flush'.start = flush.start
      <3>1. flush \in [start : Nat, had_pragma : BOOLEAN] BY DEF OutputSound
      <3>2. flush' = [flush EXCEPT !.had_pragma = TRUE] BY <1>3 DEF FlushPragma
      <3> QED BY <3>1, <3>2
    <2> QED BY <2>1, <2>2, <2>3, <2>4, OpenOutput
  <1>4. CASE FlushDone
    <2>1. /\ Running /\ phase = "flush" /\ phase' = "exec" /\ UNCHANGED flush
          /\ UNCHANGED <<output_tokens, output, mappings>>
          /\ file_mappings' = AppendOrigin(file_mappings, flush.start, output, Top.path, Top.system)
      BY <1>4 DEF FlushDone, Flushing, Running
    <2>2. frames # <<>> BY <1>4, FlushDoneSound
    <2>3. Written BY <2>1, NothingWritten
    <2>4. Mark = flush.start /\ phase' # "flush" BY <2>1 DEF Mark
    <2> QED BY <2>1, <2>2, <2>3, <2>4, ClosedOutput
  <1> QED BY <1>1, <1>2, <1>3, <1>4 DEF Shown

LEMMA StepOutput ==
    ASSUME DriverSound, OutputSound, Step
    PROVE  OutputSound'
  <1>1. CASE Shown BY <1>1, ShownOutput
  <1>2. CASE Directive BY <1>2, DirectiveOutput
  <1>3. CASE NextInput \/ Finish
    <2>1. Running /\ frames = <<>> /\ UNCHANGED outputVars /\ UNCHANGED <<phase, flush>>
      BY <1>3 DEF NextInput, Finish, Running
    <2>2. phase = "line" BY <2>1 DEF DriverSound, ControlSound
    <2>3. flush' \in [start : Nat, had_pragma : BOOLEAN] /\ phase' # "flush"
      BY <2>1, <2>2 DEF OutputSound
    <2> QED BY <2>1, <2>2, <2>3, QuietOutput
  <1>4. CASE Failure
    <2>1. UNCHANGED outputVars /\ UNCHANGED flush /\ ~Running' BY <1>4 DEF Failure, Unwind, Running
    <2> QED BY <2>1, StoppedOutput
  <1> QED BY <1>1, <1>2, <1>3, <1>4, StepKinds

\* An output that is empty.
LEMMA EmptyOutput == Tiles(<<>>, 0) /\ <<>> \in Seq(Mapped) /\ <<>> \in Seq(Origins) /\ DOMAIN <<>> = {}
  BY EmptySeq DEF Tiles

LEMMA EntryOutput ==
    ASSUME NEW job \in Jobs, Preprocess(job) \/ PreprocessError(job)
    PROVE  OutputSound' /\ PendingCurrent' /\ TextSeesItsLine'
  <1>1. /\ output_tokens' = 0 /\ output' = 0 /\ mappings' = <<>> /\ file_mappings' = <<>>
        /\ flush' = [start |-> 0, had_pragma |-> FALSE] /\ phase' = "line" /\ emitted' = {}
        /\ frames' = <<>>
    BY DEF Preprocess, PreprocessError, ResetRun
  <1>2. flush' \in [start : Nat, had_pragma : BOOLEAN]
    <2>1. FALSE \in BOOLEAN /\ 0 \in Nat OBVIOUS
    <2> QED BY <1>1, <2>1
  <1>3. Mark' = 0 BY <1>1 DEF Mark
  <1>4. 0 \in 0 .. MaxTokens /\ 0 <= MaxSourceBytes BY DriverAssumption, MacroAssumption
  <1>5. OutputSound' BY <1>1, <1>2, <1>3, <1>4, EmptyOutput, OutputNext
  <1>6. PendingCurrent' /\ TextSeesItsLine' BY <1>1 DEF PendingCurrent, TextSeesItsLine
  <1> QED BY <1>5, <1>6

LEMMA InitInvariant == Init => PreprocessorInv
  <1> SUFFICES ASSUME Init PROVE PreprocessorInv OBVIOUS
  <1>1. flush \in [start : Nat, had_pragma : BOOLEAN]
    <2>1. FALSE \in BOOLEAN /\ 0 \in Nat OBVIOUS
    <2> QED BY <2>1 DEF Init
  <1>2. Mark = 0 BY DEF Init, Mark
  <1>3. 0 \in 0 .. MaxTokens /\ 0 <= MaxSourceBytes BY DriverAssumption, MacroAssumption
  <1>4. OutputSound BY <1>1, <1>2, <1>3, EmptyOutput DEF Init, OutputSound, Mapped, Origins
  <1>5. PendingCurrent /\ TextSeesItsLine BY DEF Init, PendingCurrent, TextSeesItsLine
  <1> QED BY <1>4, <1>5, InitDriver DEF PreprocessorInv

LEMMA NextInvariant == PreprocessorInv /\ [Next]_vars => PreprocessorInv'
  <1> SUFFICES ASSUME PreprocessorInv, [Next]_vars PROVE PreprocessorInv' OBVIOUS
  <1>1. DriverSound /\ PendingCurrent /\ TextSeesItsLine /\ OutputSound BY DEF PreprocessorInv
  <1>2. DriverSound' BY <1>1, NextDriver
  <1>3. CASE Step BY <1>1, <1>2, <1>3, StepCurrent, StepOutput DEF PreprocessorInv
  <1>4. CASE Entry BY <1>2, <1>4, EntryOutput DEF Entry, PreprocessorInv
  <1>5. CASE InputError
    <2>1. /\ UNCHANGED outputVars /\ UNCHANGED flush /\ ~Running' /\ frames' = <<>>
      BY <1>5 DEF InputError, Fail, Unwind, Running
    <2>2. OutputSound' BY <1>1, <2>1, StoppedOutput
    <2>3. PendingCurrent' BY <2>1 DEF PendingCurrent
    <2>4. TextSeesItsLine' BY <1>1, <2>1 DEF outputVars, TextSeesItsLine
    <2> QED BY <1>2, <2>2, <2>3, <2>4 DEF PreprocessorInv
  <1>6. CASE UNCHANGED vars
    <2>1. UNCHANGED <<macroVars, outputVars, controlVars>> BY <1>6 DEF vars
    <2>2. PendingCurrent'
      <3>1. CASE frames = <<>> BY <2>1, <3>1 DEF controlVars, PendingCurrent
      <3>2. CASE frames # <<>>
        <4>1. /\ frames' # <<>> /\ Top'.pending = Top.pending /\ UNCHANGED macroVars
              /\ CurrentText(Top.pending)
          BY <1>1, <2>1, <3>2, PendingCurrentIs DEF controlVars, Top
        <4> QED BY <4>1, PendingCurrentNext
      <3> QED BY <3>1, <3>2
    <2>3. TextSeesItsLine' BY <1>1, <2>1 DEF outputVars, TextSeesItsLine
    <2>4. OutputSound'
      BY <1>1, <2>1 DEF outputVars, controlVars, OutputSound, Mark, Running, Covered, Top
    <2> QED BY <1>2, <2>2, <2>3, <2>4 DEF PreprocessorInv
  <1> QED BY <1>3, <1>4, <1>5, <1>6 DEF Next

-----------------------------------------------------------------------------
(* What the invariant gives *)

\* Whatever sources are read, by whatever entry points, and wherever the driver
\* stops: the include stack, the control, the macro environment, the text that
\* waits and the maps of the output stay sound.
THEOREM PreprocessorInvariant == Spec => []PreprocessorInv
  <1>1. Init => PreprocessorInv BY InitInvariant
  <1>2. PreprocessorInv /\ [Next]_vars => PreprocessorInv' BY NextInvariant
  <1> QED BY <1>1, <1>2, PTL DEF Spec

LEMMA InvariantStructure == PreprocessorInv => StructureKept
  <1> SUFFICES ASSUME PreprocessorInv PROVE StructureKept OBVIOUS
  <1>1. StackSound /\ ControlSound /\ MacrosSound /\ IncludesSound /\ OutputSound
    BY DEF PreprocessorInv, DriverSound
  <1>2. frames \in Seq(SoundFrames) /\ DOMAIN frames = 1 .. Len(frames)
    BY <1>1, LenProperties DEF StackSound
  <1>3. \A k \in DOMAIN frames :
           /\ GroupsNest(frames[k].conditions)
           /\ Len(frames[k].conditions) <= ConditionalLimit
           /\ Len(frames[k].markers) <= MaxIncludeDepth
    BY <1>2, ElementOfSeq DEF SoundFrames
  <1>4. ConditionalGroups BY <1>1, <1>3 DEF ConditionalGroups, StackSound, Waits
  <1>5. SystemFlagRestored BY <1>1 DEF SystemFlagRestored, StackSound
  <1>6. TypeOK
    <2>1. MacroTypeOK BY <1>1 DEF MacrosSound
    <2>2. line \in AllLines \cup {None, Eof} BY <1>1 DEF ControlSound
    <2>3. phase # "line" => line # None BY <1>1, DriverAssumption DEF ControlSound
    <2>4. {tokens, source_bytes, output_tokens, output} \subseteq Nat
      BY <1>1, DriverAssumption DEF ControlSound, IncludesSound, OutputSound
    <2>5. \A p \in once \cup reads : p \in Sites BY <1>1 DEF IncludesSound
    <2> QED BY <1>1, <2>1, <2>2, <2>3, <2>4, <2>5 DEF TypeOK, ControlSound, IncludesSound
  <1>7. WithinLimits
    <2>1. tokens <= MaxTokens /\ output_tokens <= MaxTokens
      BY <1>1, DriverAssumption DEF ControlSound, OutputSound
    <2>2. source_bytes <= MaxSourceBytes \/ ~Running BY <1>1 DEF IncludesSound
    <2>3. output <= MaxSourceBytes /\ macro_stack_bytes <= MaxSourceBytes
      BY <1>1 DEF OutputSound, MacrosSound
    <2>4. Len(frames) <= Max({1, MaxIncludeDepth}) BY <1>1 DEF StackSound
    <2> QED BY <1>3, <2>1, <2>2, <2>3, <2>4 DEF WithinLimits
  <1> QED BY <1>4, <1>5, <1>6, <1>7 DEF StructureKept, DriverInv

\* Groups nest and take at most one branch each, a source that includes another
\* is at an active place, the system flag is restored, and nothing outgrows its
\* limit.
THEOREM StructureHolds == Spec => []StructureKept
  <1>1. PreprocessorInv => StructureKept BY InvariantStructure
  <1> QED BY <1>1, PreprocessorInvariant, PTL

LEMMA InvariantText == PreprocessorInv => TextExact
  <1> SUFFICES ASSUME PreprocessorInv PROVE TextExact OBVIOUS
  <1>1. MacrosSound /\ OutputSound /\ TextSeesItsLine BY DEF PreprocessorInv, DriverSound
  <1>2. OutputMapped
    <2>1. Tiles(mappings, output) BY <1>1 DEF OutputSound
    <2>2. ASSUME Running, phase # "flush"
          PROVE  /\ Tiles(file_mappings, output)
                 /\ \A i \in DOMAIN mappings : Covered(mappings[i])
      BY <1>1, <2>2 DEF OutputSound, Mark
    <2> QED BY <2>1, <2>2 DEF OutputMapped, Covered
  <1>3. Provenance BY <1>1 DEF Provenance, MacrosSound, Running
  <1> QED BY <1>1, <1>2, <1>3 DEF TextExact

\* Text is expanded with the meanings its line saw, both maps tile the output
\* and name the same sources, and the origin table names the definitions in force.
THEOREM TextHolds == Spec => []TextExact
  <1>1. PreprocessorInv => TextExact BY InvariantText
  <1> QED BY <1>1, PreprocessorInvariant, PTL

-----------------------------------------------------------------------------
(* #pragma once over the names of an inode *)

\* Identified, of any history of reads and any table of links.
NamedBy(path, identity, read, links) ==
    /\ path \in read
    /\ \/ identity = path
       \/ path \in Files /\ identity \in Files /\ Inode[identity] = Inode[path]
    /\ identity \in Files /\ Linked(identity) => links[Inode[identity]] = identity

\* The sources of the stack keep their names, or are some that were there.
SamePaths ==
    \A k \in DOMAIN frames' :
        /\ k \in DOMAIN frames
        /\ frames'[k].path = frames[k].path /\ frames'[k].identity = frames[k].identity

\* During a run links, reads and dependencies are only added.
Grows ==
    /\ \A f \in Files : hardlinks[Inode[f]] # None => hardlinks'[Inode[f]] = hardlinks[Inode[f]]
    /\ \A f \in Files : hardlinks'[Inode[f]] # None => Inode[hardlinks'[Inode[f]]] = Inode[f]
    /\ reads \subseteq reads' /\ dependencies \subseteq dependencies'

LEMMA NamedGrows ==
    ASSUME Grows, NEW p, NEW i, NamedBy(p, i, reads, hardlinks)
    PROVE  NamedBy(p, i, reads', hardlinks')
  <1>1. p \in reads' BY DEF NamedBy, Grows
  <1>2. ASSUME i \in Files, Linked(i) PROVE hardlinks'[Inode[i]] = i
    <2>1. hardlinks[Inode[i]] = i BY <1>2 DEF NamedBy
    <2>2. i # None BY <1>2, DriverAssumption, MacroAssumption
    <2> QED BY <1>2, <2>1, <2>2 DEF Grows
  <1> QED BY <1>1, <1>2 DEF NamedBy

\* What was remembered stays right while the tables grow.
LEMMA LinksGrow ==
    ASSUME IncludesSound, LinksSound, Grows, once' = once,
           \A i \in DOMAIN inputs' : \E j \in DOMAIN inputs : inputs'[i] = inputs[j],
           \A k \in DOMAIN frames' :
              \/ NamedBy(frames'[k].path, frames'[k].identity, reads', hardlinks')
              \/ /\ k \in DOMAIN frames
                 /\ frames'[k].path = frames[k].path /\ frames'[k].identity = frames[k].identity,
           reads' \cap Files \subseteq dependencies'
    PROVE  LinksSound'
  <1>1. \A f \in Files : hardlinks'[Inode[f]] # None => Inode[hardlinks'[Inode[f]]] = Inode[f]
    BY DEF Grows
  <1>2. ASSUME NEW k \in DOMAIN frames'
        PROVE  NamedBy(frames'[k].path, frames'[k].identity, reads', hardlinks')
    <2>1. CASE /\ k \in DOMAIN frames
               /\ frames'[k].path = frames[k].path /\ frames'[k].identity = frames[k].identity
      <3>1. NamedBy(frames[k].path, frames[k].identity, reads, hardlinks)
        BY <2>1 DEF LinksSound, Identified, NamedBy
      <3>2. NamedBy(frames[k].path, frames[k].identity, reads', hardlinks') BY <3>1, NamedGrows
      <3> QED BY <2>1, <3>2
    <2> QED BY <2>1
  <1>3. ASSUME NEW i \in DOMAIN inputs'
        PROVE  /\ inputs'[i].kind = "str" => inputs'[i].path \notin Files
               /\ inputs'[i].kind = "main" =>
                     /\ inputs'[i].path \in dependencies'
                     /\ Linked(inputs'[i].path) => hardlinks'[Inode[inputs'[i].path]] # None
    <2>1. PICK j \in DOMAIN inputs : inputs'[i] = inputs[j] OBVIOUS
    <2>2. inputs[j].kind = "str" => inputs[j].path \notin Files BY DEF LinksSound
    <2>3. ASSUME inputs[j].kind = "main"
          PROVE  /\ inputs[j].path \in dependencies'
                 /\ Linked(inputs[j].path) => hardlinks'[Inode[inputs[j].path]] # None
      <3>1. /\ inputs[j].path \in dependencies
            /\ Linked(inputs[j].path) => hardlinks[Inode[inputs[j].path]] # None
        BY <2>3 DEF LinksSound
      <3>2. inputs[j].path \in Files BY <3>1 DEF IncludesSound
      <3> QED BY <3>1, <3>2 DEF Grows
    <2> QED BY <2>1, <2>2, <2>3
  <1>4. ASSUME NEW p \in once'
        PROVE  /\ p \in reads' \/ (p \in Files /\ Inode[p] \in {Inode[f] : f \in reads' \cap Files})
               /\ p \in Files /\ Linked(p) => hardlinks'[Inode[p]] = p
    <2>1. /\ p \in reads \/ (p \in Files /\ Inode[p] \in {Inode[f] : f \in reads \cap Files})
          /\ p \in Files /\ Linked(p) => hardlinks[Inode[p]] = p
      BY <1>4 DEF LinksSound, Inodes
    <2>2. p \in Files => p # None BY DriverAssumption, MacroAssumption
    <2> QED BY <2>1, <2>2 DEF Grows
  <1>5. \A k \in DOMAIN frames' : Identified(frames[k].path, frames[k].identity)'
    BY <1>2 DEF Identified, NamedBy
  <1> QED BY <1>1, <1>3, <1>4, <1>5 DEF LinksSound, Inodes

\* A step that enters no source leaves the names in the stack alone.
LEMMA QuietPaths ==
    ASSUME StackSound, QuietStep \/ Clears \/ \E t : Rewrites(t)
    PROVE  SamePaths /\ Len(frames') <= Len(frames)
  <1>1. frames \in Seq(SoundFrames) /\ Len(frames) \in Nat /\ DOMAIN frames = 1 .. Len(frames)
    BY LenProperties DEF StackSound
  <1>2. CASE Keeps BY <1>1, <1>2 DEF Keeps, SamePaths
  <1>3. CASE Pops
    <2>1. StackSound' /\ Len(frames') = Len(frames) - 1 BY <1>3, PopsSound
    <2>2. \A k \in 1 .. (Len(frames) - 1) : frames'[k] = frames[k] BY <1>3, PopsSound
    <2>3. DOMAIN frames' = 1 .. Len(frames') BY <2>1, LenProperties DEF StackSound
    <2> QED BY <1>1, <2>1, <2>2, <2>3 DEF SamePaths
  <1>4. CASE Clears
    <2>1. frames' = <<>> /\ Len(frames') = 0 /\ DOMAIN frames' = {} BY <1>4, EmptySeq DEF Clears
    <2> QED BY <1>1, <2>1 DEF SamePaths
  <1>5. ASSUME NEW t, Rewrites(t) PROVE SamePaths /\ Len(frames') <= Len(frames)
    <2>1. StackSound' /\ Len(frames') = Len(frames) /\ Top' = t /\ frames' # <<>>
      BY <1>5, RewritesSound
    <2>2. \A k \in 1 .. (Len(frames) - 1) : frames'[k] = frames[k] BY <1>5, RewritesSound
    <2>3. DOMAIN frames' = 1 .. Len(frames') BY <2>1, LenProperties DEF StackSound
    <2>4. frames'[Len(frames)] = t BY <2>1 DEF Top
    <2>5. t.path = frames[Len(frames)].path /\ t.identity = frames[Len(frames)].identity
      BY <1>5 DEF Rewrites, Top
    <2> QED BY <1>1, <2>1, <2>2, <2>3, <2>4, <2>5 DEF SamePaths
  <1> QED BY <1>2, <1>3, <1>4, <1>5 DEF QuietStep

\* The tables of a step that opens nothing grow.
LEMMA QuietGrows ==
    ASSUME LinksSound, hardlinks' = hardlinks, reads \subseteq reads', dependencies \subseteq dependencies'
    PROVE  Grows
  BY DEF Grows, LinksSound

\* The inputs that are left are some of those there were.
InputsLeft == \A i \in DOMAIN inputs' : \E j \in DOMAIN inputs : inputs'[i] = inputs[j]

LEMMA InputsFewer ==
    ASSUME ControlSound,
           inputs' = inputs \/ inputs' = <<>> \/ (inputs # <<>> /\ inputs' = Tail(inputs))
    PROVE  InputsLeft
  <1>1. CASE inputs' = <<>>
    <2>1. DOMAIN inputs' = {} BY <1>1
    <2> QED BY <2>1 DEF InputsLeft
  <1>2. CASE inputs # <<>> /\ inputs' = Tail(inputs)
    <2>1. inputs \in Seq(InputTypes) /\ inputs # <<>> BY <1>2 DEF ControlSound
    <2>2. /\ Len(inputs) \in Nat \ {0} /\ DOMAIN inputs = 1 .. Len(inputs)
      BY <2>1, LenProperties, EmptySeq
    <2>3. /\ Tail(inputs) \in Seq(InputTypes) /\ Len(Tail(inputs)) = Len(inputs) - 1
          /\ \A i \in 1 .. Len(Tail(inputs)) : Tail(inputs)[i] = inputs[i + 1]
      BY <2>1, HeadTailProperties, SMTT(60)
    <2>4. DOMAIN inputs' = 1 .. (Len(inputs) - 1) BY <1>2, <2>3, LenProperties
    <2>5. ASSUME NEW i \in DOMAIN inputs' PROVE \E j \in DOMAIN inputs : inputs'[i] = inputs[j]
      <3>1. i \in 1 .. (Len(inputs) - 1) /\ i + 1 \in DOMAIN inputs BY <2>2, <2>4, <2>5, SMTT(60)
      <3>2. inputs'[i] = inputs[i + 1] BY <1>2, <2>2, <2>3, <3>1
      <3> QED BY <3>1, <3>2
    <2> QED BY <2>5 DEF InputsLeft
  <1> QED BY <1>1, <1>2 DEF InputsLeft

\* A step that touches neither the files read nor the stack above them.
LEMMA LinksQuiet ==
    ASSUME DriverSound, LinksSound, UNCHANGED sourceVars,
           inputs' = inputs \/ inputs' = <<>> \/ (inputs # <<>> /\ inputs' = Tail(inputs)),
           QuietStep \/ Clears \/ \E t : Rewrites(t)
    PROVE  LinksSound' /\ Len(frames') <= Len(frames)
  <1>1. SamePaths /\ Len(frames') <= Len(frames) BY QuietPaths DEF DriverSound
  <1>2. InputsLeft BY InputsFewer DEF DriverSound
  <1>3. Grows /\ once' = once /\ reads' \cap Files \subseteq dependencies'
    BY QuietGrows DEF sourceVars, LinksSound
  <1>4. LinksSound'
    BY <1>1, <1>2, <1>3, LinksGrow DEF SamePaths, DriverSound, InputsLeft
  <1> QED BY <1>1, <1>4

\* #pragma once names the source being read by its identity.
LEMMA LinksPragma ==
    ASSUME DriverSound, LinksSound, frames # <<>>, NEW p, pragma(p), UNCHANGED inputs,
           UNCHANGED <<hardlinks, dependencies, reads, source_bytes>>,
           QuietStep \/ \E t : Rewrites(t)
    PROVE  LinksSound' /\ Len(frames') <= Len(frames)
  <1>1. SamePaths /\ Len(frames') <= Len(frames) BY QuietPaths DEF DriverSound
  <1>2. once' \subseteq once \cup {Top.identity} BY DEF pragma
  <1>3. Identified(Top.path, Top.identity)
    <2>1. Len(frames) \in DOMAIN frames BY TopFrame, LenProperties DEF DriverSound, StackSound
    <2> QED BY <2>1 DEF LinksSound, Top
  <1>4. ASSUME NEW x \in once'
        PROVE  /\ x \in reads' \/ (x \in Files /\ Inode[x] \in {Inode[f] : f \in reads' \cap Files})
               /\ x \in Files /\ Linked(x) => hardlinks'[Inode[x]] = x
    <2>1. CASE x \in once BY <2>1 DEF LinksSound, Inodes
    <2>2. CASE x = Top.identity BY <1>3, <2>2 DEF Identified
    <2> QED BY <1>2, <2>1, <2>2
  <1>5. ASSUME NEW k \in DOMAIN frames'
        PROVE  NamedBy(frames'[k].path, frames'[k].identity, reads', hardlinks')
    <2>1. Identified(frames[k].path, frames[k].identity) BY <1>1 DEF SamePaths, LinksSound
    <2>2. frames'[k].path = frames[k].path /\ frames'[k].identity = frames[k].identity
      BY <1>1 DEF SamePaths
    <2>3. NamedBy(frames[k].path, frames[k].identity, reads', hardlinks')
      BY <2>1 DEF Identified, NamedBy
    <2> QED BY <2>2, <2>3
  <1>6. \A k \in DOMAIN frames' : Identified(frames[k].path, frames[k].identity)'
    BY <1>5 DEF Identified, NamedBy
  <1>7. LinksSound' BY <1>4, <1>6 DEF LinksSound, Inodes
  <1> QED BY <1>1, <1>7

\* Opening a file gives its inode a name, or finds the name it has.
LEMMA OpenGrows ==
    ASSUME IncludesSound, LinksSound, NEW f \in Files, OpenFile(f),
           reads \subseteq reads', dependencies \subseteq dependencies'
    PROVE  Grows /\ (f \in reads' => NamedBy(f, Identity(f), reads', hardlinks'))
  <1>1. /\ hardlinks \in [{Inode[g] : g \in Files} -> Files \cup {None}]
        /\ Inode[f] \in {Inode[g] : g \in Files} /\ f # None
    BY DriverAssumption, MacroAssumption DEF IncludesSound
  <1>2. \A g \in Files : hardlinks[Inode[g]] # None => Inode[hardlinks[Inode[g]]] = Inode[g]
    BY DEF LinksSound
  <1>3. CASE Linked(f) /\ hardlinks[Inode[f]] = None
    <2>1. hardlinks' = [hardlinks EXCEPT ![Inode[f]] = f] /\ Identity(f) = f
      BY <1>3 DEF OpenFile, Identity
    <2>2. hardlinks'[Inode[f]] = f BY <1>1, <2>1
    <2>3. \A g \in Files : Inode[g] # Inode[f] => hardlinks'[Inode[g]] = hardlinks[Inode[g]]
      BY <1>1, <2>1
    <2>4. Grows BY <1>1, <1>2, <1>3, <2>2, <2>3 DEF Grows
    <2> QED BY <2>1, <2>2, <2>4 DEF NamedBy
  <1>4. CASE ~(Linked(f) /\ hardlinks[Inode[f]] = None)
    <2>1. hardlinks' = hardlinks BY <1>4 DEF OpenFile
    <2>2. Grows BY <2>1, QuietGrows
    <2>3. CASE ~Linked(f) BY <2>1, <2>2, <2>3 DEF Identity, NamedBy
    <2>4. CASE Linked(f)
      <3>1. hardlinks[Inode[f]] # None /\ Identity(f) = hardlinks[Inode[f]] BY <1>4, <2>4 DEF Identity
      <3>2. Identity(f) \in Files /\ Inode[Identity(f)] = Inode[f] BY <1>1, <1>2, <3>1
      <3> QED BY <2>1, <2>2, <3>1, <3>2 DEF NamedBy
    <2> QED BY <2>2, <2>3, <2>4
  <1> QED BY <1>3, <1>4

\* A source is entered on top of the others, which keep their names.
LEMMA PushedPaths ==
    ASSUME StackSound, NEW t, Pushes(t), NamedBy(t.path, t.identity, reads', hardlinks')
    PROVE  /\ Top' = t
           /\ \A k \in DOMAIN frames' :
                 \/ NamedBy(frames'[k].path, frames'[k].identity, reads', hardlinks')
                 \/ /\ k \in DOMAIN frames
                    /\ frames'[k].path = frames[k].path /\ frames'[k].identity = frames[k].identity
  <1>1. /\ StackSound' /\ Len(frames') = Len(frames) + 1 /\ Top' = t
        /\ \A k \in 1 .. Len(frames) : frames'[k] = frames[k]
    BY PushesSound
  <1>2. /\ Len(frames) \in Nat /\ DOMAIN frames = 1 .. Len(frames)
        /\ DOMAIN frames' = 1 .. (Len(frames) + 1)
    BY <1>1, LenProperties DEF StackSound
  <1>3. frames'[Len(frames) + 1] = t BY <1>1 DEF Top
  <1> QED BY <1>1, <1>2, <1>3

\* Other names of an inode that executed the pragma are not entered.
LEMMA OnceOfInode ==
    ASSUME LinksSound, NEW f \in Files, f \notin once, Identity(f) \notin once
    PROVE  Inode[f] \notin Inodes(once)
  <1> SUFFICES ASSUME NEW g \in once \cap Files, Inode[g] = Inode[f] PROVE FALSE BY DEF Inodes
  <1>1. g # f OBVIOUS
  <1>2. Linked(f) /\ Linked(g) BY <1>1 DEF Linked
  <1>3. hardlinks[Inode[g]] = g BY <1>2 DEF LinksSound
  <1>4. g # None BY DriverAssumption, MacroAssumption
  <1>5. Identity(f) = g BY <1>2, <1>3, <1>4 DEF Identity
  <1> QED BY <1>5

\* What a step of the sources must leave: the files named, and the pragma honoured.
NotReentered ==
    Len(frames') > Len(frames) /\ ~Top'.main /\ Top'.path \in Files
        => Inode[Top'.path] \notin Inodes(once)

\* file(): under the identity of its inode, and only if that has not executed the pragma.
LEMMA FileLinks ==
    ASSUME DriverSound, LinksSound, NEW f \in Files, NEW system, file(f, system), InputsLeft,
           \/ Keeps
           \/ \E t \in SoundFrames : t.path = f /\ t.identity = Identity(f) /\ Pushes(t)
    PROVE  LinksSound' /\ NotReentered
  <1>1. StackSound /\ IncludesSound /\ Len(frames) \in Nat
    BY LenProperties DEF DriverSound, StackSound
  <1>2. CASE Keeps
    <2>1. SamePaths /\ frames' = frames BY <1>1, <1>2, QuietPaths DEF QuietStep, Keeps
    <2>2. NotReentered BY <1>1, <2>1 DEF NotReentered
    <2>3. once' = once BY DEF file, sourceVars
    <2>4. CASE UNCHANGED sourceVars
      <3>1. Grows /\ reads' \cap Files \subseteq dependencies'
        BY <2>4, QuietGrows DEF sourceVars, LinksSound
      <3> QED BY <1>1, <2>1, <2>2, <2>3, <3>1, LinksGrow DEF SamePaths, InputsLeft
    <2>5. CASE OpenFile(f) /\ reads' = reads /\ dependencies \subseteq dependencies'
      <3>1. Grows BY <1>1, <2>5, OpenGrows
      <3>2. reads' \cap Files \subseteq dependencies' BY <2>5 DEF LinksSound
      <3> QED BY <1>1, <2>1, <2>2, <2>3, <3>1, <3>2, LinksGrow DEF SamePaths, InputsLeft
    <2>6. ASSUME NEW n, EnterSource(Frame(f, Identity(f), FALSE, system, n), n) PROVE FALSE
      <3>1. frames' = Append(frames, Frame(f, Identity(f), FALSE, system, n)) BY <2>6 DEF EnterSource
      <3> QED BY <1>1, <2>1, <3>1 DEF StackSound
    <2> QED BY <2>4, <2>5, <2>6 DEF file
  <1>3. ASSUME NEW t \in SoundFrames, t.path = f, t.identity = Identity(f), Pushes(t)
        PROVE  LinksSound' /\ NotReentered
    <2>1. frames' = Append(frames, t) /\ Len(frames') = Len(frames) + 1 /\ Top' = t
      BY <1>1, <1>3, PushesSound DEF Pushes
    <2>2. frames' # frames BY <1>1, <2>1
    <2>3. /\ f \notin once /\ Identity(f) \notin once /\ OpenFile(f) /\ once' = once
          /\ dependencies' = dependencies \cup {f}
          /\ \E n \in Lengths : EnterSource(Frame(f, Identity(f), FALSE, system, n), n)
      BY <2>2 DEF file
    <2>4. reads' = reads \cup {f} BY <2>3 DEF EnterSource, Frame
    <2>5. Grows /\ NamedBy(f, Identity(f), reads', hardlinks') BY <1>1, <2>3, <2>4, OpenGrows
    <2>6. reads' \cap Files \subseteq dependencies' BY <2>3, <2>4 DEF LinksSound
    <2>7. LinksSound'
      BY <1>1, <1>3, <2>3, <2>5, <2>6, PushedPaths, LinksGrow DEF InputsLeft
    <2>8. NotReentered BY <1>3, <2>1, <2>3, OnceOfInode DEF NotReentered
    <2> QED BY <2>7, <2>8
  <1> QED BY <1>2, <1>3

\* An in-memory source, which no file is named like.
LEMMA MemoryLinks ==
    ASSUME DriverSound, LinksSound, NEW f, f \notin Files, InputsLeft,
           NEW t \in SoundFrames, t.path = f, t.identity = f, Pushes(t),
           reads' = reads \cup {f}, UNCHANGED <<once, hardlinks, dependencies>>
    PROVE  LinksSound' /\ NotReentered
  <1>1. StackSound /\ IncludesSound BY DEF DriverSound
  <1>2. Top' = t BY <1>1, PushesSound
  <1>3. NotReentered BY <1>2 DEF NotReentered
  <1>4. NamedBy(f, f, reads', hardlinks') BY DEF NamedBy
  <1>5. Grows /\ reads' \cap Files \subseteq dependencies' BY QuietGrows DEF LinksSound
  <1>6. LinksSound' BY <1>1, <1>4, <1>5, PushedPaths, LinksGrow DEF InputsLeft
  <1> QED BY <1>3, <1>6

\* A source that is entered is on the stack and among those read.
LEMMA Entering ==
    ASSUME StackSound, NEW path, NEW identity, NEW main, NEW system, NEW n,
           EnterSource(Frame(path, identity, main, system, n), n)
    PROVE  ~Keeps /\ reads' = reads \cup {path}
  <1>1. frames \in Seq(SoundFrames) /\ Len(frames) \in Nat BY LenProperties DEF StackSound
  <1>2. frames' = Append(frames, Frame(path, identity, main, system, n)) /\ reads' = reads \cup {path}
    BY DEF EnterSource, Frame
  <1> DEFINE t == Frame(path, identity, main, system, n)
  <1> HIDE DEF t
  <1>3. Append(frames, t) # frames BY <1>1
  <1> QED BY <1>2, <1>3 DEF Keeps, t

\* The next input of a run.
LEMMA InputLinks ==
    ASSUME NamedApart, DriverSound, LinksSound, NextInput
    PROVE  LinksSound' /\ NotReentered
  <1> DEFINE input == Head(inputs)
  <1>1. StackSound /\ ControlSound /\ IncludesSound /\ inputs # <<>> BY DEF DriverSound, NextInput
  <1>2. InputsLeft BY <1>1, InputsFewer DEF NextInput
  <1>3. 1 \in DOMAIN inputs /\ input = inputs[1]
    <2>1. inputs \in Seq(InputTypes) /\ Len(inputs) \in Nat \ {0} BY <1>1, EmptySeq DEF ControlSound
    <2> QED BY <2>1, LenProperties, HeadTailProperties
  <1>4. /\ input.kind = "forced" => input.path \notin Files
        /\ input.kind = "str" => input.path \notin Files
        /\ input.kind \in {"header", "main"} => input.path \in Files
    <2>1. input \in InputTypes BY NextInputSound
    <2>2. input.kind = "str" => input.path \notin Files BY <1>3 DEF LinksSound
    <2> QED BY <2>1, <2>2 DEF InputTypes, NamedApart
  <1>5. \/ Keeps
        \/ \E t \in SoundFrames :
             /\ t.path = input.path /\ Pushes(t)
             /\ t.main <=> input.kind \in {"str", "main"}
             /\ \/ input.kind \in {"forced", "str"} /\ t.identity = input.path
                \/ input.kind \in {"header", "main"} /\ t.identity = Identity(input.path)
    BY NextInputSound
  <1>6. CASE UNCHANGED <<sourceVars, frames, documentation_system>>
    <2>1. QuietStep BY <1>6 DEF QuietStep, Keeps
    <2>2. Len(frames') <= Len(frames) /\ LinksSound' BY <1>6, <2>1, LinksQuiet DEF NextInput
    <2>3. Len(frames) \in Nat /\ Len(frames') = Len(frames) BY <1>1, <1>6, LenProperties DEF StackSound
    <2> QED BY <2>2, <2>3 DEF NotReentered
  <1>7. CASE /\ input.kind \in {"forced", "str"}
             /\ \E n \in Lengths :
                  EnterSource(Frame(input.path, input.path, input.kind = "str", FALSE, n), n)
             /\ UNCHANGED <<once, hardlinks, dependencies>>
    <2> HIDE DEF input
    <2>1. ~Keeps /\ reads' = reads \cup {input.path} BY <1>1, <1>7, Entering
    <2>2. PICK t \in SoundFrames : t.path = input.path /\ t.identity = input.path /\ Pushes(t)
      BY <1>5, <1>7, <2>1
    <2>3. input.path \notin Files BY <1>4, <1>7
    <2> QED BY <1>2, <1>7, <2>1, <2>2, <2>3, MemoryLinks
  <1>8. CASE input.kind = "header" /\ file(input.path, input.path \in SystemFiles)
    <2> HIDE DEF input
    <2>1. \/ Keeps
          \/ \E t \in SoundFrames : t.path = input.path /\ t.identity = Identity(input.path) /\ Pushes(t)
      BY <1>5, <1>8
    <2>2. input.path \in Files BY <1>4, <1>8
    <2> QED BY <1>2, <1>8, <2>1, <2>2, FileLinks
  <1>9. CASE /\ input.kind = "main"
             /\ \E n \in Lengths :
                  EnterSource(Frame(input.path, Identity(input.path), TRUE, FALSE, n), n)
             /\ UNCHANGED <<once, hardlinks, dependencies>>
    <2>1. /\ input.path \in dependencies
          /\ Linked(input.path) => hardlinks[Inode[input.path]] # None
      BY <1>3, <1>9 DEF LinksSound
    <2> HIDE DEF input
    <2>2. input.path \in Files BY <1>4, <1>9
    <2>3. ~Keeps /\ reads' = reads \cup {input.path} BY <1>1, <1>9, Entering
    <2>4. PICK t \in SoundFrames :
            t.path = input.path /\ t.identity = Identity(input.path) /\ t.main /\ Pushes(t)
      BY <1>5, <1>9, <2>3
    <2>5. NamedBy(input.path, Identity(input.path), reads', hardlinks')
      <3>1. CASE ~Linked(input.path) BY <1>9, <2>3, <3>1 DEF Identity, NamedBy
      <3>2. CASE Linked(input.path)
        <4>1. Identity(input.path) = hardlinks[Inode[input.path]] /\ hardlinks[Inode[input.path]] # None
          BY <2>1, <3>2 DEF Identity
        <4>2. Identity(input.path) \in Files BY <1>1, <2>2, IdentityType
        <4>3. Inode[Identity(input.path)] = Inode[input.path] BY <2>2, <4>1 DEF LinksSound
        <4> QED BY <1>9, <2>2, <2>3, <4>1, <4>2, <4>3 DEF NamedBy
      <3> QED BY <3>1, <3>2
    <2>6. Grows /\ reads' \cap Files \subseteq dependencies' /\ once' = once
      BY <1>9, <2>1, <2>3, QuietGrows DEF LinksSound
    <2>7. LinksSound' BY <1>1, <1>2, <2>4, <2>5, <2>6, PushedPaths, LinksGrow DEF InputsLeft
    <2>8. NotReentered BY <1>1, <2>4, PushesSound DEF NotReentered
    <2> QED BY <2>7, <2>8
  <1> QED BY <1>6, <1>7, <1>8, <1>9 DEF NextInput

\* An #include.
LEMMA IncludeLinks ==
    ASSUME NamedApart, DriverSound, LinksSound, ExecInclude
    PROVE  LinksSound' /\ NotReentered
  <1>1. StackSound /\ ControlSound /\ IncludesSound BY DEF DriverSound
  <1>2. InputsLeft BY <1>1, InputsFewer DEF ExecInclude, Executed
  <1>3. \/ Keeps
        \/ \E t \in SoundFrames :
             /\ t.path = line.target /\ Pushes(t)
             /\ \/ line.target \in Files /\ t.identity = Identity(line.target)
                \/ line.target \in Virtual /\ t.identity = line.target
    BY IncludeSound
  <1>4. line.target \in Files => line.target \notin Virtual BY DEF NamedApart
  <1>5. CASE UNCHANGED <<sourceVars, frames, documentation_system>>
    <2>1. QuietStep BY <1>5 DEF QuietStep, Keeps
    <2>2. inputs' = inputs BY DEF ExecInclude, Executed
    <2>3. Len(frames') <= Len(frames) /\ LinksSound' BY <1>5, <2>1, <2>2, LinksQuiet
    <2>4. Len(frames) \in Nat /\ Len(frames') = Len(frames) BY <1>1, <1>5, LenProperties DEF StackSound
    <2> QED BY <2>3, <2>4 DEF NotReentered
  <1>6. CASE line.target \in Files /\ file(line.target, line.target \in SystemFiles \/ Top.system)
    <2>1. \/ Keeps
          \/ \E t \in SoundFrames : t.path = line.target /\ t.identity = Identity(line.target) /\ Pushes(t)
      BY <1>3, <1>4, <1>6
    <2> QED BY <1>2, <1>6, <2>1, FileLinks
  <1>7. CASE /\ line.target \in Virtual
             /\ \E n \in Lengths : EnterSource(Frame(line.target, line.target, FALSE, TRUE, n), n)
             /\ UNCHANGED <<once, hardlinks, dependencies>>
    <2>1. ~Keeps /\ reads' = reads \cup {line.target} BY <1>1, <1>7, Entering
    <2>2. PICK t \in SoundFrames : t.path = line.target /\ t.identity = line.target /\ Pushes(t)
      BY <1>3, <1>4, <1>7, <2>1
    <2> QED BY <1>2, <1>4, <1>7, <2>1, <2>2, MemoryLinks
  <1> QED BY <1>5, <1>6, <1>7 DEF ExecInclude

LEMMA NotLonger ==
    ASSUME StackSound, StackSound', Len(frames') <= Len(frames)
    PROVE  NotReentered
  BY LenProperties DEF StackSound, NotReentered

LEMMA StepLinks ==
    ASSUME NamedApart, DriverSound, LinksSound, Step
    PROVE  LinksSound' /\ NotReentered
  <1>1. StackSound /\ StackSound' BY StepControl DEF DriverSound
  <1>2. CASE NextInput \/ ExecInclude BY <1>2, InputLinks, IncludeLinks
  <1>3. CASE /\ UNCHANGED sourceVars /\ (inputs' = inputs \/ inputs' = <<>>)
             /\ (QuietStep \/ Clears \/ \E t : Rewrites(t))
    BY <1>1, <1>3, LinksQuiet, NotLonger
  <1>4. CASE Finish \/ EndOfFile \/ FlushDone
    <2>1. QuietStep BY <1>4, FinishSound, EndOfFileSound, FlushDoneSound DEF QuietStep
    <2>2. UNCHANGED sourceVars /\ inputs' = inputs BY <1>4 DEF Finish, EndOfFile, FlushDone
    <2> QED BY <1>3, <2>1, <2>2
  <1>5. CASE ReadLine \/ FlushText
    <2>1. \E t : Rewrites(t) BY <1>5, ReadLineSound, FlushTextSound
    <2>2. UNCHANGED sourceVars /\ inputs' = inputs BY <1>5 DEF ReadLine, FlushText
    <2> QED BY <1>3, <2>1, <2>2
  <1>6. CASE FlushPragma
    <2>1. frames # <<>> /\ \E t : Rewrites(t) BY <1>6, FlushPragmaSound
    <2>2. LinksSound' /\ Len(frames') <= Len(frames) BY <1>6, <2>1, LinksPragma DEF FlushPragma
    <2> QED BY <1>1, <2>2, NotLonger
  <1>7. CASE If \/ Elif \/ ExecPragma
    <2>1. QuietStep BY <1>7, IfSound, ElifSound, PlainSound
    <2>2. /\ UNCHANGED inputs /\ frames # <<>>
          /\ UNCHANGED <<hardlinks, dependencies, reads, source_bytes>>
      BY <1>7 DEF If, Elif, ExecPragma, Executed, Executing, DriverSound, ControlSound
    <2>3. CASE pragma(line.pragma) BY <1>1, <2>1, <2>2, <2>3, LinksPragma, NotLonger
    <2>4. CASE UNCHANGED once BY <1>3, <2>1, <2>2, <2>4 DEF sourceVars
    <2> QED BY <1>7, <2>3, <2>4 DEF If, Elif, ExecPragma, condition
  <1>8. CASE Ifdef \/ SkippedIf \/ Else \/ Endif \/ Ignored \/ ExecDefine \/ ExecUndef
               \/ ExecLine \/ ExecMarker \/ LeaveSource
    <2>1. QuietStep BY <1>8, IfSound, ElifSound, EndifSound, PlainSound, MarkerSound, LeaveSound
    <2>2. UNCHANGED sourceVars /\ inputs' = inputs
      BY <1>8 DEF Ifdef, SkippedIf, Else, Endif, Ignored, ExecDefine, ExecUndef, ExecLine, ExecMarker,
                  LeaveSource, Executed
    <2> QED BY <1>3, <2>1, <2>2
  <1>9. CASE Failure
    <2>1. Clears BY <1>9, UnwindSound DEF Failure
    <2>2. UNCHANGED sourceVars /\ inputs' = <<>> BY <1>9 DEF Failure, Unwind
    <2> QED BY <1>3, <2>1, <2>2
  <1> QED BY <1>2, <1>4, <1>5, <1>6, <1>7, <1>8, <1>9, StepKinds DEF Shown, Directive

\* The inputs of a run: the main source, if any, is the last and is what the job names.
LEMMA InputKinds ==
    ASSUME NEW job \in Jobs, NEW i \in DOMAIN Inputs(job)
    PROVE  /\ Inputs(job)[i].kind \in {"forced", "header", job.kind}
           /\ Inputs(job)[i].kind \in {"str", "main"} =>
                 Inputs(job)[i].path = job.main /\ Inputs(job)[i].kind = job.kind
  <1> DEFINE a == [j \in 1..Len(job.forced) |-> [kind |-> "forced", path |-> job.forced[j], job |-> job.name]]
             b == [j \in 1..Len(job.headers) |-> [kind |-> "header", path |-> job.headers[j], job |-> job.name]]
             c == <<[kind |-> job.kind, path |-> job.main, job |-> job.name]>>
             Fits(x) == /\ x.kind \in {"forced", "header", job.kind}
                        /\ x.kind \in {"str", "main"} => x.path = job.main /\ x.kind = job.kind
  <1>1. JobFields(job) BY InputAssumption
  <1>2. a \in Seq({x \in {a[j] : j \in 1 .. Len(job.forced)} : Fits(x)})
    <2>1. Len(job.forced) \in Nat BY <1>1, LenProperties DEF JobFields
    <2>2. \A j \in 1 .. Len(job.forced) : Fits(a[j]) OBVIOUS
    <2>3. a = [j \in 1 .. Len(job.forced) |-> a[j]] OBVIOUS
    <2> HIDE DEF a, Fits
    <2>4. a \in [1 .. Len(job.forced) -> {x \in {a[j] : j \in 1 .. Len(job.forced)} : Fits(x)}] BY <2>2, <2>3
    <2> QED BY <2>1, <2>4
  <1>3. b \in Seq({x \in {b[j] : j \in 1 .. Len(job.headers)} : Fits(x)})
    <2>1. Len(job.headers) \in Nat BY <1>1, LenProperties DEF JobFields
    <2>2. \A j \in 1 .. Len(job.headers) : Fits(b[j]) OBVIOUS
    <2>3. b = [j \in 1 .. Len(job.headers) |-> b[j]] OBVIOUS
    <2> HIDE DEF b, Fits
    <2>4. b \in [1 .. Len(job.headers) -> {x \in {b[j] : j \in 1 .. Len(job.headers)} : Fits(x)}] BY <2>2, <2>3
    <2> QED BY <2>1, <2>4
  <1>4. Len(c) = 1 /\ Fits(c[1]) /\ c \in Seq({c[1]}) OBVIOUS
  <1>5. /\ DOMAIN a = 1 .. Len(a) /\ Len(a) \in Nat /\ \A j \in 1 .. Len(a) : Fits(a[j])
        /\ DOMAIN b = 1 .. Len(b) /\ Len(b) \in Nat /\ \A j \in 1 .. Len(b) : Fits(b[j])
    <2> HIDE DEF a, b, Fits
    <2> QED BY <1>2, <1>3, LenProperties, ElementOfSeq
  <1> DEFINE S == {x \in {a[j] : j \in 1 .. Len(a)} \cup {b[j] : j \in 1 .. Len(b)} \cup {c[1]} : Fits(x)}
  <1> HIDE DEF a, b, c, Fits
  <1>6. a \in Seq(S) /\ b \in Seq(S) /\ c \in Seq(S)
    <2>1. \A j \in 1 .. Len(a) : a[j] \in S BY <1>5
    <2>2. \A j \in 1 .. Len(b) : b[j] \in S BY <1>5
    <2>3. c[1] \in S BY <1>4
    <2> HIDE DEF S
    <2>4. a \in Seq(S) BY <1>2, <1>5, <2>1
    <2>5. b \in Seq(S) BY <1>3, <1>5, <2>2
    <2>6. c \in Seq(S) BY <1>4, <2>3
    <2> QED BY <2>4, <2>5, <2>6
  <1>7. (a \o b) \o c \in Seq(S) BY <1>6, ConcatProperties
  <1>8. Inputs(job) = (a \o b) \o c BY DEF Inputs, a, b, c
  <1>9. Inputs(job)[i] \in S
    <2> HIDE DEF S
    <2> QED BY <1>7, <1>8, LenProperties, ElementOfSeq
  <1>10. Fits(Inputs(job)[i]) BY <1>9
  <1> QED BY <1>10 DEF Fits

\* A run that starts has read and remembered nothing, and has opened its main file.
LEMMA EntryLinks ==
    ASSUME NamedApart, DriverSound, NEW job \in Jobs, Preprocess(job) \/ PreprocessError(job)
    PROVE  LinksSound' /\ NotReentered
  <1>1. /\ once' = {} /\ reads' = {} /\ frames' = <<>> /\ Len(<<>>) = 0 /\ DOMAIN <<>> = {}
        /\ StackSound /\ StackSound'
    <2>1. StackSound /\ StackSound' /\ frames' = <<>> BY EntrySound DEF Settled, DriverSound
    <2>2. once' = {} /\ reads' = {} BY DEF Preprocess, PreprocessError, ResetRun
    <2> QED BY <2>1, <2>2, EmptySeq
  <1>2. NotReentered BY <1>1, LenProperties, NotLonger DEF StackSound
  <1>3. JobFields(job) BY InputAssumption
  <1>4. \A f \in Files : hardlinks'[Inode[f]] # None => Inode[hardlinks'[Inode[f]]] = Inode[f]
    BY <1>3 DEF Preprocess, PreprocessError, NoLinks, JobFields
  <1>5. ASSUME NEW i \in DOMAIN inputs'
        PROVE  /\ inputs'[i].kind = "str" => inputs'[i].path \notin Files
               /\ inputs'[i].kind = "main" =>
                     /\ inputs'[i].path \in dependencies'
                     /\ Linked(inputs'[i].path) => hardlinks'[Inode[inputs'[i].path]] # None
    <2>1. CASE PreprocessError(job) BY <1>1, <1>5, <2>1 DEF PreprocessError
    <2>2. CASE Preprocess(job)
      <3>1. /\ inputs'[i].kind \in {"forced", "header", job.kind}
            /\ inputs'[i].kind \in {"str", "main"} =>
                  inputs'[i].path = job.main /\ inputs'[i].kind = job.kind
        BY <1>5, <2>2, InputKinds DEF Preprocess
      <3>2. inputs'[i].kind = "str" => inputs'[i].path \notin Files BY <3>1 DEF NamedApart
      <3>3. ASSUME inputs'[i].kind = "main"
            PROVE  /\ inputs'[i].path \in dependencies'
                   /\ Linked(inputs'[i].path) => hardlinks'[Inode[inputs'[i].path]] # None
        <4>1. job.kind = "main" /\ inputs'[i].path = job.main /\ job.main \in Files
          BY <1>3, <3>1, <3>3 DEF JobFields
        <4>2. dependencies' = {job.main} /\ job.main # None
          BY <2>2, <4>1, DriverAssumption, MacroAssumption DEF Preprocess
        <4>3. ASSUME Linked(job.main) PROVE hardlinks'[Inode[job.main]] = job.main
          BY <2>2, <4>1, <4>3 DEF Preprocess, NoLinks
        <4> QED BY <4>1, <4>2, <4>3
      <3> QED BY <3>2, <3>3
    <2> QED BY <2>1, <2>2
  <1>6. LinksSound' BY <1>1, <1>4, <1>5 DEF LinksSound
  <1> QED BY <1>2, <1>6

LEMMA NextLinks ==
    ASSUME NamedApart, PreprocessorInv, LinksSound, [Next]_vars
    PROVE  LinksSound' /\ NotReentered
  <1>1. DriverSound /\ StackSound /\ StackSound' BY NextDriver DEF PreprocessorInv, DriverSound
  <1>2. CASE Step BY <1>1, <1>2, StepLinks
  <1>3. CASE Entry BY <1>1, <1>3, EntryLinks DEF Entry
  <1>4. CASE InputError
    <2>1. Clears /\ UNCHANGED sourceVars /\ inputs' = <<>>
      BY <1>1, <1>4, UnwindSound DEF InputError, Fail, Unwind
    <2> QED BY <1>1, <2>1, LinksQuiet, NotLonger
  <1>5. CASE UNCHANGED vars
    <2>1. QuietStep /\ UNCHANGED sourceVars /\ inputs' = inputs
      BY <1>5 DEF vars, controlVars, QuietStep, Keeps
    <2> QED BY <1>1, <2>1, LinksQuiet, NotLonger
  <1> QED BY <1>2, <1>3, <1>4, <1>5 DEF Next

LEMMA InitLinks == Init => LinksSound
  BY EmptySeq DEF Init, LinksSound, NoLinks, Inodes

\* When no in-memory source is named like a file: a file is entered by inclusion
\* under no name of an inode that has executed #pragma once in this run, what
\* suppresses it was read in this run, and every file read is a dependency.
THEOREM IncludesHold == NamedApart => (Spec => IncludesExact)
  <1> SUFFICES ASSUME NamedApart PROVE Spec => IncludesExact OBVIOUS
  <1> DEFINE Inv == PreprocessorInv /\ LinksSound
             Honoured == (Len(frames') > Len(frames) /\ ~frames'[Len(frames')].main
                            /\ frames'[Len(frames')].path \in Files)
                           => Inode[frames'[Len(frames')].path] \notin Inodes(once)
  <1>1. Init => Inv BY InitInvariant, InitLinks
  <1>2. Inv /\ [Next]_vars => Inv' BY NextInvariant, NextLinks
  <1>3. Inv => OnceOnlyAfterRead /\ DependenciesComplete
    BY DEF LinksSound, OnceOnlyAfterRead, DependenciesComplete
  <1>4. Inv /\ [Next]_vars => [Honoured]_vars
    BY NextLinks DEF NotReentered, Top
  <1> QED BY <1>1, <1>2, <1>3, <1>4, PTL DEF Spec, IncludesExact, OnceHonoured

=============================================================================
