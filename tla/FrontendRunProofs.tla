------------------------- MODULE FrontendRunProofs -------------------------
(***************************************************************************)
(* Proofs about FrontendRun, for any commands, macros and raw lines.       *)
(***************************************************************************)
EXTENDS FrontendRun, FiniteSetTheorems, SequenceTheorems, TLAPS

Steps == BodySteps \union MainSteps

-----------------------------------------------------------------------------
(* The steps of commands and sessions.                                      *)

\* The steps of each macro are three, in this order.
LEMMA MacroStepsShape ==
    ASSUME NEW n \in Nat
    PROVE  /\ MacroSteps(n) \in Seq(Steps) /\ Len(MacroSteps(n)) = 3 * n
           /\ \A i \in 1 .. 3 * n : /\ MacroSteps(n)[i] \in {"macro", "evaluate", "record"}
                                    /\ MacroSteps(n)[i] = "macro" <=> i % 3 = 1
                                    /\ MacroSteps(n)[i] = "evaluate" <=> i % 3 = 2
  <1>1. 3 * n \in Nat OBVIOUS
  <1>2. \A i \in 1 .. 3 * n : MacroSteps(n)[i] = CASE i % 3 = 1 -> "macro" [] i % 3 = 2 -> "evaluate" [] OTHER -> "record"
    BY DEF MacroSteps
  <1>3. \A i \in 1 .. 3 * n : MacroSteps(n)[i] \in Steps
    BY <1>2 DEF Steps, BodySteps
  <1>4. MacroSteps(n) \in [1 .. 3 * n -> Steps]
    BY <1>3 DEF MacroSteps
  <1>5. MacroSteps(n) \in Seq(Steps) /\ Len(MacroSteps(n)) = 3 * n
    BY <1>1, <1>4
  <1> QED BY <1>2, <1>5

\* A job of the model.
LEMMA JobShape ==
    ASSUME NEW job \in RunJobs
    PROVE  /\ job.command \in Commands /\ job.report \in BOOLEAN /\ job.deny \in BOOLEAN
           /\ job.raw \in Seq(RawLines) /\ job.selects_all \in BOOLEAN /\ job.macros \in Seq(Macros)
           /\ job # NoJob
  <1>1. job.command \in Commands /\ job.report \in BOOLEAN /\ job.deny \in BOOLEAN
        /\ job.raw \in Seq(RawLines) /\ job.selects_all \in BOOLEAN /\ job.macros \in Seq(Macros)
    BY RunAssumption
  <1>2. NoJob.command = "none"
    BY DEF NoJob
  <1> QED BY <1>1, <1>2 DEF Commands

\* What a session does besides nested sessions.
LEMMA BodyShape ==
    ASSUME NEW session \in Sessions, NEW job \in RunJobs
    PROVE  /\ Body(job, session) \in Seq(Steps)
           /\ \A i \in DOMAIN Body(job, session) :
                /\ Body(job, session)[i] \in BodySteps
                /\ Body(job, session)[i] \in {"macro", "evaluate", "record"} => session = "bindings"
                /\ Body(job, session)[i] = "counts" => session = "binding_parts"
  <1>1. CASE session = "bindings"
    <2> DEFINE n == Len(job.macros)
    <2>1. n \in Nat BY JobShape
    <2>2. Body(job, session) = Append(MacroSteps(n), "emit")
      BY <1>1 DEF Body
    <2>3. MacroSteps(n) \in Seq(Steps) /\ Len(MacroSteps(n)) = 3 * n
          /\ \A i \in 1 .. 3 * n : MacroSteps(n)[i] \in {"macro", "evaluate", "record"}
      BY <2>1, MacroStepsShape
    <2> HIDE DEF n
    <2>4. Body(job, session) \in Seq(Steps) /\ Len(Body(job, session)) = 3 * n + 1
      BY <2>1, <2>2, <2>3 DEF Steps, BodySteps
    <2>5. \A i \in 1 .. 3 * n + 1 : Body(job, session)[i] = IF i <= 3 * n THEN MacroSteps(n)[i] ELSE "emit"
      BY <2>1, <2>2, <2>3
    <2>6. \A i \in DOMAIN Body(job, session) : Body(job, session)[i] \in {"macro", "evaluate", "record", "emit"}
      BY <2>1, <2>3, <2>4, <2>5
    <2> QED BY <1>1, <2>4, <2>6 DEF BodySteps
  <1>2. CASE session # "bindings"
    <2>1. Body(job, session) \in {<<"do_preprocess">>, <<"preprocess", "analyze">>, <<"parse", "check">>, <<"do_parse">>,
                             <<"parse", "do_evaluate">>, <<"counts", "emit">>}
      BY <1>2 DEF Body, Sessions
    <2>2. Body(job, session) = <<"counts", "emit">> => session = "binding_parts"
      BY <1>2 DEF Body, Sessions
    <2>3. CASE Body(job, session) = <<"do_preprocess">> BY <2>3, <1>2 DEF Steps, BodySteps, MainSteps
    <2>4. CASE Body(job, session) = <<"preprocess", "analyze">> BY <2>4, <1>2 DEF Steps, BodySteps, MainSteps
    <2>5. CASE Body(job, session) = <<"parse", "check">> BY <2>5, <1>2 DEF Steps, BodySteps, MainSteps
    <2>6. CASE Body(job, session) = <<"do_parse">> BY <2>6, <1>2 DEF Steps, BodySteps, MainSteps
    <2>7. CASE Body(job, session) = <<"parse", "do_evaluate">> BY <2>7, <1>2 DEF Steps, BodySteps, MainSteps
    <2>8. CASE Body(job, session) = <<"counts", "emit">> BY <2>8, <2>2, <1>2 DEF Steps, BodySteps, MainSteps
    <2> QED BY <2>1, <2>3, <2>4, <2>5, <2>6, <2>7, <2>8
  <1> QED BY <1>1, <1>2

\* The macros come first, three steps each, then the emission.
LEMMA BindingsBody ==
    ASSUME NEW job \in RunJobs, NEW n, n = Len(job.macros)
    PROVE  /\ n \in Nat /\ Len(Body(job, "bindings")) = 3 * n + 1 /\ Body(job, "bindings")[3 * n + 1] = "emit"
           /\ \A i \in 1 .. 3 * n : /\ Body(job, "bindings")[i] \in {"macro", "evaluate", "record"}
                                    /\ Body(job, "bindings")[i] = "macro" <=> i % 3 = 1
                                    /\ Body(job, "bindings")[i] = "evaluate" <=> i % 3 = 2
  <1>1. n \in Nat BY JobShape
  <1>2. Body(job, "bindings") = Append(MacroSteps(n), "emit")
    BY DEF Body
  <1>3. MacroSteps(n) \in Seq(Steps) /\ Len(MacroSteps(n)) = 3 * n
    BY <1>1, MacroStepsShape
  <1>4. Len(Body(job, "bindings")) = 3 * n + 1 /\ Body(job, "bindings")[3 * n + 1] = "emit"
    BY <1>1, <1>2, <1>3
  <1>5. \A i \in 1 .. 3 * n : Body(job, "bindings")[i] = MacroSteps(n)[i]
    BY <1>1, <1>2, <1>3
  <1> QED BY <1>1, <1>4, <1>5, MacroStepsShape, ZenonT(60)

\* What a command does, step by step from its end.
LEMMA ProgramShape ==
    ASSUME NEW job \in RunJobs, NEW p, p = Program(job), NEW l, l = Len(p)
    PROVE  /\ p \in Seq(Steps) /\ l \in 2 .. 9
           /\ job.command \in {"preprocess", "inspect"} =>
                p[l] = "write" /\ \A i \in 1 .. l - 1 : p[i] \in {"config", "preprocess", "parse_file", "serialize"}
           /\ job.command = "check" => \A i \in 1 .. l : p[i] \in {"config", "parse_file"}
           /\ job.command = "bindgen" /\ ~ job.report =>
                /\ l = 6 /\ p[6] = "write" /\ p[5] = "deny" /\ p[4] = "bindings"
                /\ \A i \in 1 .. 3 : p[i] \in {"policies", "config", "parse_file"}
           /\ job.command = "bindgen" /\ job.report =>
                /\ l = 7 /\ p[7] = "write" /\ p[6] = "deny" /\ p[5] = "report" /\ p[4] = "bindings"
                /\ \A i \in 1 .. 3 : p[i] \in {"policies", "config", "parse_file"}
           /\ job.command = "builder" =>
                /\ l = 9 /\ p[9] = "declarations" /\ p[8] = "raw" /\ p[7] = "banner" /\ p[6] = "create" /\ p[5] = "binding_parts"
                /\ \A i \in 1 .. 4 : p[i] \in {"setters", "config", "parse_file", "select"}
  <1>1. job.command \in Commands /\ job.report \in BOOLEAN BY JobShape
  <1>2. CASE job.command = "preprocess"
    <2>1. p = <<"config", "preprocess", "write">> BY <1>2 DEF Program
    <2> QED BY <1>2, <2>1 DEF Steps, BodySteps, MainSteps
  <1>3. CASE job.command = "inspect"
    <2>1. p = <<"config", "parse_file", "serialize", "write">> BY <1>3 DEF Program
    <2> QED BY <1>3, <2>1 DEF Steps, BodySteps, MainSteps
  <1>4. CASE job.command = "check"
    <2>1. p = <<"config", "parse_file">> BY <1>4 DEF Program
    <2> QED BY <1>4, <2>1 DEF Steps, BodySteps, MainSteps
  <1>5. CASE job.command = "bindgen" /\ ~ job.report
    <2>1. p = <<"policies", "config", "parse_file", "bindings">> \o <<>> \o <<"deny", "write">> BY <1>5 DEF Program
    <2> QED BY <1>5, <2>1 DEF Steps, BodySteps, MainSteps
  <1>6. CASE job.command = "bindgen" /\ job.report
    <2>1. p = <<"policies", "config", "parse_file", "bindings">> \o <<"report">> \o <<"deny", "write">> BY <1>6 DEF Program
    <2> QED BY <1>6, <2>1 DEF Steps, BodySteps, MainSteps
  <1>7. CASE job.command = "builder"
    <2>1. p = <<"setters", "config", "parse_file", "select", "binding_parts", "create", "banner", "raw", "declarations">>
      BY <1>7 DEF Program
    <2> QED BY <1>7, <2>1 DEF Steps, BodySteps, MainSteps
  <1> QED BY <1>1, <1>2, <1>3, <1>4, <1>5, <1>6, <1>7 DEF Commands

-----------------------------------------------------------------------------
(* Frames.                                                                  *)

\* Some first steps are done: what is left is still the end.
LEMMA EndKept ==
    ASSUME NEW all \in Seq(Steps), NEW steps \in Seq(Steps), EndOf(steps, all), NEW n \in 0 .. Len(steps),
           NEW rest, rest = SubSeq(steps, n + 1, Len(steps))
    PROVE  rest \in Seq(Steps) /\ Len(rest) = Len(steps) - n /\ EndOf(rest, all)
  <1>1. /\ rest \in Seq(Steps) /\ Len(rest) = Len(steps) - n /\ DOMAIN rest = 1 .. Len(steps) - n
        /\ Len(all) \in Nat /\ Len(steps) \in Nat
    OBVIOUS
  <1>2. \A i \in 1 .. Len(steps) - n : rest[i] = steps[n + i]
    OBVIOUS
  <1>3. \A i \in 1 .. Len(steps) : steps[i] = all[Len(all) - Len(steps) + i]
    BY DEF EndOf
  <1>4. ASSUME NEW i \in 1 .. Len(steps) - n
        PROVE  rest[i] = all[Len(all) - Len(rest) + i]
    <2>0. PICK a, l : a = Len(all) /\ l = Len(steps)
      OBVIOUS
    <2>1. a \in Nat /\ l \in Nat /\ n \in 0 .. l /\ i \in 1 .. l - n /\ Len(rest) = l - n
      BY <1>1, <2>0
    <2>2. n + i \in 1 .. l /\ a - l + (n + i) = a - (l - n) + i
      BY <2>1
    <2> QED BY <1>2, <1>3, <2>0, <2>1, <2>2
  <1>5. Len(rest) <= Len(all)
    BY <1>1 DEF EndOf
  <1> QED BY <1>1, <1>4, <1>5 DEF EndOf

\* The whole is its own end.
LEMMA EndWhole == ASSUME NEW all \in Seq(Steps) PROVE EndOf(all, all)
  BY DEF EndOf

LEMMA StepsType == Seq(BodySteps \union MainSteps) = Seq(Steps)
  BY DEF Steps

\* Steps of the frame on top are done.
Advances(fs, n) ==
    /\ frames # <<>> /\ n \in 0 .. Len(Top.steps)
    /\ fs = Advanced(n)
LEMMA AdvanceShape ==
    ASSUME frames \in Seq(FrameType), NEW fs, NEW n, Advances(fs, n), NEW top, top = Len(frames)
    PROVE  /\ top \in Nat \ {0} /\ fs \in Seq(FrameType) /\ Len(fs) = top
           /\ \A i \in 1 .. top - 1 : fs[i] = frames[i]
           /\ frames[top] \in FrameType
           /\ fs[top].session = frames[top].session /\ fs[top].thread = frames[top].thread
           /\ fs[top].spawned = frames[top].spawned
           /\ fs[top].steps = SubSeq(frames[top].steps, n + 1, Len(frames[top].steps))
  <1>1. top \in Nat \ {0} /\ frames[top] \in FrameType
    BY DEF Advances
  <1>2. frames[top].steps \in Seq(Steps)
    BY <1>1 DEF FrameType, Steps
  <1>3. n \in 0 .. Len(frames[top].steps)
    BY DEF Advances, Top
  <1>4. PICK rest : rest = SubSeq(frames[top].steps, n + 1, Len(frames[top].steps))
    OBVIOUS
  <1>5. rest \in Seq(Steps)
    BY <1>2, <1>3, <1>4
  <1>6. fs = [frames EXCEPT ![top] = [frames[top] EXCEPT !.steps = rest]]
    BY <1>1, <1>4 DEF Advances, Advanced
  <1>7. PICK f : f = [frames[top] EXCEPT !.steps = rest]
    OBVIOUS
  <1>8. f \in FrameType /\ f.session = frames[top].session /\ f.thread = frames[top].thread
        /\ f.spawned = frames[top].spawned /\ f.steps = rest
    BY <1>1, <1>5, <1>7 DEF FrameType, Steps
  <1>9. fs = [frames EXCEPT ![top] = f]
    BY <1>6, <1>7
  <1> QED BY <1>1, <1>4, <1>8, <1>9

-----------------------------------------------------------------------------
(* Where a step runs.                                                       *)

\* The next step of an end.
LEMMA NextOfEnd ==
    ASSUME NEW all \in Seq(Steps), NEW steps \in Seq(Steps), EndOf(steps, all), Len(steps) # 0, NEW l, l = Len(all)
    PROVE  /\ l \in Nat /\ Len(steps) \in Nat /\ Len(steps) <= l /\ l - Len(steps) + 1 \in 1 .. l
           /\ steps[1] = all[l - Len(steps) + 1]
  <1>1. l \in Nat /\ Len(steps) \in Nat /\ Len(steps) # 0 /\ DOMAIN steps = 1 .. Len(steps)
    OBVIOUS
  <1>2. Len(steps) <= l /\ \A i \in 1 .. Len(steps) : steps[i] = all[l - Len(steps) + i]
    BY <1>1 DEF EndOf
  <1>3. 1 \in 1 .. Len(steps)
    BY <1>1
  <1> QED BY <1>1, <1>2, <1>3

LEMMA RunningTop ==
    ASSUME RunInv, NEW x, Running(x), NEW top, top = Len(frames)
    PROVE  /\ frames # <<>> /\ top \in Nat \ {0} /\ frames[top] \in FrameType /\ frames[top].steps \in Seq(Steps)
           /\ Len(frames[top].steps) \in Nat \ {0} /\ frames[top].steps[1] = x
           /\ unwinding = "no" /\ exit = "running" /\ runJob \in RunJobs
  <1>1. frames \in Seq(FrameType) /\ frames # <<>> /\ unwinding = "no" /\ exit = "running"
    BY DEF RunInv, RunTypes, Running
  <1>2. top \in Nat \ {0} /\ frames[top] \in FrameType
    BY <1>1
  <1>3. frames[top].steps \in Seq(Steps)
    BY <1>2 DEF FrameType, Steps
  <1>4. frames[top].steps # <<>> /\ Head(frames[top].steps) = x
    BY DEF Running, Top, Step
  <1>5. Len(frames[top].steps) \in Nat \ {0} /\ frames[top].steps[1] = x
    BY <1>3, <1>4
  <1>6. runJob \in RunJobs
    BY <1>1 DEF RunInv, RunTypes, FramesSound
  <1> QED BY <1>1, <1>2, <1>3, <1>5, <1>6

LEMMA InSession ==
    ASSUME RunInv, NEW x, Running(x), NEW top, top = Len(frames), top > 1
    PROVE  /\ x \in BodySteps
           /\ x \in {"macro", "evaluate", "record"} => top = 2 /\ frames[top].session = "bindings"
           /\ x = "counts" => frames[top].session = "binding_parts"
           /\ frames[top].session \in Sessions /\ EndOf(frames[top].steps, Body(runJob, frames[top].session))
           /\ x = Body(runJob, frames[top].session)[Len(Body(runJob, frames[top].session)) - Len(frames[top].steps) + 1]
  <1>1. /\ top \in Nat \ {0} /\ frames[top].steps \in Seq(Steps) /\ Len(frames[top].steps) \in Nat \ {0}
        /\ frames[top].steps[1] = x /\ runJob \in RunJobs
    BY RunningTop
  <1>a. frames \in Seq(FrameType)
    BY DEF RunInv, RunTypes
  <1>2. top \in DOMAIN frames
    BY <1>1, <1>a
  <1>3. frames[top].session \in Sessions /\ EndOf(frames[top].steps, Body(runJob, frames[top].session))
        /\ (frames[top].session = "bindings" => top = 2)
    BY <1>2 DEF RunInv, FramesSound
  <1> DEFINE s == frames[top].session
             b == Body(runJob, s)
             l == Len(frames[top].steps)
  <1>4. b \in Seq(Steps)
    BY <1>1, <1>3, BodyShape
  <1>5. x = b[Len(b) - l + 1] /\ Len(b) - l + 1 \in 1 .. Len(b)
    BY <1>1, <1>3, <1>4, NextOfEnd
  <1>6. /\ x \in BodySteps
        /\ x \in {"macro", "evaluate", "record"} => s = "bindings"
        /\ x = "counts" => s = "binding_parts"
    <2>0. DOMAIN b = 1 .. Len(b)
      BY <1>4
    <2>1. Len(b) - l + 1 \in DOMAIN b
      BY <1>5, <2>0
    <2> QED BY <1>1, <1>3, <1>5, <2>1, BodyShape, ZenonT(60)
  <1> QED BY <1>3, <1>5, <1>6

LEMMA MainPlace ==
    ASSUME RunInv, NEW x, Running(x), Len(frames) = 1
    PROVE  /\ Left \in Nat \ {0}
           /\ x \in MainSteps
           /\ runJob.command \in {"preprocess", "inspect"} => (x = "write" <=> Left = 1)
           /\ runJob.command = "bindgen" =>
                /\ x = "write" <=> Left = 1
                /\ x = "deny" <=> Left = 2
                /\ x = "report" <=> Left = 3 /\ runJob.report
                /\ x = "bindings" <=> Left = 3 + ReportSteps
           /\ runJob.command = "builder" =>
                /\ x = "declarations" <=> Left = 1
                /\ x = "raw" <=> Left = 2
                /\ x = "banner" <=> Left = 3
           /\ x \in {"deny", "report", "bindings"} => runJob.command = "bindgen"
           /\ x \in {"declarations", "raw", "banner", "create", "binding_parts", "setters"} => runJob.command = "builder"
           /\ x = "write" => runJob.command \in {"preprocess", "inspect", "bindgen"}
  <1>1. /\ frames[1].steps \in Seq(Steps) /\ Left \in Nat \ {0} /\ frames[1].steps[1] = x /\ runJob \in RunJobs
        /\ frames # <<>>
    BY RunningTop DEF Left
  <1>2. EndOf(frames[1].steps, Program(runJob))
    BY <1>1 DEF RunInv, FramesSound
  <1>3. PICK p, l : p = Program(runJob) /\ l = Len(p)
    OBVIOUS
  <1>4. p \in Seq(Steps) /\ l \in 2 .. 9
    BY <1>1, <1>3, ProgramShape
  <1>5. Left <= l /\ x = p[l - Left + 1] /\ l - Left + 1 \in 1 .. l
    BY <1>1, <1>2, <1>3, <1>4, NextOfEnd, ZenonT(60) DEF Left
  <1>6. PICK i : i = l - Left + 1
    OBVIOUS
  <1>7. i \in 1 .. l /\ Left = l - i + 1 /\ x = p[i]
    BY <1>1, <1>4, <1>5, <1>6
  <1>8. runJob.command \in Commands /\ runJob.report \in BOOLEAN
    BY <1>1, JobShape
  <1>9. CASE runJob.command \in {"preprocess", "inspect"}
    <2>1. p[l] = "write" /\ \A k \in 1 .. l - 1 : p[k] \in {"config", "preprocess", "parse_file", "serialize"}
      BY <1>1, <1>3, <1>9, ProgramShape
    <2> QED BY <1>1, <1>4, <1>7, <1>9, <2>1 DEF MainSteps
  <1>10. CASE runJob.command = "check"
    <2>1. \A k \in 1 .. l : p[k] \in {"config", "parse_file"}
      BY <1>1, <1>3, <1>10, ProgramShape
    <2> QED BY <1>1, <1>4, <1>7, <1>10, <2>1 DEF MainSteps
  <1>11. CASE runJob.command = "bindgen" /\ ~ runJob.report
    <2>1. /\ l = 6 /\ p[6] = "write" /\ p[5] = "deny" /\ p[4] = "bindings"
          /\ \A k \in 1 .. 3 : p[k] \in {"policies", "config", "parse_file"}
      BY <1>1, <1>3, <1>11, ProgramShape
    <2>2. i \in 1 .. 3 \/ i = 4 \/ i = 5 \/ i = 6
      BY <1>7, <2>1
    <2> QED BY <1>1, <1>7, <1>11, <2>1, <2>2 DEF MainSteps, ReportSteps
  <1>12. CASE runJob.command = "bindgen" /\ runJob.report
    <2>1. /\ l = 7 /\ p[7] = "write" /\ p[6] = "deny" /\ p[5] = "report" /\ p[4] = "bindings"
          /\ \A k \in 1 .. 3 : p[k] \in {"policies", "config", "parse_file"}
      BY <1>1, <1>3, <1>12, ProgramShape
    <2>2. i \in 1 .. 3 \/ i = 4 \/ i = 5 \/ i = 6 \/ i = 7
      BY <1>7, <2>1
    <2> QED BY <1>1, <1>7, <1>12, <2>1, <2>2 DEF MainSteps, ReportSteps
  <1>13. CASE runJob.command = "builder"
    <2>1. /\ l = 9 /\ p[9] = "declarations" /\ p[8] = "raw" /\ p[7] = "banner" /\ p[6] = "create" /\ p[5] = "binding_parts"
          /\ \A k \in 1 .. 4 : p[k] \in {"setters", "config", "parse_file", "select"}
      BY <1>1, <1>3, <1>13, ProgramShape, SMTT(40)
    <2>2. i \in 1 .. 4 \/ i = 5 \/ i = 6 \/ i = 7 \/ i = 8 \/ i = 9
      BY <1>7, <2>1
    <2> QED BY <1>1, <1>7, <1>13, <2>1, <2>2 DEF MainSteps
  <1> QED BY <1>8, <1>9, <1>10, <1>11, <1>12, <1>13 DEF Commands

-----------------------------------------------------------------------------
(* What a step does to the frames and the worker.                           *)

\* The part of FramesSound about the frames alone.
Stacked(fs, job) ==
    /\ fs \in Seq(FrameType) /\ fs # <<>> /\ job \in RunJobs
    /\ EndOf(fs[1].steps, Program(job)) /\ fs[1].session = "main" /\ fs[1].thread = MainThread /\ ~ fs[1].spawned
    /\ \A i \in 2 .. Len(fs) :
          /\ fs[i].session \in Sessions /\ EndOf(fs[i].steps, Body(job, fs[i].session))
          /\ fs[i].thread = 1 /\ fs[i].spawned = (i = 2)
          /\ fs[i].session = "bindings" =>
                i = 2 /\ job.command = "bindgen" /\ Len(fs[1].steps) = 2 + (IF job.report THEN 1 ELSE 0)
          /\ fs[i].session = "binding_parts" => job.command = "builder"

LEMMA StackedNow ==
    ASSUME RunInv, frames # <<>>
    PROVE  Stacked(frames, runJob) /\ Len(frames) \in Nat \ {0}
  <1>1. frames \in Seq(FrameType) /\ runJob \in RunJobs
    BY DEF RunInv, RunTypes, FramesSound
  <1>2. \A i \in 2 .. Len(frames) : i \in DOMAIN frames /\ i > 1
    BY <1>1
  <1> QED BY <1>1, <1>2 DEF RunInv, FramesSound, Stacked, Left, ReportSteps

LEMMA StackedThen ==
    ASSUME Stacked(frames', runJob')
    PROVE  FramesSound' /\ frames' \in Seq(FrameType)
  <1>1. frames' \in Seq(FrameType) /\ frames' # <<>> /\ runJob' \in RunJobs
    BY DEF Stacked
  <1>2. runJob' # NoJob
    BY <1>1, JobShape
  <1>3. \A i \in DOMAIN frames' : i > 1 => i \in 2 .. Len(frames')
    BY <1>1
  <1> QED BY <1>1, <1>2, <1>3 DEF FramesSound, Stacked, Left, ReportSteps

\* The frames stay sound.
LEMMA AdvanceStacks ==
    ASSUME RunInv, NEW fs, NEW n, Advances(fs, n)
    PROVE  /\ Stacked(fs, runJob) /\ Len(fs) = Len(frames)
           /\ Len(fs[1].steps) = (IF Len(frames) = 1 THEN Left - n ELSE Left)
           /\ \A i \in 1 .. Len(frames) : fs[i].session = frames[i].session
           /\ \A i \in 1 .. Len(frames) - 1 : fs[i] = frames[i]
           /\ Len(fs[Len(frames)].steps) = Len(frames[Len(frames)].steps) - n
  <1>1. Stacked(frames, runJob) /\ Len(frames) \in Nat \ {0}
    BY StackedNow DEF Advances
  <1>2. PICK top : top = Len(frames)
    OBVIOUS
  <1>3. frames \in Seq(FrameType) /\ runJob \in RunJobs
    BY <1>1 DEF Stacked
  <1>4. /\ top \in Nat \ {0} /\ fs \in Seq(FrameType) /\ Len(fs) = top
        /\ \A i \in 1 .. top - 1 : fs[i] = frames[i]
        /\ frames[top] \in FrameType
        /\ fs[top].session = frames[top].session /\ fs[top].thread = frames[top].thread
        /\ fs[top].spawned = frames[top].spawned
        /\ fs[top].steps = SubSeq(frames[top].steps, n + 1, Len(frames[top].steps))
    BY <1>2, <1>3, AdvanceShape
  <1>5. frames[top].steps \in Seq(Steps) /\ n \in 0 .. Len(frames[top].steps)
    BY <1>2, <1>4 DEF FrameType, Steps, Advances, Top
  <1>6. /\ Len(fs[top].steps) = Len(frames[top].steps) - n
        /\ \A all \in Seq(Steps) : EndOf(frames[top].steps, all) => EndOf(fs[top].steps, all)
    <2>1. ASSUME NEW all \in Seq(Steps), EndOf(frames[top].steps, all)
          PROVE  EndOf(fs[top].steps, all)
      BY <1>4, <1>5, <2>1, EndKept
    <2>2. Len(fs[top].steps) = Len(frames[top].steps) - n
      BY <1>4, <1>5, EndWhole, EndKept
    <2> QED BY <2>1, <2>2
  <1>7. fs # <<>>
    BY <1>4
  <1>8. Program(runJob) \in Seq(Steps) /\ \A s \in Sessions : Body(runJob, s) \in Seq(Steps)
    BY <1>3, ProgramShape, BodyShape
  <1>9. EndOf(fs[1].steps, Program(runJob)) /\ fs[1].session = "main" /\ fs[1].thread = MainThread /\ ~ fs[1].spawned
        /\ Len(fs[1].steps) = IF top = 1 THEN Len(frames[1].steps) - n ELSE Len(frames[1].steps)
    <2>1. CASE top = 1
      <3>1. fs[1].session = "main" /\ fs[1].thread = MainThread /\ ~ fs[1].spawned
        BY <1>1, <1>4, <2>1 DEF Stacked
      <3>2. EndOf(fs[1].steps, Program(runJob)) /\ Len(fs[1].steps) = Len(frames[1].steps) - n
        BY <1>1, <1>6, <1>8, <2>1 DEF Stacked
      <3> QED BY <2>1, <3>1, <3>2
    <2>2. CASE top # 1
      <3>1. fs[1] = frames[1]
        BY <1>4, <2>2
      <3> QED BY <1>1, <2>2, <3>1 DEF Stacked
    <2> QED BY <2>1, <2>2
  <1>10. \A i \in 2 .. top :
          /\ fs[i].session \in Sessions /\ EndOf(fs[i].steps, Body(runJob, fs[i].session))
          /\ fs[i].thread = 1 /\ fs[i].spawned = (i = 2)
          /\ fs[i].session = "bindings" =>
                i = 2 /\ runJob.command = "bindgen" /\ Len(fs[1].steps) = 2 + (IF runJob.report THEN 1 ELSE 0)
          /\ fs[i].session = "binding_parts" => runJob.command = "builder"
    <2> TAKE i \in 2 .. top
    <2>1. top # 1 /\ Len(fs[1].steps) = Len(frames[1].steps)
      BY <1>4, <1>9
    <2>2. /\ frames[i].session \in Sessions /\ EndOf(frames[i].steps, Body(runJob, frames[i].session))
          /\ frames[i].thread = 1 /\ frames[i].spawned = (i = 2)
          /\ frames[i].session = "bindings" =>
                i = 2 /\ runJob.command = "bindgen" /\ Len(frames[1].steps) = 2 + (IF runJob.report THEN 1 ELSE 0)
          /\ frames[i].session = "binding_parts" => runJob.command = "builder"
      BY <1>1, <1>2 DEF Stacked
    <2>3. CASE i = top
      BY <1>4, <1>6, <1>8, <2>1, <2>2, <2>3
    <2>4. CASE i # top
      <3>1. fs[i] = frames[i]
        BY <1>4, <2>4
      <3> QED BY <2>1, <2>2, <3>1
    <2> QED BY <2>3, <2>4
  <1>11. Stacked(fs, runJob)
    BY <1>3, <1>4, <1>7, <1>9, <1>10 DEF Stacked
  <1>12. \A i \in 1 .. top : fs[i].session = frames[i].session
    <2> TAKE i \in 1 .. top
    <2>1. CASE i = top BY <1>4, <2>1
    <2>2. CASE i # top BY <1>4, <2>2
    <2> QED BY <2>1, <2>2
  <1> QED BY <1>2, <1>4, <1>6, <1>9, <1>11, <1>12 DEF Left

\* A session begins: on a new worker from the main thread, else on the worker there is.
LEMMA CallStacks ==
    ASSUME RunInv, NEW s \in Sessions, with_stack(s), NEW top, top = Len(frames)
    PROVE  /\ Stacked(frames', runJob') /\ Len(frames') = top + 1 /\ WorkerSound'
           /\ Left' = (IF top = 1 THEN Left - 1 ELSE Left)
           /\ top = 1 => frames'[2].session = s /\ frames'[2].steps = Body(runJob, s)
           /\ top > 1 => frames'[2].session = frames[2].session
           /\ top = 2 => Len(frames'[2].steps) = Len(frames[2].steps) - 1
           /\ top > 2 => frames'[2] = frames[2]
  <1>0. Running(s) /\ UNCHANGED <<runJob, work>>
    BY DEF with_stack
  <1>1. /\ frames # <<>> /\ top \in Nat \ {0} /\ frames[top] \in FrameType /\ frames[top].steps \in Seq(Steps)
        /\ Len(frames[top].steps) \in Nat \ {0} /\ frames[top].steps[1] = s /\ runJob \in RunJobs
    BY <1>0, RunningTop
  <1>2. Stacked(frames, runJob)
    BY <1>1, StackedNow
  <1>3. PICK base : base = Advanced(1)
    OBVIOUS
  <1>4. Advances(base, 1)
    BY <1>1, <1>3 DEF Advances, Top
  <1>5. /\ Stacked(base, runJob) /\ Len(base) = top
        /\ Len(base[1].steps) = (IF top = 1 THEN Left - 1 ELSE Left)
        /\ \A i \in 1 .. top : base[i].session = frames[i].session
        /\ \A i \in 1 .. top - 1 : base[i] = frames[i]
        /\ Len(base[top].steps) = Len(frames[top].steps) - 1
    BY <1>4, AdvanceStacks
  <1>6. live = (IF top > 1 THEN {1} ELSE {}) /\ flagged = live /\ work \subseteq {1}
    BY DEF RunInv, WorkerSound
  <1>7. Top.thread = IF top = 1 THEN 0 ELSE 1
    BY <1>1, <1>2 DEF Stacked, Top, MainThread
  <1>8. PICK spawned \in BOOLEAN : spawned = (top = 1)
    OBVIOUS
  <1>9. frames' = Append(base, Frame(s, 1, spawned)) /\ live' = {1} /\ flagged' = {1}
    <2>1. CASE top = 1
      <3>1. Top.thread \notin flagged /\ Cardinality(live) = 0
        BY <1>6, <1>7, <2>1, FS_EmptySet
      <3>2. Cardinality(live) + Top.thread + 1 = 1
        BY <1>7, <2>1, <3>1
      <3>3. frames' = Append(base, Frame(s, 1, TRUE)) /\ live' = live \union {1} /\ flagged' = flagged \union {1}
        BY <1>3, <3>1, <3>2 DEF with_stack, SetsFlag, WorkerFlag
      <3> QED BY <1>6, <1>8, <2>1, <3>3
    <2>2. CASE top # 1
      <3>1. Top.thread \in flagged /\ Top.thread = 1 /\ live = {1} /\ flagged = {1}
        BY <1>1, <1>6, <1>7, <2>2
      <3>2. frames' = Append(base, Frame(s, 1, FALSE)) /\ UNCHANGED <<live, flagged>>
        BY <1>3, <3>1 DEF with_stack
      <3> QED BY <1>8, <2>2, <3>1, <3>2
    <2> QED BY <2>1, <2>2
  <1>10. PICK f : f = Frame(s, 1, spawned)
    OBVIOUS
  <1>11. f.session = s /\ f.steps = Body(runJob, s) /\ f.thread = 1 /\ f.spawned = (top = 1) /\ f \in FrameType
    <2>1. Body(runJob, s) \in Seq(BodySteps \union MainSteps)
      BY <1>1, BodyShape, StepsType
    <2> QED BY <1>8, <1>10, <2>1 DEF Frame, FrameType
  <1>12. /\ base \in Seq(FrameType) /\ frames' = Append(base, f)
    BY <1>5, <1>9, <1>10 DEF Stacked
  <1>13. /\ frames' \in Seq(FrameType) /\ Len(frames') = top + 1 /\ frames' # <<>>
         /\ \A i \in 1 .. top : frames'[i] = base[i]
         /\ frames'[top + 1] = f
    BY <1>1, <1>5, <1>11, <1>12
  <1>14. /\ s = "bindings" => /\ top = 1 /\ runJob.command = "bindgen"
                              /\ Len(base[1].steps) = 2 + (IF runJob.report THEN 1 ELSE 0)
         /\ s = "binding_parts" => runJob.command = "builder" /\ top = 1
    <2>1. s \in {"bindings", "binding_parts"} => top = 1
      <3>1. ASSUME top # 1 PROVE s \in BodySteps
        <4>1. top > 1
          BY <1>1, <3>1
        <4> QED BY <1>0, <4>1, InSession
      <3> QED BY <3>1 DEF BodySteps
    <2>2. top = 1 => /\ s = "bindings" => runJob.command = "bindgen" /\ Left = 3 + ReportSteps
                     /\ s = "binding_parts" => runJob.command = "builder"
      BY <1>0, MainPlace
    <2> QED BY <1>5, <2>1, <2>2 DEF ReportSteps
  <1>15. EndOf(Body(runJob, s), Body(runJob, s))
    BY <1>1, BodyShape, EndWhole
  <1>16. \A i \in 2 .. top + 1 :
          /\ frames'[i].session \in Sessions /\ EndOf(frames'[i].steps, Body(runJob, frames'[i].session))
          /\ frames'[i].thread = 1 /\ frames'[i].spawned = (i = 2)
          /\ frames'[i].session = "bindings" =>
                i = 2 /\ runJob.command = "bindgen" /\ Len(frames'[1].steps) = 2 + (IF runJob.report THEN 1 ELSE 0)
          /\ frames'[i].session = "binding_parts" => runJob.command = "builder"
    <2> TAKE i \in 2 .. top + 1
    <2>0. frames'[1] = base[1]
      BY <1>1, <1>13
    <2>1. CASE i = top + 1
      BY <1>1, <1>11, <1>13, <1>14, <1>15, <2>0, <2>1
    <2>2. CASE i # top + 1
      <3>1. i \in 2 .. top /\ frames'[i] = base[i]
        BY <1>1, <1>13, <2>2
      <3> QED BY <1>5, <2>0, <3>1 DEF Stacked
    <2> QED BY <2>1, <2>2
  <1>17. frames'[1] = base[1] /\ runJob' = runJob
    BY <1>0, <1>1, <1>13
  <1>18. Stacked(frames', runJob')
    BY <1>1, <1>5, <1>13, <1>16, <1>17 DEF Stacked
  <1>19. Len(frames') > 1
    BY <1>1, <1>13
  <1>20. WorkerSound'
    BY <1>0, <1>6, <1>9, <1>19 DEF WorkerSound
  <1>21. Left' = (IF top = 1 THEN Left - 1 ELSE Left)
    BY <1>5, <1>17 DEF Left
  <1>22. /\ top = 1 => frames'[2].session = s /\ frames'[2].steps = Body(runJob, s)
         /\ top > 1 => frames'[2].session = frames[2].session
         /\ top = 2 => Len(frames'[2].steps) = Len(frames[2].steps) - 1
         /\ top > 2 => frames'[2] = frames[2]
    <2>1. top = 1 => frames'[2] = f
      BY <1>13
    <2>2. top > 1 => frames'[2] = base[2] /\ 2 \in 1 .. top
      BY <1>1, <1>13
    <2>3. top > 2 => 2 \in 1 .. top - 1
      BY <1>1
    <2> QED BY <1>5, <1>11, <2>1, <2>2, <2>3
  <1> QED BY <1>13, <1>18, <1>20, <1>21, <1>22

\* A session ends, and its worker with it.
LEMMA LeaveStacks ==
    ASSUME RunInv, Leave, NEW top, top = Len(frames)
    PROVE  /\ Stacked(frames', runJob') /\ Len(frames') = top - 1 /\ WorkerSound' /\ top > 1
           /\ \A i \in 1 .. top - 1 : frames'[i] = frames[i]
           /\ Left' = Left
  <1>1. Len(frames) > 1 /\ UNCHANGED <<runJob, work>> /\ frames' = SubSeq(frames, 1, Len(frames) - 1)
    BY DEF Leave
  <1>2. frames \in Seq(FrameType)
    BY DEF RunInv, RunTypes
  <1>3. frames # <<>>
    BY <1>1, <1>2
  <1>4. Stacked(frames, runJob)
    BY <1>3, StackedNow
  <1>5. /\ top \in Nat /\ top > 1 /\ frames' \in Seq(FrameType) /\ Len(frames') = top - 1
        /\ \A i \in 1 .. top - 1 : frames'[i] = frames[i]
    BY <1>1, <1>2
  <1>6. frames' # <<>> /\ frames'[1] = frames[1]
    BY <1>5
  <1>7. Stacked(frames', runJob')
    <2>1. \A i \in 2 .. top - 1 : i \in 2 .. top /\ frames'[i] = frames[i]
      BY <1>5
    <2>2. EndOf(frames'[1].steps, Program(runJob')) /\ frames'[1].session = "main" /\ frames'[1].thread = MainThread
          /\ ~ frames'[1].spawned /\ Len(frames'[1].steps) = Len(frames[1].steps)
      BY <1>1, <1>4, <1>6 DEF Stacked
    <2>3. frames' \in Seq(FrameType) /\ frames' # <<>> /\ runJob' \in RunJobs
      BY <1>1, <1>4, <1>5, <1>6 DEF Stacked
    <2>4. \A i \in 2 .. Len(frames') :
            /\ frames'[i].session \in Sessions /\ EndOf(frames'[i].steps, Body(runJob', frames'[i].session))
            /\ frames'[i].thread = 1 /\ frames'[i].spawned = (i = 2)
            /\ frames'[i].session = "bindings" =>
                  i = 2 /\ runJob'.command = "bindgen" /\ Len(frames'[1].steps) = 2 + (IF runJob'.report THEN 1 ELSE 0)
            /\ frames'[i].session = "binding_parts" => runJob'.command = "builder"
      BY <1>1, <1>4, <1>5, <2>1, <2>2 DEF Stacked
    <2> QED BY <2>2, <2>3, <2>4 DEF Stacked
  <1>8. live = {1} /\ flagged = {1} /\ work \subseteq {1}
    BY <1>1 DEF RunInv, WorkerSound
  <1>9. Top.thread = 1 /\ Top.spawned = (top = 2)
    BY <1>4, <1>5 DEF Stacked, Top
  <1>10. live' = (IF top = 2 THEN {} ELSE {1}) /\ flagged' = live'
    BY <1>8, <1>9 DEF Leave
  <1>11. WorkerSound'
    <2>1. Len(frames') > 1 <=> top # 2
      BY <1>5
    <2> QED BY <1>1, <1>8, <1>10, <2>1 DEF WorkerSound
  <1> QED BY <1>5, <1>6, <1>7, <1>11 DEF Left

\* A command begins on the calling thread.
LEMMA StartStacks ==
    ASSUME RunInv, StartCommand
    PROVE  /\ Stacked(frames', runJob') /\ Len(frames') = 1 /\ WorkerSound'
           /\ frames'[1].steps = Program(runJob')
           /\ frames = <<>> /\ unwinding = "no" /\ exit = "running" /\ disk.output = <<>> /\ account = NoAccount /\ ~ builder.eq /\ ~ brokenPipe
  <1>1. runJob.command = "none"
    BY DEF StartCommand
  <1>2. runJob = NoJob
    BY <1>1, JobShape DEF RunInv, RunTypes, Commands
  <1>3. frames = <<>> /\ unwinding = "no" /\ exit = "running" /\ disk.output = <<>> /\ account = NoAccount /\ ~ builder.eq /\ ~ brokenPipe
    BY <1>2 DEF RunInv, FramesSound
  <1>4. PICK job \in RunJobs :
            /\ runJob' = job
            /\ frames' = <<[session |-> "main", steps |-> Program(job), thread |-> MainThread, spawned |-> FALSE]>>
    BY DEF StartCommand
  <1>5. Program(job) \in Seq(Steps)
    BY ProgramShape
  <1>6. PICK f : f = [session |-> "main", steps |-> Program(job), thread |-> MainThread, spawned |-> FALSE]
    OBVIOUS
  <1>7. f.steps = Program(job) /\ f.session = "main" /\ f.thread = MainThread /\ f.spawned = FALSE /\ f \in FrameType
    BY <1>5, <1>6, StepsType DEF FrameType, MainThread
  <1>8. frames' = <<f>>
    BY <1>4, <1>6
  <1>9. frames' \in Seq(FrameType) /\ Len(frames') = 1 /\ frames'[1] = f /\ frames' # <<>>
    BY <1>7, <1>8
  <1>10. \A i \in 2 .. Len(frames') : FALSE
    BY <1>9
  <1>11. Stacked(frames', runJob')
    BY <1>4, <1>5, <1>7, <1>9, <1>10, EndWhole DEF Stacked
  <1>12. Len(frames) = 0
    BY <1>3
  <1>13. WorkerSound'
    BY <1>9, <1>12 DEF RunInv, WorkerSound, StartCommand
  <1> QED BY <1>3, <1>4, <1>7, <1>9, <1>11, <1>13

-----------------------------------------------------------------------------
(* Where a macro is evaluated.                                              *)

LEMMA Thirds ==
    ASSUME NEW s \in Nat, NEW b \in 0 .. 2, NEW k, k = 3 * s + 1 - b
    PROVE  k % 3 = (IF b = 0 THEN 1 ELSE IF b = 1 THEN 0 ELSE 2)
  <1>1. CASE b = 0 BY <1>1
  <1>2. CASE b = 1 BY <1>2
  <1>3. CASE b = 2 BY <1>3
  <1> QED BY <1>1, <1>2, <1>3

\* The steps left say which macro is meant, and whether it has been looked at.
LEMMA AtMacro ==
    ASSUME RunInv, NEW x, Running(x), x \in {"macro", "evaluate", "record"}, NEW n, n = Len(runJob.macros)
    PROVE  /\ Len(frames) = 2 /\ frames[2].session = "bindings" /\ runJob.command = "bindgen" /\ n \in Nat
           /\ account.seen \in 0 .. n
           /\ Len(frames[2].steps) = 3 * (n - account.seen) + 1 + Behind
           /\ x = "macro" => Behind = 0 /\ account.seen < n
           /\ x = "record" => Behind = 1
           /\ x = "evaluate" => Behind = 2
  <1>1. PICK top : top = Len(frames)
    OBVIOUS
  <1>2. /\ top \in Nat \ {0} /\ frames[top] \in FrameType /\ frames[top].steps \in Seq(Steps) /\ frames # <<>>
        /\ Len(frames[top].steps) \in Nat \ {0} /\ runJob \in RunJobs
    BY <1>1, RunningTop
  <1>3. top # 1
    <2>1. top = 1 => x \in MainSteps
      BY <1>1, MainPlace
    <2> QED BY <2>1 DEF MainSteps
  <1>4. top > 1
    BY <1>2, <1>3
  <1>5. PICK b : b = Body(runJob, "bindings")
    OBVIOUS
  <1>6. /\ top = 2 /\ frames[2].session = "bindings" /\ EndOf(frames[2].steps, b)
        /\ x = b[Len(b) - Len(frames[2].steps) + 1]
    BY <1>1, <1>4, <1>5, InSession
  <1>7. /\ n \in Nat /\ Len(b) = 3 * n + 1 /\ b[3 * n + 1] = "emit"
        /\ \A i \in 1 .. 3 * n : (b[i] = "macro" <=> i % 3 = 1) /\ (b[i] = "evaluate" <=> i % 3 = 2)
    BY <1>2, <1>5, BindingsBody
  <1>8. PICK l : l = Len(frames[2].steps)
    OBVIOUS
  <1>9. l \in Nat \ {0} /\ l <= 3 * n + 1
    BY <1>2, <1>6, <1>7, <1>8 DEF EndOf
  <1>10. PICK k : k = 3 * n + 2 - l
    OBVIOUS
  <1>11. k \in 1 .. 3 * n + 1 /\ x = b[k]
    <2>1. Len(b) - Len(frames[2].steps) + 1 = 3 * n + 1 - l + 1
      BY <1>7, <1>8
    <2>2. 3 * n + 1 - l + 1 = k /\ k \in 1 .. 3 * n + 1
      BY <1>7, <1>9, <1>10
    <2> QED BY <1>6, <2>1, <2>2
  <1>12. k # 3 * n + 1
    BY <1>7, <1>11
  <1>13. k \in 1 .. 3 * n
    BY <1>7, <1>11, <1>12
  <1>14. /\ x = "macro" <=> k % 3 = 1
         /\ x = "evaluate" <=> k % 3 = 2
    BY <1>7, <1>11, <1>13
  <1>15. account.seen \in Nat /\ frames[2].steps # <<>>
    BY <1>2, <1>6 DEF RunInv, RunTypes
  <1>16. account.seen <= n /\ Behind \in 0 .. 2 /\ (Behind > 0 => account.seen > 0)
    <2>1. Len(frames) > 1
      BY <1>1, <1>4
    <2>2. account.seen <= n /\ Behind \in -1 .. 2 /\ (Behind = -1 => frames[2].steps = <<>>)
      BY <1>2, <1>6, <2>1 DEF RunInv, AccountSoFar
    <2>3. Behind > 0 => account.seen > 0
      BY <1>2, <1>6, <2>1 DEF RunInv, AccountSoFar
    <2> QED BY <1>15, <2>2, <2>3
  <1>17. PICK s, d : s = account.seen /\ d = Behind
    OBVIOUS
  <1>18. d = l - 3 * (n - s) - 1
    BY <1>8, <1>17 DEF Behind
  <1>19. s \in Nat /\ s <= n /\ d \in 0 .. 2
    BY <1>15, <1>16, <1>17
  <1>20. l = 3 * (n - s) + 1 + d /\ k = 3 * s + 1 - d
    <2>1. n \in Nat /\ s \in Nat /\ l \in Nat /\ d \in Int
      BY <1>7, <1>9, <1>19
    <2>2. PICK m \in Int : m = 3 * (n - s)
      BY <2>1
    <2>3. m = 3 * n - 3 * s
      BY ONLY <2>1, <2>2
    <2>4. l = m + 1 + d
      BY ONLY <1>18, <2>1, <2>2
    <2>5. k = 3 * s + 1 - d
      BY <1>10, <2>1, <2>3, <2>4
    <2> QED BY <2>2, <2>4, <2>5
  <1>21. k % 3 = (IF d = 0 THEN 1 ELSE IF d = 1 THEN 0 ELSE 2)
    BY <1>19, <1>20, Thirds
  <1>22. /\ x = "macro" => d = 0
         /\ x = "evaluate" => d = 2
         /\ x = "record" => d = 1
    BY <1>14, <1>19, <1>21
  <1>23. d = 0 => s < n
    BY <1>7, <1>13, <1>19, <1>20
  <1>24. runJob.command = "bindgen"
    <2>1. Stacked(frames, runJob)
      BY <1>2, StackedNow
    <2> QED BY <1>1, <1>6, <2>1 DEF Stacked
  <1> QED BY <1>1, <1>6, <1>7, <1>8, <1>17, <1>19, <1>20, <1>22, <1>23, <1>24

-----------------------------------------------------------------------------
(* FramesSound and WorkerSound.                                             *)

\* A step within the frame on top, or none.
Moves ==
    /\ frames # <<>> /\ UNCHANGED <<runJob, live, flagged>>
    /\ UNCHANGED frames \/ \E n \in Nat : Advances(frames', n)
LEMMA MovesStack ==
    ASSUME RunInv, Moves, work' \subseteq {1}
    PROVE  Stacked(frames', runJob') /\ WorkerSound' /\ Len(frames') = Len(frames)
  <1>1. frames # <<>> /\ UNCHANGED <<runJob, live, flagged>>
    BY DEF Moves
  <1>2. Stacked(frames', runJob') /\ Len(frames') = Len(frames)
    <2>1. CASE UNCHANGED frames
      BY <1>1, <2>1, StackedNow
    <2>2. ASSUME NEW n \in Nat, Advances(frames', n)
          PROVE  Stacked(frames', runJob') /\ Len(frames') = Len(frames)
      BY <1>1, <2>2, AdvanceStacks
    <2> QED BY <2>1, <2>2 DEF Moves
  <1>3. live = (IF Len(frames) > 1 THEN {1} ELSE {}) /\ flagged = live
    BY DEF RunInv, WorkerSound
  <1> QED BY <1>1, <1>2, <1>3 DEF WorkerSound

\* Doing the next step, or raising an error instead.
LEMMA NextDone ==
    ASSUME RunInv, NEW x, Running(x), frames' = Advanced(1)
    PROVE  Advances(frames', 1)
  <1>1. frames # <<>> /\ Len(frames[Len(frames)].steps) \in Nat \ {0}
    BY RunningTop
  <1> QED BY <1>1 DEF Advances, Top

LEMMA StepMoves ==
    ASSUME RunInv, NEW x, Running(x), UNCHANGED <<runJob, live, flagged>>, UNCHANGED frames \/ frames' = Advanced(1)
    PROVE  Moves
  <1>1. frames # <<>>
    BY DEF Running
  <1>2. frames' = Advanced(1) => Advances(frames', 1)
    BY NextDone
  <1> QED BY <1>1, <1>2 DEF Moves

\* Up to three steps of one macro.
LEMMA StepMacroMoves ==
    ASSUME RunInv, StepMacro
    PROVE  /\ Moves /\ \E n \in 1 .. 3 : Advances(frames', n)
           /\ \A n \in 1 .. 3 : frames' = Advanced(n) => Advances(frames', n)
  <1>1. Running("macro") /\ UNCHANGED <<runJob, live, flagged>> /\ \E n \in 1 .. 3 : frames' = Advanced(n)
    BY DEF StepMacro
  <1>2. PICK n : n = Len(runJob.macros)
    OBVIOUS
  <1>3. PICK l, s : l = Len(frames[2].steps) /\ s = account.seen
    OBVIOUS
  <1>4. Len(frames) = 2 /\ n \in Nat /\ s \in 0 .. n /\ l = 3 * (n - s) + 1 + Behind /\ Behind = 0 /\ s < n
    BY <1>1, <1>2, <1>3, AtMacro
  <1>5. n \in Nat /\ s \in Nat /\ s < n /\ l = 3 * (n - s) + 1
    BY ONLY <1>4
  <1>6. l \in Nat /\ l >= 3
    BY ONLY <1>5
  <1>7. frames # <<>>
    BY <1>1 DEF Running
  <1>8. \A k \in 1 .. 3 : frames' = Advanced(k) => Advances(frames', k)
    BY <1>3, <1>4, <1>6, <1>7 DEF Advances, Top
  <1> QED BY <1>1, <1>7, <1>8 DEF Moves

\* Recursive code runs above the calling thread.
LEMMA RecursiveAbove ==
    ASSUME RunInv, NEW x \in Recursive, Running(x)
    PROVE  Top.thread = 1
  <1>1. Len(frames) \in Nat \ {0} /\ frames # <<>>
    BY RunningTop
  <1>2. Len(frames) # 1
    <2>1. Len(frames) = 1 => x \in MainSteps
      BY MainPlace
    <2> QED BY <2>1 DEF MainSteps, Recursive
  <1>3. Stacked(frames, runJob)
    BY <1>1, StackedNow
  <1>4. Len(frames) \in 2 .. Len(frames)
    BY <1>1, <1>2
  <1> QED BY <1>3, <1>4 DEF Stacked, Top

LEMMA PhaseMoves ==
    ASSUME RunInv, NEW x \in Phases, Phase(x) \/ PhaseFails(x) \/ PhasePanics(x)
    PROVE  Moves /\ work' \subseteq {1}
  <1>1. Running(x) /\ UNCHANGED <<runJob, live, flagged>> /\ (UNCHANGED frames \/ frames' = Advanced(1))
    BY DEF Phase, PhaseFails, PhasePanics, Raise
  <1>2. work \subseteq {1}
    BY DEF RunInv, WorkerSound
  <1>3. work' = work \/ (x \in Recursive /\ work' = work \union {Top.thread})
    BY DEF Phase, PhaseFails, PhasePanics, Raise
  <1>4. x \in Recursive => Top.thread = 1
    BY <1>1, RecursiveAbove
  <1> QED BY <1>1, <1>2, <1>3, <1>4, StepMoves

\* One step is done, or an error raised instead of it.
OneStep(x) ==
    /\ Running(x) /\ UNCHANGED <<runJob, live, flagged, work>>
    /\ UNCHANGED frames \/ frames' = Advanced(1)
\* Everything but sessions and phases.
LEMMA OtherMoves ==
    ASSUME RunInv, \/ StepMacro \/ Record \/ Counts \/ Generate \/ WriteReport \/ Deny \/ write_output \/ Create
                   \/ write \/ Exit \/ Set \/ \E s \in Sessions : SpawnFails(s)
    PROVE  Moves /\ work' \subseteq {1} /\ UNCHANGED work
  <1>0. work \subseteq {1}
    BY DEF RunInv, WorkerSound
  <1>1. ASSUME StepMacro PROVE Moves /\ UNCHANGED work
    <2>1. UNCHANGED work BY <1>1 DEF StepMacro
    <2> QED BY <1>1, <2>1, StepMacroMoves
  <1>2. ASSUME Exit PROVE Moves /\ UNCHANGED work
    <2>1. UNCHANGED <<frames, runJob, live, flagged, work>> /\ Len(frames) = 1
      BY <1>2 DEF Exit
    <2>2. frames # <<>> BY <2>1
    <2> QED BY <2>1, <2>2 DEF Moves
  <1>3. ASSUME NEW x, OneStep(x) PROVE Moves /\ UNCHANGED work
    BY <1>3, StepMoves DEF OneStep
  <1>4. Record => OneStep("record") BY DEF Record, OneStep
  <1>5. Counts => OneStep("counts") BY DEF Counts, OneStep
  <1>6. Generate => OneStep("setters") BY DEF Generate, OneStep
  <1>7. WriteReport => OneStep("report") BY DEF WriteReport, Written, WriteFails, OneStep
  <1>8. Deny => OneStep("deny") BY DEF Deny, OneStep
  <1>9. write_output => OneStep("write") BY DEF write_output, Written, WriteFails, OneStep
  <1>10. Create => OneStep("create") BY DEF Create, Written, Raise, OneStep
  <1>11. write => OneStep("banner") \/ OneStep("raw") \/ OneStep("declarations")
    BY DEF write, WritePart, Written, WriteFails, OneStep
  <1>12. Set => OneStep("setters") BY DEF Set, OneStep
  <1>13. \A s \in Sessions : SpawnFails(s) => OneStep(s) BY DEF SpawnFails, Raise, OneStep
  <1> QED BY <1>0, <1>1, <1>2, <1>3, <1>4, <1>5, <1>6, <1>7, <1>8, <1>9, <1>10, <1>11, <1>12, <1>13

LEMMA FramesKept ==
    ASSUME RunInv, RunNext
    PROVE  Stacked(frames', runJob') /\ FramesSound' /\ WorkerSound'
  <1>1. CASE StartCommand BY <1>1, StartStacks, StackedThen
  <1>2. CASE Leave BY <1>2, LeaveStacks, StackedThen
  <1>3. ASSUME NEW s \in Sessions, with_stack(s) PROVE Stacked(frames', runJob') /\ FramesSound' /\ WorkerSound'
    BY <1>3, CallStacks, StackedThen
  <1>4. ASSUME NEW s \in Phases, Phase(s) \/ PhaseFails(s) \/ PhasePanics(s)
        PROVE  Stacked(frames', runJob') /\ FramesSound' /\ WorkerSound'
    BY <1>4, PhaseMoves, MovesStack, StackedThen
  <1>5. CASE \/ StepMacro \/ Record \/ Counts \/ Generate \/ WriteReport \/ Deny \/ write_output \/ Create
             \/ write \/ Exit \/ Set \/ \E s \in Sessions : SpawnFails(s)
    BY <1>5, OtherMoves, MovesStack, StackedThen
  <1> QED BY <1>1, <1>2, <1>3, <1>4, <1>5 DEF RunNext, RunStep

-----------------------------------------------------------------------------
(* OutputSoFar.                                                             *)

\* The whole output, and what is written on the way to it.
LEMMA PartsShape ==
    ASSUME NEW job \in RunJobs, NEW n, n = Len(job.raw), NEW p, p = Parts(job), NEW r, r = <<"banner">> \o job.raw
    PROVE  /\ n \in Nat /\ p \in Seq(OutputParts) /\ r \in Seq(OutputParts)
           /\ job.command # "builder" => p = <<"source">>
           /\ job.command = "builder" =>
                /\ Len(p) = n + 2 /\ p[n + 2] = "declarations" /\ Len(r) = n + 1
                /\ p = r \o <<"declarations">> /\ r = <<"banner">> \o job.raw
  <1>1. job.raw \in Seq(RawLines) /\ n \in Nat
    BY JobShape
  <1>2. job.raw \in Seq(OutputParts)
    BY <1>1 DEF OutputParts
  <1>3. <<"banner">> \in Seq(OutputParts) /\ <<"declarations">> \in Seq(OutputParts) /\ <<"source">> \in Seq(OutputParts)
    BY DEF OutputParts
  <1>4. r \in Seq(OutputParts) /\ Len(r) = n + 1
    BY <1>1, <1>2, <1>3
  <1>5. CASE job.command = "builder"
    <2>1. p = <<"banner">> \o job.raw \o <<"declarations">>
      BY <1>5 DEF Parts
    <2>2. p = r \o <<"declarations">>
      BY <2>1
    <2>3. Len(p) = n + 2 /\ p[n + 2] = "declarations" /\ p \in Seq(OutputParts)
      BY <1>1, <1>3, <1>4, <2>2
    <2> QED BY <1>1, <1>4, <1>5, <2>2, <2>3
  <1>6. CASE job.command # "builder"
    <2>1. p = <<"source">>
      BY <1>6 DEF Parts
    <2> QED BY <1>1, <1>3, <1>4, <1>6, <2>1
  <1> QED BY <1>5, <1>6

\* WrittenSoFar, as a function of the steps left.
WrittenAt(job, left) ==
    IF job.command # "builder" THEN IF left = 0 THEN Parts(job) ELSE <<>>
    ELSE CASE left = 0 -> Parts(job)
           [] left = 1 -> <<"banner">> \o job.raw
           [] left = 2 -> <<"banner">>
           [] OTHER -> <<>>
LEMMA WrittenAtLeft == WrittenSoFar = WrittenAt(runJob, Left) /\ WrittenSoFar' = WrittenAt(runJob', Left')
  BY DEF WrittenSoFar, WrittenAt

\* Before the last step the output is not whole, nor is it with a failed part behind it.
LEMMA NotWhole ==
    ASSUME NEW job \in RunJobs, NEW left \in Nat \ {0}
    PROVE  /\ WrittenAt(job, left) # Parts(job) /\ WrittenAt(job, left) \in Seq(OutputParts)
           /\ job.command = "builder" /\ (left = 2 => job.raw # <<>>) => Append(WrittenAt(job, left), "part") # Parts(job)
           /\ job.command # "builder" => <<"part">> # Parts(job)
           /\ Append(WrittenAt(job, left), "part") \in Seq(OutputParts) /\ <<"part">> \in Seq(OutputParts)
  <1>1. PICK p, r, n : p = Parts(job) /\ r = <<"banner">> \o job.raw /\ n = Len(job.raw)
    OBVIOUS
  <1>2. /\ n \in Nat /\ p \in Seq(OutputParts) /\ r \in Seq(OutputParts)
        /\ job.command # "builder" => p = <<"source">>
        /\ job.command = "builder" => Len(p) = n + 2 /\ p[n + 2] = "declarations" /\ Len(r) = n + 1
    <2>1. n \in Nat /\ p \in Seq(OutputParts) /\ r \in Seq(OutputParts)
      BY <1>1, PartsShape
    <2>4. job.command # "builder" => p = <<"source">>
      BY <1>1 DEF Parts
    <2>2. job.command = "builder" => Len(p) = n + 2 /\ p[n + 2] = "declarations"
      BY <1>1, PartsShape
    <2>3. job.command = "builder" => Len(r) = n + 1
      BY <1>1, PartsShape
    <2> QED BY <2>1, <2>2, <2>3, <2>4
  <1>3. "part" \in OutputParts /\ "banner" \in OutputParts /\ <<"part">> \in Seq(OutputParts)
    BY DEF OutputParts
  <1>4. PICK w : w = WrittenAt(job, left)
    OBVIOUS
  <1>5. CASE job.command # "builder"
    <2>1. w = <<>>
      BY <1>4, <1>5 DEF WrittenAt
    <2>2. p = <<"source">>
      BY <1>2, <1>5
    <2>3. <<"part">> # <<"source">> /\ Append(<<>>, "part") \in Seq(OutputParts) /\ <<>> # <<"source">>
      BY <1>3
    <2> QED BY <1>1, <1>3, <1>4, <1>5, <2>1, <2>2, <2>3
  <1>6. CASE job.command = "builder"
    <2>0. Len(p) = n + 2 /\ p[n + 2] = "declarations" /\ Len(r) = n + 1
      BY <1>2, <1>6
    <2>1. CASE left = 1
      <3>1. w = r
        BY <1>1, <1>4, <1>6, <2>1 DEF WrittenAt
      <3>2. PICK a : a = Append(r, "part")
        OBVIOUS
      <3>3. a[n + 2] = "part" /\ a \in Seq(OutputParts)
        BY <1>2, <1>3, <2>0, <3>2
      <3>4. a # p /\ r # p
        BY <1>2, <2>0, <3>3
      <3> QED BY <1>1, <1>3, <1>4, <1>6, <3>1, <3>2, <3>3, <3>4
    <2>2. CASE left = 2
      <3>1. w = <<"banner">>
        BY <1>4, <1>6, <2>2 DEF WrittenAt
      <3>2. PICK a : a = Append(<<"banner">>, "part")
        OBVIOUS
      <3>3. Len(a) = 2 /\ a \in Seq(OutputParts) /\ w \in Seq(OutputParts) /\ Len(w) = 1
        BY <1>3, <3>1, <3>2
      <3>4. job.raw # <<>> => n # 0
        BY <1>1, JobShape
      <3>5. w # p /\ (job.raw # <<>> => a # p)
        BY <1>2, <2>0, <3>3, <3>4
      <3> QED BY <1>1, <1>3, <1>4, <1>6, <2>2, <3>1, <3>2, <3>3, <3>5
    <2>3. CASE left # 1 /\ left # 2
      <3>1. w = <<>>
        BY <1>4, <1>6, <2>3 DEF WrittenAt
      <3>2. PICK a : a = Append(<<>>, "part")
        OBVIOUS
      <3>3. Len(a) = 1 /\ a \in Seq(OutputParts) /\ w \in Seq(OutputParts) /\ Len(w) = 0
        BY <1>3, <3>1, <3>2
      <3>4. w # p /\ a # p
        BY <1>2, <2>0, <3>3
      <3> QED BY <1>1, <1>3, <1>4, <1>6, <3>1, <3>2, <3>3, <3>4
    <2> QED BY <2>1, <2>2, <2>3
  <1> QED BY <1>5, <1>6

\* The counts and bounds that follow from the types.
LEMMA LeftNat ==
    ASSUME RunInv, frames # <<>>
    PROVE  Left \in Nat /\ ReportSteps \in 0 .. 1 /\ (runJob.report => ReportSteps = 1) /\ runJob \in RunJobs
  <1>0. Stacked(frames, runJob)
    BY StackedNow
  <1>1. frames[1] \in FrameType /\ runJob \in RunJobs
    BY <1>0 DEF Stacked
  <1>2. frames[1].steps \in Seq(Steps) /\ runJob.report \in BOOLEAN
    BY <1>1, JobShape DEF FrameType, Steps
  <1> QED BY <1>1, <1>2 DEF Left, ReportSteps

\* Where the account may change.
Accounting == Len(frames) > 1 /\ frames[2].session \in {"bindings", "binding_parts"}
LEMMA AccountingPlace ==
    ASSUME RunInv, Accounting
    PROVE  runJob.command = "bindgen" => Left >= 2
  <1>1. frames \in Seq(FrameType)
    BY DEF RunInv, RunTypes
  <1>2. Len(frames) > 1 /\ frames # <<>> /\ 2 \in DOMAIN frames /\ frames[2].session \in {"bindings", "binding_parts"}
    BY <1>1 DEF Accounting
  <1>3. /\ frames[2].session = "bindings" => Left = 2 + ReportSteps
        /\ frames[2].session = "binding_parts" => runJob.command = "builder"
    BY <1>2 DEF RunInv, FramesSound
  <1>4. ReportSteps \in 0 .. 1
    BY <1>2, LeftNat
  <1> QED BY <1>2, <1>3, <1>4

\* A step above the calling thread.
LEMMA OutputStays ==
    ASSUME RunInv, frames # <<>>, exit = "running", UNCHANGED <<runJob, disk, brokenPipe, unwinding, exit>>,
           builder'.eq => builder'.partial_eq, Left' = Left, Len(frames') > 1 => Len(frames) > 1,
           account'.skipped = account.skipped \/ Accounting
    PROVE  OutputSoFar'
  <1>1. OutputSoFar /\ Left \in Nat
    BY LeftNat DEF RunInv
  <1>2. WrittenSoFar' = WrittenSoFar
    BY WrittenAtLeft
  <1>3. runJob.command = "bindgen" /\ runJob.deny /\ Left <= 1 => account'.skipped = {}
    BY <1>1, AccountingPlace DEF OutputSoFar
  <1> QED BY <1>1, <1>2, <1>3 DEF OutputSoFar, Needed

\* A step of the calling thread that writes nothing.
LEMMA OutputStep ==
    ASSUME RunInv, NEW x, Running(x), Len(frames) = 1, UNCHANGED <<runJob, disk, brokenPipe, unwinding, exit, builder, account>>,
           Left' = Left - 1, x \notin {"write", "report", "banner", "raw", "declarations"},
           x = "deny" => ~ DenyRefused
    PROVE  OutputSoFar'
  <1>1. OutputSoFar /\ unwinding = "no" /\ exit = "running" /\ runJob \in RunJobs /\ frames # <<>>
    BY RunningTop DEF RunInv
  <1>2. /\ Left \in Nat \ {0}
        /\ runJob.command \in {"preprocess", "inspect"} => Left # 1
        /\ runJob.command = "bindgen" => /\ Left # 1 /\ (Left = 2 => x = "deny")
                                         /\ Left = 3 => ~ runJob.report
        /\ runJob.command = "builder" => Left \notin 1 .. 3
    BY MainPlace
  <1>3. runJob.command \in Commands
    BY <1>1, JobShape
  <1>4. Left' \in Nat /\ (Needed => Left' > 0) /\ (Needed => WrittenAt(runJob, Left') = WrittenAt(runJob, Left))
    BY <1>2, <1>3 DEF Commands, Needed, WrittenAt
  <1>5. Needed => WrittenSoFar' = WrittenSoFar
    BY <1>4, WrittenAtLeft
  <1>6. runJob.command = "bindgen" =>
          /\ runJob.report /\ Left' <= 2 => disk.report = "whole"
          /\ runJob.deny /\ Left' <= 1 => account.skipped = {}
          /\ disk.output # <<>> => Left' <= 1
    <2> HAVE runJob.command = "bindgen"
    <2>1. runJob.command = "bindgen"
      OBVIOUS
    <2>2. runJob.report /\ Left' <= 2 => Left <= 2
      BY <1>2, <2>1
    <2>3. runJob.deny /\ Left' <= 1 => Left <= 1 \/ (Left = 2 /\ x = "deny")
      BY <1>2, <2>1
    <2>4. x = "deny" /\ runJob.deny => account.skipped = {}
      BY DEF DenyRefused
    <2>5. Left' <= Left
      BY <1>2
    <2> QED BY <1>1, <1>2, <2>1, <2>2, <2>3, <2>4, <2>5 DEF OutputSoFar
  <1> QED BY <1>1, <1>4, <1>5, <1>6 DEF OutputSoFar, Needed

\* While a step is due, something is left to be written.
LEMMA SomethingLeft ==
    ASSUME RunInv, NEW x, Running(x), Needed
    PROVE  Left \in Nat \ {0}
  <1>1. frames # <<>> /\ Len(frames) \in Nat \ {0}
    BY RunningTop
  <1>2. CASE Len(frames) = 1
    BY <1>2, MainPlace
  <1>3. CASE Len(frames) > 1
    BY <1>1, <1>3, LeftNat DEF RunInv, OutputSoFar
  <1>4. Len(frames) = 1 \/ Len(frames) > 1
    BY ONLY <1>1, SMTT(60)
  <1> QED BY <1>2, <1>3, <1>4

\* An error or a panic instead of a step.
LEMMA OutputRaised ==
    ASSUME RunInv, NEW x, Running(x), UNCHANGED <<runJob, frames, disk, brokenPipe, exit, builder, account>>,
           unwinding' \in {"error", "panic"}
    PROVE  OutputSoFar'
  <1>1. OutputSoFar /\ unwinding = "no" /\ exit = "running" /\ runJob \in RunJobs
    BY RunningTop DEF RunInv
  <1>2. Left' = Left
    BY DEF Left
  <1>3. Needed => disk.output # Parts(runJob)
    <2> HAVE Needed
    <2>1. Left \in Nat \ {0}
      BY SomethingLeft
    <2> QED BY <1>1, <2>1, NotWhole, WrittenAtLeft DEF OutputSoFar
  <1> QED BY <1>1, <1>2, <1>3 DEF OutputSoFar, Needed

\* Steps of a command that no session has.
LEMMA OnMain ==
    ASSUME RunInv, NEW x, Running(x), x \notin BodySteps
    PROVE  Len(frames) = 1
  <1>1. Len(frames) \in Nat \ {0}
    BY RunningTop
  <1>2. Len(frames) > 1 => FALSE
    BY InSession
  <1>3. PICK n : n = Len(frames)
    OBVIOUS
  <1>4. n \in Nat \ {0} /\ (n > 1 => FALSE)
    BY <1>1, <1>2, <1>3
  <1>5. n = 1
    BY ONLY <1>4
  <1> QED BY <1>3, <1>5

\* The disk while a file is written.
LEMMA DiskShape ==
    ASSUME RunInv
    PROVE  /\ disk.output \in Seq(OutputParts) /\ disk.report \in {"absent", "partial", "whole"}
           /\ \A o \in Seq(OutputParts) : \A d : d = [disk EXCEPT !.output = o] =>
                d \in [report : {"absent", "partial", "whole"}, output : Seq(OutputParts)] /\ d.output = o /\ d.report = disk.report
           /\ \A r \in {"absent", "partial", "whole"} : \A d : d = [disk EXCEPT !.report = r] =>
                d \in [report : {"absent", "partial", "whole"}, output : Seq(OutputParts)] /\ d.output = disk.output /\ d.report = r
  <1>1. disk \in [report : {"absent", "partial", "whole"}, output : Seq(OutputParts)]
    BY DEF RunInv, RunTypes
  <1> QED BY <1>1

DiskType == [report : {"absent", "partial", "whole"}, output : Seq(OutputParts)]

\* A failed write leaves a part; its error may be a closed pipe.
LEMMA OutputFails ==
    ASSUME RunInv, NEW x, Running(x), Len(frames) = 1, NEW d, WriteFails(d), d.output # Parts(runJob),
           Needed, runJob.command = "bindgen" => /\ runJob.report /\ Left <= 2 => d.report = "whole"
                                                 /\ d.output # <<>> => Left <= 1
    PROVE  OutputSoFar'
  <1>1. OutputSoFar /\ unwinding = "no" /\ exit = "running" /\ runJob \in RunJobs
    BY RunningTop DEF RunInv
  <1>2. /\ UNCHANGED <<runJob, frames, account, builder, exit>> /\ disk' = d /\ unwinding' = "error"
    BY DEF WriteFails
  <1>3. Left' = Left
    BY <1>2 DEF Left
  <1> QED BY <1>1, <1>2, <1>3 DEF OutputSoFar, Needed

\* A write that succeeds brings the output to what it should be with a step less left.
LEMMA OutputWritten ==
    ASSUME RunInv, NEW x, Running(x), Len(frames) = 1, NEW d, Written(d), Needed,
           d.output = WrittenAt(runJob, Left - 1),
           runJob.command = "bindgen" => /\ runJob.report /\ Left <= 3 => d.report = "whole"
                                         /\ runJob.deny /\ Left <= 2 => account.skipped = {}
                                         /\ d.output # <<>> => Left <= 2
    PROVE  OutputSoFar'
  <1>1. OutputSoFar /\ unwinding = "no" /\ exit = "running" /\ runJob \in RunJobs /\ Left \in Nat \ {0}
    BY RunningTop, MainPlace DEF RunInv
  <1>2. UNCHANGED <<runJob, unwinding, account, builder, brokenPipe, exit>> /\ disk' = d /\ frames' = Advanced(1)
    BY DEF Written
  <1>3. Advances(frames', 1)
    BY <1>2, NextDone
  <1>4. Left' = Left - 1 /\ Len(frames') = 1
    BY <1>3, AdvanceStacks DEF Left
  <1>5. WrittenSoFar' = WrittenAt(runJob, Left - 1)
    BY <1>2, <1>4, WrittenAtLeft
  <1>6. Left' \in Nat /\ (Left' <= 2 => Left <= 3) /\ (Left' <= 1 => Left <= 2) /\ (Left <= 2 => Left' <= 1)
    BY <1>1, <1>4
  <1>7. Needed' /\ (builder'.eq => builder'.partial_eq) /\ (brokenPipe' => unwinding' = "error")
    BY <1>1, <1>2 DEF OutputSoFar, Needed
  <1>8. disk'.output = WrittenSoFar' /\ unwinding' = "no" /\ exit' = "running"
    BY <1>1, <1>2, <1>5
  <1>10. Len(frames') > 1 => FALSE
    BY ONLY <1>4
  <1>9. runJob'.command = "bindgen" =>
          /\ runJob'.report /\ Left' <= 2 => disk'.report = "whole"
          /\ runJob'.deny /\ Left' <= 1 => account'.skipped = {}
          /\ disk'.output # <<>> => Left' <= 1
    BY <1>2, <1>6
  <1> QED BY <1>7, <1>8, <1>9, <1>10 DEF OutputSoFar

LEMMA OutputReport == ASSUME RunInv, WriteReport PROVE OutputSoFar' /\ disk' \in DiskType
  <1>1. Running("report")
    BY DEF WriteReport
  <1>2. Len(frames) = 1
    BY <1>1, OnMain DEF BodySteps
  <1>3. runJob.command = "bindgen" /\ Left = 3 /\ runJob.report
    BY <1>1, <1>2, MainPlace
  <1>4. Needed /\ OutputSoFar /\ unwinding = "no"
    BY <1>1, <1>3, RunningTop DEF Needed, RunInv, Running
  <1>5. WrittenAt(runJob, Left) = <<>> /\ WrittenAt(runJob, Left - 1) = <<>> /\ disk.output = <<>>
    BY <1>3, <1>4, WrittenAtLeft DEF WrittenAt, OutputSoFar
  <1>6. ASSUME NEW d, d = [disk EXCEPT !.report = "whole"], Written(d) PROVE OutputSoFar' /\ disk' \in DiskType
    <2>1. d \in DiskType /\ d.output = <<>> /\ d.report = "whole"
      BY <1>5, <1>6, DiskShape DEF DiskType
    <2>2. disk' = d
      BY <1>6 DEF Written
    <2>3. ~ Left <= 2
      BY <1>3
    <2>4. OutputSoFar'
      BY <1>1, <1>2, <1>4, <1>5, <1>6, <2>1, <2>3, OutputWritten
    <2> QED BY <2>1, <2>2, <2>4
  <1>7. ASSUME NEW d, d = [disk EXCEPT !.report = "partial"], WriteFails(d) PROVE OutputSoFar' /\ disk' \in DiskType
    <2>1. d \in DiskType /\ d.output = <<>>
      BY <1>5, <1>7, DiskShape DEF DiskType
    <2>2. disk' = d
      BY <1>7 DEF WriteFails
    <2>3. Parts(runJob) # <<>>
      BY <1>3 DEF Parts
    <2>4. ~ Left <= 2 /\ d.output # Parts(runJob)
      BY <1>3, <2>1, <2>3
    <2>5. OutputSoFar'
      BY <1>1, <1>2, <1>4, <1>7, <2>1, <2>4, OutputFails
    <2> QED BY <2>1, <2>2, <2>5
  <1> QED BY <1>6, <1>7 DEF WriteReport

LEMMA OutputOnce == ASSUME RunInv, write_output PROVE OutputSoFar' /\ disk' \in DiskType
  <1>1. Running("write")
    BY DEF write_output
  <1>2. Len(frames) = 1
    BY <1>1, OnMain DEF BodySteps
  <1>3. runJob.command \in {"preprocess", "inspect", "bindgen"} /\ Left = 1
    BY <1>1, <1>2, MainPlace
  <1>4. Needed /\ OutputSoFar /\ unwinding = "no" /\ runJob \in RunJobs
    BY <1>1, <1>3, RunningTop DEF Needed, RunInv
  <1>5. WrittenAt(runJob, Left - 1) = Parts(runJob) /\ <<"part">> # Parts(runJob) /\ Parts(runJob) \in Seq(OutputParts)
    <2>1. Parts(runJob) = <<"source">>
      BY <1>3, <1>4 DEF Parts
    <2>2. <<"part">> # <<"source">> /\ <<"source">> \in Seq(OutputParts)
      BY DEF OutputParts
    <2> QED BY <1>3, <2>1, <2>2 DEF WrittenAt
  <1>6. runJob.command = "bindgen" => /\ runJob.report => disk.report = "whole"
                                      /\ runJob.deny => account.skipped = {}
    BY <1>3, <1>4 DEF OutputSoFar
  <1>7. ASSUME NEW d, d = [disk EXCEPT !.output = Parts(runJob)], Written(d) PROVE OutputSoFar' /\ disk' \in DiskType
    <2>1. d \in DiskType /\ d.output = Parts(runJob) /\ d.report = disk.report
      BY <1>5, <1>7, DiskShape DEF DiskType
    <2>2. disk' = d
      BY <1>7 DEF Written
    <2>3. Left <= 2 /\ d.output = WrittenAt(runJob, Left - 1)
      BY <1>3, <1>5, <2>1
    <2>4. OutputSoFar'
      BY <1>1, <1>2, <1>4, <1>6, <1>7, <2>1, <2>3, OutputWritten
    <2> QED BY <2>1, <2>2, <2>4
  <1>8. ASSUME NEW d, d = [disk EXCEPT !.output = <<"part">>], WriteFails(d) PROVE OutputSoFar' /\ disk' \in DiskType
    <2>0. <<"part">> \in Seq(OutputParts)
      BY DEF OutputParts
    <2>1. d \in DiskType /\ d.output = <<"part">> /\ d.report = disk.report
      BY <1>8, <2>0, DiskShape DEF DiskType
    <2>2. disk' = d
      BY <1>8 DEF WriteFails
    <2>3. Left <= 1 /\ d.output # Parts(runJob)
      BY <1>3, <1>5, <2>1
    <2>4. OutputSoFar'
      BY <1>1, <1>2, <1>4, <1>6, <1>8, <2>1, <2>3, OutputFails
    <2> QED BY <2>1, <2>2, <2>4
  <1> QED BY <1>7, <1>8 DEF write_output

\* The builder's writer goes on part by part.
LEMMA OutputPart ==
    ASSUME RunInv, NEW step \in {"banner", "raw", "declarations"}, NEW parts \in Seq(OutputParts), WritePart(step, parts),
           runJob.command = "builder" =>
             (Running(step) => /\ WrittenAt(runJob, Left) \o parts = WrittenAt(runJob, Left - 1)
                               /\ parts # <<>> => (Left = 2 => runJob.raw # <<>>))
    PROVE  OutputSoFar' /\ disk' \in DiskType
  <1>1. Running(step)
    BY DEF WritePart
  <1>2. Len(frames) = 1
    BY <1>1, OnMain DEF BodySteps
  <1>3. runJob.command = "builder" /\ Left \in Nat \ {0}
    BY <1>1, <1>2, MainPlace
  <1>4. Needed /\ OutputSoFar /\ unwinding = "no" /\ runJob \in RunJobs
    BY <1>1, <1>3, RunningTop DEF Needed, RunInv
  <1>5. disk.output = WrittenAt(runJob, Left)
    BY <1>4, WrittenAtLeft DEF OutputSoFar
  <1>6. PICK all, part : all = disk.output \o parts /\ part = Append(disk.output, "part")
    OBVIOUS
  <1>7. all \in Seq(OutputParts) /\ part \in Seq(OutputParts) /\ all = WrittenAt(runJob, Left - 1)
    BY <1>1, <1>3, <1>5, <1>6, DiskShape DEF OutputParts
  <1>8. parts # <<>> => part # Parts(runJob)
    BY <1>1, <1>3, <1>4, <1>5, <1>6, NotWhole
  <1>9. ASSUME NEW d, d = [disk EXCEPT !.output = all], Written(d) PROVE OutputSoFar' /\ disk' \in DiskType
    <2>1. d \in DiskType /\ d.output = all
      BY <1>7, <1>9, DiskShape DEF DiskType
    <2>2. disk' = d
      BY <1>9 DEF Written
    <2>3. d.output = WrittenAt(runJob, Left - 1) /\ runJob.command # "bindgen"
      BY <1>3, <1>7, <2>1
    <2>4. OutputSoFar'
      BY <1>1, <1>2, <1>4, <1>9, <2>3, OutputWritten
    <2> QED BY <2>1, <2>2, <2>4
  <1>10. ASSUME NEW d, d = [disk EXCEPT !.output = part], parts # <<>>, WriteFails(d)
         PROVE  OutputSoFar' /\ disk' \in DiskType
    <2>1. d \in DiskType /\ d.output = part
      BY <1>7, <1>10, DiskShape DEF DiskType
    <2>2. disk' = d
      BY <1>10 DEF WriteFails
    <2>3. d.output # Parts(runJob) /\ runJob.command # "bindgen"
      BY <1>3, <1>8, <1>10, <2>1
    <2>4. OutputSoFar'
      BY <1>1, <1>2, <1>4, <1>10, <2>3, OutputFails
    <2> QED BY <2>1, <2>2, <2>4
  <1> QED BY <1>6, <1>9, <1>10 DEF WritePart

LEMMA OutputInParts == ASSUME RunInv, write PROVE OutputSoFar' /\ disk' \in DiskType
  <1>1. \A x \in {"banner", "raw", "declarations"} : Running(x) =>
          /\ Len(frames) = 1 /\ runJob.command = "builder" /\ runJob \in RunJobs
          /\ Left = IF x = "banner" THEN 3 ELSE IF x = "raw" THEN 2 ELSE 1
    <2> TAKE x \in {"banner", "raw", "declarations"}
    <2> HAVE Running(x)
    <2>1. Len(frames) = 1 /\ runJob \in RunJobs
      BY OnMain, RunningTop DEF BodySteps
    <2> QED BY <2>1, MainPlace
  <1>2. "banner" \in OutputParts /\ <<"banner">> \in Seq(OutputParts) /\ <<"declarations">> \in Seq(OutputParts)
    BY DEF OutputParts
  <1>3. CASE WritePart("banner", <<"banner">>)
    <2>1. Running("banner")
      BY <1>3 DEF WritePart
    <2>2. runJob.command = "builder" /\ Left = 3
      BY <1>1, <2>1
    <2>3. WrittenAt(runJob, Left) = <<>> /\ WrittenAt(runJob, Left - 1) = <<"banner">> /\ <<>> \o <<"banner">> = <<"banner">>
      BY <2>2 DEF WrittenAt
    <2>4. WrittenAt(runJob, Left) \o <<"banner">> = WrittenAt(runJob, Left - 1)
      BY ONLY <2>3
    <2>5. ~ Left = 2
      BY ONLY <2>2
    <2> QED BY <1>2, <1>3, <2>4, <2>5, OutputPart
  <1>4. CASE WritePart("raw", runJob.raw)
    <2>1. Running("raw")
      BY <1>4 DEF WritePart
    <2>2. runJob.command = "builder" /\ Left = 2 /\ runJob \in RunJobs
      BY <1>1, <2>1
    <2>3. WrittenAt(runJob, Left) = <<"banner">> /\ WrittenAt(runJob, Left - 1) = <<"banner">> \o runJob.raw
      BY <2>2 DEF WrittenAt
    <2>4. runJob.raw \in Seq(OutputParts)
      BY <2>2, JobShape DEF OutputParts
    <2> QED BY <1>4, <2>3, <2>4, OutputPart
  <1>5. CASE WritePart("declarations", <<"declarations">>)
    <2>1. Running("declarations")
      BY <1>5 DEF WritePart
    <2>2. runJob.command = "builder" /\ Left = 1
      BY <1>1, <2>1
    <2>3. WrittenAt(runJob, Left) = <<"banner">> \o runJob.raw /\ WrittenAt(runJob, Left - 1) = Parts(runJob)
      BY <2>2 DEF WrittenAt
    <2>6. Parts(runJob) = <<"banner">> \o runJob.raw \o <<"declarations">>
      BY ONLY <2>2 DEF Parts
    <2>4. WrittenAt(runJob, Left) \o <<"declarations">> = WrittenAt(runJob, Left - 1)
      BY ONLY <2>3, <2>6
    <2>5. ~ Left = 2
      BY ONLY <2>2
    <2> QED BY <1>2, <1>5, <2>4, <2>5, OutputPart
  <1> QED BY <1>3, <1>4, <1>5 DEF write

LEMMA AboveOne ==
    ASSUME NEW n
    PROVE  (n \in Nat \ {0} /\ n # 1 => n > 1) /\ (n > 1 => n # 1)
  OBVIOUS

\* One step less is left of the frame on top.
LEMMA StepLeft ==
    ASSUME RunInv, NEW x, Running(x), frames' = Advanced(1)
    PROVE  Len(frames') = Len(frames) /\ Left' = (IF Len(frames) = 1 THEN Left - 1 ELSE Left)
  <1>1. Advances(frames', 1)
    BY NextDone
  <1> QED BY <1>1, AdvanceStacks DEF Left

LEMMA OutputNext ==
    ASSUME RunInv, NEW x, Running(x), UNCHANGED <<runJob, disk, brokenPipe, unwinding, exit, builder, account>>,
           frames' = Advanced(1), x \notin {"write", "report", "banner", "raw", "declarations"},
           x = "deny" => ~ DenyRefused
    PROVE  OutputSoFar'
  <1>1. frames # <<>> /\ exit = "running" /\ OutputSoFar
    BY RunningTop DEF RunInv
  <1>2. Len(frames') = Len(frames) /\ Left' = (IF Len(frames) = 1 THEN Left - 1 ELSE Left)
    BY StepLeft
  <1>3. CASE Len(frames) = 1
    BY <1>2, <1>3, OutputStep
  <1>4. CASE Len(frames) # 1
    <2>1. builder'.eq => builder'.partial_eq
      BY <1>1 DEF OutputSoFar
    <2>2. Len(frames') > 1 => Len(frames) > 1
      BY <1>2
    <2>3. Left' = Left /\ account'.skipped = account.skipped
      BY <1>2, <1>4
    <2> QED BY <1>1, <2>1, <2>2, <2>3, OutputStays
  <1> QED BY <1>3, <1>4

LEMMA OutputCall == ASSUME RunInv, NEW s \in Sessions, with_stack(s) PROVE OutputSoFar'
  <1>0. Running(s) /\ UNCHANGED <<runJob, unwinding, work, account, builder, disk, brokenPipe, exit>>
    BY DEF with_stack
  <1>1. frames # <<>> /\ exit = "running" /\ OutputSoFar /\ Len(frames) \in Nat \ {0}
    BY <1>0, RunningTop DEF RunInv
  <1>2. Left' = (IF Len(frames) = 1 THEN Left - 1 ELSE Left)
    BY CallStacks
  <1>3. CASE Len(frames) = 1
    <2>1. s \notin {"write", "report", "banner", "raw", "declarations"} /\ s # "deny"
      BY DEF Sessions
    <2> QED BY <1>0, <1>2, <1>3, <2>1, OutputStep
  <1>4. CASE Len(frames) # 1
    <2>1. builder'.eq => builder'.partial_eq
      BY <1>0, <1>1 DEF OutputSoFar
    <2>2. Len(frames) > 1
      BY <1>1, <1>4, AboveOne
    <2>3. Left' = Left /\ account'.skipped = account.skipped
      BY <1>0, <1>2, <1>4
    <2> QED BY <1>0, <1>1, <2>1, <2>2, <2>3, OutputStays
  <1> QED BY <1>3, <1>4

LEMMA OutputLeave == ASSUME RunInv, Leave PROVE OutputSoFar'
  <1>0. Len(frames) > 1 /\ UNCHANGED <<runJob, unwinding, work, account, builder, disk, brokenPipe, exit>>
    BY DEF Leave
  <1>1. frames # <<>>
    <2>1. frames \in Seq(FrameType) BY DEF RunInv, RunTypes
    <2> QED BY <1>0, <2>1
  <1>2. OutputSoFar
    BY <1>1 DEF RunInv
  <1>3. exit = "running"
    <2>1. exit # "running" => Len(frames) = 1 BY <1>2 DEF OutputSoFar
    <2>2. Len(frames) # 1 BY <1>0, AboveOne
    <2> QED BY <2>1, <2>2
  <1>4. Left' = Left
    BY LeaveStacks
  <1>5. builder'.eq => builder'.partial_eq
    BY <1>0, <1>2 DEF OutputSoFar
  <1> QED BY <1>0, <1>1, <1>3, <1>4, <1>5, OutputStays

\* Where the macros are gone through nothing is written.
LEMMA OutputTally == ASSUME RunInv, StepMacro \/ Record \/ Counts PROVE OutputSoFar'
  <1>1. PICK x : Running(x) /\ x \in {"macro", "record", "counts"} /\ (x # "counts" => StepMacro \/ Record) /\ (x = "counts" => Counts)
    BY DEF StepMacro, Record, Counts
  <1>2. UNCHANGED <<runJob, live, flagged, unwinding, work, builder, disk, brokenPipe, exit>>
    BY DEF StepMacro, Record, Counts
  <1>3. frames # <<>> /\ exit = "running" /\ OutputSoFar /\ Len(frames) \in Nat \ {0}
    BY <1>1, RunningTop DEF RunInv
  <1>4. Len(frames) # 1
    <2>1. Len(frames) = 1 => x \in MainSteps
      BY <1>1, MainPlace
    <2> QED BY <1>1, <2>1 DEF MainSteps
  <1>5. Len(frames) > 1
    BY <1>3, <1>4, AboveOne
  <1>6. account'.skipped = account.skipped \/ Accounting
    <2>1. CASE x = "counts"
      <3>1. account' = [account EXCEPT !.counts = [k \in DOMAIN @ |-> Cardinality(Provided(k))]]
        BY <1>1, <2>1 DEF Counts
      <3>2. account \in [seen : Nat, table : SUBSET ({m.name : m \in Macros} \X (ValueKinds \union {"None"})),
                    skipped : SUBSET {m.name : m \in Macros}, counts : [ValueKinds -> Nat]]
        BY DEF RunInv, RunTypes
      <3> QED BY <3>1, <3>2
    <2>2. CASE x # "counts"
      <3>1. Len(frames) = 2 /\ frames[2].session = "bindings"
        BY <1>1, <2>2, AtMacro
      <3> QED BY <1>5, <3>1 DEF Accounting
    <2> QED BY <2>1, <2>2
  <1>7. Left' = Left
    <2>1. \E n \in Nat : Advances(frames', n)
      <3>1. CASE StepMacro BY <3>1, StepMacroMoves
      <3>2. CASE Record
        <4>1. Running("record") /\ frames' = Advanced(1) BY <3>2 DEF Record
        <4> QED BY <4>1, NextDone
      <3>3. CASE Counts
        <4>1. Running("counts") /\ frames' = Advanced(1) BY <3>3 DEF Counts
        <4> QED BY <4>1, NextDone
      <3> QED BY <3>1, <3>2, <3>3
    <2> QED BY <1>4, <2>1, AdvanceStacks DEF Left
  <1>8. builder'.eq => builder'.partial_eq
    BY <1>2, <1>3 DEF OutputSoFar
  <1> QED BY <1>2, <1>3, <1>5, <1>6, <1>7, <1>8, OutputStays

LEMMA OutputExit == ASSUME RunInv, Exit PROVE OutputSoFar'
  <1>1. /\ Len(frames) = 1 /\ (Top.steps = <<>> \/ unwinding # "no")
        /\ exit' = CASE unwinding = "no" -> "success" [] unwinding = "panic" -> "panic"
                     [] OTHER -> IF brokenPipe THEN "success" ELSE "failure"
        /\ UNCHANGED <<runJob, frames, live, flagged, unwinding, work, account, builder, disk, brokenPipe>>
    BY DEF Exit
  <1>2. frames # <<>>
    <2>1. Len(frames) = 1 BY <1>1
    <2> QED BY ONLY <2>1
  <1>3. OutputSoFar /\ Left' = Left
    BY <1>1, <1>2 DEF RunInv, Left
  <1>4. unwinding # "no" \/ Left = 0
    BY <1>1 DEF Top, Left
  <1>5. WrittenSoFar' = WrittenSoFar
    BY <1>1, <1>3, WrittenAtLeft
  <1>6. exit' # "running" =>
          /\ Len(frames') = 1 /\ (unwinding' # "no" \/ Left' = 0)
          /\ exit' = CASE unwinding' = "no" -> "success" [] unwinding' = "panic" -> "panic"
                      [] OTHER -> IF brokenPipe' THEN "success" ELSE "failure"
    BY <1>1, <1>3, <1>4
  <1> QED BY <1>1, <1>3, <1>5, <1>6 DEF OutputSoFar, Needed

LEMMA OutputStart == ASSUME RunInv, StartCommand PROVE OutputSoFar'
  <1>1. /\ Stacked(frames', runJob') /\ Len(frames') = 1 /\ frames'[1].steps = Program(runJob')
        /\ frames = <<>> /\ unwinding = "no" /\ exit = "running" /\ disk.output = <<>> /\ account = NoAccount
        /\ ~ builder.eq /\ ~ brokenPipe
    BY StartStacks
  <1>2. UNCHANGED <<unwinding, account, builder, disk, brokenPipe, exit>>
    BY DEF StartCommand
  <1>3. runJob' \in RunJobs
    BY <1>1 DEF Stacked
  <1>4. PICK l : l = Len(Program(runJob'))
    OBVIOUS
  <1>5. /\ l \in 2 .. 9
        /\ runJob'.command = "bindgen" => l \in {6, 7}
        /\ runJob'.command = "builder" => l = 9
    <2>0. l \in 2 .. 9
      BY <1>3, <1>4, ProgramShape
    <2>1. runJob'.command = "builder" => l = 9
      BY <1>3, <1>4, ProgramShape, SMTT(60)
    <2>2. runJob'.command = "bindgen" /\ ~ runJob'.report => l = 6
      BY <1>3, <1>4, ProgramShape
    <2>3. runJob'.command = "bindgen" /\ runJob'.report => l = 7
      BY <1>3, <1>4, ProgramShape
    <2>4. runJob'.report \in BOOLEAN BY <1>3, JobShape
    <2> QED BY <2>0, <2>1, <2>2, <2>3, <2>4
  <1>6. Left' = l
    BY <1>1, <1>4 DEF Left
  <1>7. WrittenAt(runJob', l) = <<>>
    BY <1>5 DEF WrittenAt
  <1>8. WrittenSoFar' = <<>>
    BY <1>6, <1>7, WrittenAtLeft
  <1>9. Left' > 0 /\ (runJob'.command = "bindgen" => ~ Left' <= 2 /\ ~ Left' <= 1)
    BY <1>5, <1>6
  <1> QED BY <1>1, <1>2, <1>8, <1>9 DEF OutputSoFar

\* Eq is derived only with PartialEq, and the error recorded is a setter's.
BuilderType == [partial_eq : BOOLEAN, eq : BOOLEAN, error : {""} \union {s.trait : s \in Setters}]
LEMMA DeriveShape ==
    ASSUME NEW b \in BuilderType, NEW s \in Setters
    PROVE  derive(b, s) \in BuilderType /\ ((b.eq => b.partial_eq) => (derive(b, s).eq => derive(b, s).partial_eq))
  <1>1. s.enabled \in BOOLEAN
    BY RunAssumption
  <1>2. CASE s.trait = "eq"
    <2>1. derive(b, s) = [b EXCEPT !.eq = s.enabled, !.partial_eq = b.partial_eq \/ s.enabled]
      BY <1>2 DEF derive
    <2> QED BY <1>1, <2>1 DEF BuilderType
  <1>3. CASE s.trait = "partial_eq"
    <2>1. derive(b, s) = [b EXCEPT !.partial_eq = s.enabled, !.eq = b.eq /\ s.enabled]
      BY <1>3 DEF derive
    <2> QED BY <1>1, <2>1 DEF BuilderType
  <1>4. CASE s.trait # "eq" /\ s.trait # "partial_eq"
    <2>1. derive(b, s) = IF b.error = "" THEN [b EXCEPT !.error = s.trait] ELSE b
      BY <1>4 DEF derive
    <2>2. s.trait \in {x.trait : x \in Setters}
      OBVIOUS
    <2> QED BY <2>1, <2>2 DEF BuilderType
  <1> QED BY <1>2, <1>3, <1>4

LEMMA OutputSet == ASSUME RunInv, Set PROVE OutputSoFar' /\ builder' \in BuilderType
  <1>1. PICK s \in Setters : builder' = derive(builder, s)
    BY DEF Set
  <1>2. builder \in BuilderType
    BY DEF RunInv, RunTypes, BuilderType
  <1>3. Running("setters") /\ UNCHANGED <<runJob, frames, live, flagged, unwinding, work, account, disk, brokenPipe, exit>>
    BY DEF Set
  <1>4. frames # <<>> /\ exit = "running" /\ OutputSoFar
    BY <1>3, RunningTop DEF RunInv
  <1>5. builder'.eq => builder'.partial_eq
    BY <1>1, <1>2, <1>4, DeriveShape DEF OutputSoFar
  <1>6. Left' = Left
    BY <1>3 DEF Left
  <1>7. OutputSoFar'
    BY <1>3, <1>4, <1>5, <1>6, OutputStays
  <1>8. builder' \in BuilderType
    BY <1>1, <1>2, DeriveShape
  <1> QED BY <1>7, <1>8

\* Errors, panics and steps of the calling thread that write nothing.
LEMMA OutputOther ==
    ASSUME RunInv, \/ Generate \/ Deny \/ Create \/ \E s \in Sessions : SpawnFails(s)
                   \/ \E s \in Phases : Phase(s) \/ PhaseFails(s) \/ PhasePanics(s)
    PROVE  OutputSoFar' /\ UNCHANGED <<disk, builder>>
  <1>1. ASSUME NEW x, Running(x), UNCHANGED <<runJob, disk, brokenPipe, unwinding, exit, builder, account>>,
               frames' = Advanced(1), x \notin {"write", "report", "banner", "raw", "declarations"}, x = "deny" => ~ DenyRefused
        PROVE  OutputSoFar' /\ UNCHANGED <<disk, builder>>
    BY <1>1, OutputNext
  <1>2. ASSUME NEW x, Running(x), UNCHANGED <<runJob, frames, disk, brokenPipe, exit, builder, account>>,
               unwinding' \in {"error", "panic"}
        PROVE  OutputSoFar' /\ UNCHANGED <<disk, builder>>
    BY <1>2, OutputRaised
  <1>3. CASE Generate
    BY <1>1, <1>2, <1>3 DEF Generate
  <1>4. CASE Deny
    BY <1>1, <1>2, <1>4 DEF Deny
  <1>5. CASE Create
    BY <1>1, <1>2, <1>5 DEF Create, Written, Raise
  <1>6. ASSUME NEW s \in Sessions, SpawnFails(s) PROVE OutputSoFar' /\ UNCHANGED <<disk, builder>>
    BY <1>2, <1>6 DEF SpawnFails, Raise
  <1>7. ASSUME NEW s \in Phases, Phase(s) PROVE OutputSoFar' /\ UNCHANGED <<disk, builder>>
    <2>1. s \notin {"write", "report", "banner", "raw", "declarations"} /\ s # "deny"
      BY DEF Phases, Recursive
    <2> QED BY <1>1, <1>7, <2>1 DEF Phase
  <1>8. ASSUME NEW s \in Phases, PhaseFails(s) \/ PhasePanics(s) PROVE OutputSoFar' /\ UNCHANGED <<disk, builder>>
    BY <1>2, <1>8 DEF PhaseFails, PhasePanics, Raise
  <1> QED BY <1>3, <1>4, <1>5, <1>6, <1>7, <1>8

LEMMA OutputKept ==
    ASSUME RunInv, RunNext
    PROVE  OutputSoFar' /\ disk' \in DiskType /\ builder' \in BuilderType
  <1>0. disk \in DiskType /\ builder \in BuilderType
    BY DEF RunInv, RunTypes, DiskType, BuilderType
  <1>1. CASE StartCommand
    BY <1>0, <1>1, OutputStart DEF StartCommand
  <1>2. CASE Leave
    BY <1>0, <1>2, OutputLeave DEF Leave
  <1>3. ASSUME NEW s \in Sessions, with_stack(s) PROVE OutputSoFar' /\ disk' \in DiskType /\ builder' \in BuilderType
    BY <1>0, <1>3, OutputCall DEF with_stack
  <1>4. CASE \/ Generate \/ Deny \/ Create \/ \E s \in Sessions : SpawnFails(s)
             \/ \E s \in Phases : Phase(s) \/ PhaseFails(s) \/ PhasePanics(s)
    BY <1>0, <1>4, OutputOther
  <1>5. CASE StepMacro \/ Record \/ Counts
    <2>1. UNCHANGED <<disk, builder>>
      BY <1>5 DEF StepMacro, Record, Counts
    <2> QED BY <1>0, <1>5, <2>1, OutputTally
  <1>6. CASE WriteReport
    <2>1. UNCHANGED builder BY <1>6 DEF WriteReport, Written, WriteFails
    <2> QED BY <1>0, <1>6, <2>1, OutputReport
  <1>7. CASE write_output
    <2>1. UNCHANGED builder BY <1>7 DEF write_output, Written, WriteFails
    <2> QED BY <1>0, <1>7, <2>1, OutputOnce
  <1>8. CASE write
    <2>1. UNCHANGED builder BY <1>8 DEF write, WritePart, Written, WriteFails
    <2> QED BY <1>0, <1>8, <2>1, OutputInParts
  <1>9. CASE Exit
    BY <1>0, <1>9, OutputExit DEF Exit
  <1>10. CASE Set
    BY <1>0, <1>10, OutputSet DEF Set
  <1> QED BY <1>1, <1>2, <1>3, <1>4, <1>5, <1>6, <1>7, <1>8, <1>9, <1>10 DEF RunNext, RunStep

-----------------------------------------------------------------------------
(* AccountSoFar.                                                            *)

MacroNames == {m.name : m \in Macros}
AccountType == [seen : Nat, table : SUBSET (MacroNames \X (ValueKinds \union {"None"})),
                skipped : SUBSET MacroNames, counts : [ValueKinds -> Nat]]

LEMMA MacroShape ==
    ASSUME NEW job \in RunJobs, NEW k \in 1 .. Len(job.macros)
    PROVE  /\ job.macros[k] \in Macros /\ Len(job.macros) \in Nat /\ k \in DOMAIN job.macros
           /\ \A i \in 1 .. Len(job.macros) : job.macros[i].name = job.macros[k].name => i = k
           /\ job.macros[k].name \in MacroNames
  <1>1. job.macros \in Seq(Macros)
    BY JobShape
  <1>2. job.macros[k] \in Macros /\ Len(job.macros) \in Nat /\ DOMAIN job.macros = 1 .. Len(job.macros)
    BY <1>1
  <1>3. \A i, j \in DOMAIN job.macros : job.macros[i].name = job.macros[j].name => i = j
    BY RunAssumption
  <1> QED BY <1>2, <1>3 DEF MacroNames

\* One macro more is settled.
LEMMA SettleOne ==
    ASSUME NEW job \in RunJobs, NEW k \in 1 .. Len(job.macros), NEW m, m = job.macros[k],
           NEW before, before = 1 .. k - 1, NEW upto, upto = 1 .. k
    PROVE  /\ upto = before \union {k} /\ k \notin before
           /\ TableOf(job, upto) = TableOf(job, before) \union (IF Object(job, m) /\ m.kind # "self" THEN {Named(m)} ELSE {})
           /\ SkippedOf(job, upto) = SkippedOf(job, before) \union (IF IsSkipped(job, m) THEN {m.name} ELSE {})
           /\ \A kind \in ValueKinds :
                /\ Cardinality(OfKind(job, before, kind)) \in Nat
                /\ Cardinality(OfKind(job, upto, kind)) =
                     Cardinality(OfKind(job, before, kind)) + (IF Object(job, m) /\ m.kind = kind THEN 1 ELSE 0)
           /\ \A x \in TableOf(job, before) : x[1] # m.name
  <1>1. k \in Nat /\ upto = before \union {k} /\ k \notin before
    BY MacroShape
  <1>2. TableOf(job, upto) = TableOf(job, before) \union (IF Object(job, m) /\ m.kind # "self" THEN {Named(m)} ELSE {})
    BY <1>1 DEF TableOf
  <1>3. SkippedOf(job, upto) = SkippedOf(job, before) \union (IF IsSkipped(job, m) THEN {m.name} ELSE {})
    BY <1>1 DEF SkippedOf
  <1>4. ASSUME NEW kind \in ValueKinds
        PROVE  /\ Cardinality(OfKind(job, before, kind)) \in Nat
               /\ Cardinality(OfKind(job, upto, kind)) =
                    Cardinality(OfKind(job, before, kind)) + (IF Object(job, m) /\ m.kind = kind THEN 1 ELSE 0)
    <2>1. PICK old, now : old = OfKind(job, before, kind) /\ now = OfKind(job, upto, kind)
      OBVIOUS
    <2>2. old \subseteq before /\ k \notin old /\ now = old \union (IF Object(job, m) /\ m.kind = kind THEN {k} ELSE {})
      BY <1>1, <2>1 DEF OfKind
    <2>3. IsFiniteSet(before)
      BY <1>1, FS_Interval
    <2>4. IsFiniteSet(old) /\ Cardinality(old) \in Nat
      BY <2>2, <2>3, FS_Subset, FS_CardinalityType
    <2>5. Cardinality(old \union {k}) = Cardinality(old) + 1
      BY <2>2, <2>4, FS_AddElement
    <2>6. CASE Object(job, m) /\ m.kind = kind
      <3>1. now = old \union {k}
        BY <2>2, <2>6
      <3> QED BY <2>1, <2>4, <2>5, <2>6, <3>1
    <2>7. CASE ~ (Object(job, m) /\ m.kind = kind)
      <3>1. now = old
        BY <2>2, <2>7
      <3> QED BY <2>1, <2>4, <2>7, <3>1
    <2> QED BY <2>6, <2>7
  <1>5. ASSUME NEW x \in TableOf(job, before) PROVE x[1] # m.name
    <2>1. PICK i \in before : x = Named(job.macros[i])
      BY DEF TableOf
    <2>2. x[1] = job.macros[i].name
      BY <2>1 DEF Named
    <2>3. i \in 1 .. Len(job.macros) /\ i # k
      BY <1>1, MacroShape
    <2> QED BY <2>2, <2>3, MacroShape
  <1> QED BY <1>1, <1>2, <1>3, <1>4, <1>5

\* A macro looked at first: left out, skipped, or hidden until it is evaluated.
LEMMA LookedAt ==
    ASSUME NEW job \in RunJobs, NEW a \in AccountType, NEW k \in 1 .. Len(job.macros), a.seen = k - 1, NEW m, m = job.macros[k],
           Accounted(job, a, 1 .. k - 1, {})
    PROVE  /\ ~ Considered(job, m) => Accounted(job, [a EXCEPT !.seen = @ + 1], 1 .. k, {})
           /\ Considered(job, m) /\ m.function =>
                Accounted(job, [a EXCEPT !.seen = @ + 1, !.skipped = @ \union {m.name}], 1 .. k, {})
           /\ Accounted(job, [a EXCEPT !.seen = @ + 1, !.table = @ \union {<<m.name, "None">>}], 1 .. k - 1, {<<m.name, "None">>})
           /\ [a EXCEPT !.seen = @ + 1] \in AccountType
           /\ [a EXCEPT !.seen = @ + 1, !.skipped = @ \union {m.name}] \in AccountType
           /\ [a EXCEPT !.seen = @ + 1, !.table = @ \union {<<m.name, "None">>}] \in AccountType
  <1>1. PICK b, c, d : /\ b = [a EXCEPT !.seen = a.seen + 1]
                       /\ c = [a EXCEPT !.seen = a.seen + 1, !.skipped = a.skipped \union {m.name}]
                       /\ d = [a EXCEPT !.seen = a.seen + 1, !.table = a.table \union {<<m.name, "None">>}]
    OBVIOUS
  <1>2. m.name \in MacroNames
    BY MacroShape
  <1>3. b \in AccountType /\ b.table = a.table /\ b.skipped = a.skipped /\ b.counts = a.counts
    BY <1>1, SMTT(40) DEF AccountType
  <1>a. /\ a.skipped \union {m.name} \in SUBSET MacroNames
        /\ a.table \union {<<m.name, "None">>} \in SUBSET (MacroNames \X (ValueKinds \union {"None"}))
        /\ a.seen + 1 \in Nat
    BY <1>2 DEF AccountType
  <1>4. c \in AccountType /\ c.table = a.table /\ c.skipped = a.skipped \union {m.name} /\ c.counts = a.counts
    BY <1>1, <1>a DEF AccountType
  <1>5. d \in AccountType /\ d.table = a.table \union {<<m.name, "None">>} /\ d.skipped = a.skipped /\ d.counts = a.counts
    BY <1>1, <1>a DEF AccountType
  <1>6. /\ a.table = TableOf(job, 1 .. k - 1) /\ a.skipped = SkippedOf(job, 1 .. k - 1)
        /\ a.counts = [x \in ValueKinds |-> Cardinality(OfKind(job, 1 .. k - 1, x))]
    BY DEF Accounted
  <1>7. ASSUME ~ Object(job, m)
        PROVE  /\ TableOf(job, 1 .. k) = TableOf(job, 1 .. k - 1)
               /\ [x \in ValueKinds |-> Cardinality(OfKind(job, 1 .. k, x))] = [x \in ValueKinds |-> Cardinality(OfKind(job, 1 .. k - 1, x))]
               /\ SkippedOf(job, 1 .. k) = SkippedOf(job, 1 .. k - 1) \union (IF IsSkipped(job, m) THEN {m.name} ELSE {})
    <2>0. TableOf(job, 1 .. k) = TableOf(job, 1 .. k - 1) \union (IF Object(job, m) /\ m.kind # "self" THEN {Named(m)} ELSE {})
      BY SettleOne
    <2>1. TableOf(job, 1 .. k) = TableOf(job, 1 .. k - 1)
      BY <1>7, <2>0
    <2>2. \A x \in ValueKinds : Cardinality(OfKind(job, 1 .. k, x)) = Cardinality(OfKind(job, 1 .. k - 1, x))
      BY <1>7, SettleOne
    <2>3. SkippedOf(job, 1 .. k) = SkippedOf(job, 1 .. k - 1) \union (IF IsSkipped(job, m) THEN {m.name} ELSE {})
      BY SettleOne
    <2> QED BY <2>1, <2>2, <2>3
  <1>8. ~ Considered(job, m) => Accounted(job, b, 1 .. k, {})
    BY <1>3, <1>6, <1>7 DEF Accounted, Object, IsSkipped
  <1>9. Considered(job, m) /\ m.function => Accounted(job, c, 1 .. k, {})
    BY <1>4, <1>6, <1>7 DEF Accounted, Object, IsSkipped
  <1>10. Accounted(job, d, 1 .. k - 1, {<<m.name, "None">>})
    BY <1>5, <1>6 DEF Accounted
  <1> QED BY <1>1, <1>3, <1>4, <1>5, <1>8, <1>9, <1>10

\* What a macro came to, as recorded(m) would have it of any account.
RecordedIn(a, m) ==
    CASE m.kind \in {"integer", "float", "string"} ->
            [a EXCEPT !.table = {x \in a.table : x[1] # m.name} \union {<<m.name, m.kind>>}, !.counts[m.kind] = @ + 1]
      [] m.kind = "self" -> [a EXCEPT !.table = {x \in a.table : x[1] # m.name}]
      [] OTHER -> [a EXCEPT !.skipped = @ \union {m.name}]
LEMMA Settled ==
    ASSUME NEW job \in RunJobs, NEW a \in AccountType, NEW k \in 1 .. Len(job.macros), NEW m, m = job.macros[k],
           Object(job, m), Accounted(job, a, 1 .. k - 1, {<<m.name, "None">>}), NEW r, r = RecordedIn(a, m)
    PROVE  r \in AccountType /\ r.seen = a.seen /\ Accounted(job, r, 1 .. k, {})
  <1>1. m.name \in MacroNames
    BY MacroShape
  <1>2. PICK t : t = TableOf(job, 1 .. k - 1)
    OBVIOUS
  <1>3. /\ a.table = t \union {<<m.name, "None">>} /\ a.skipped = SkippedOf(job, 1 .. k - 1)
        /\ a.counts = [x \in ValueKinds |-> Cardinality(OfKind(job, 1 .. k - 1, x))]
    BY <1>2 DEF Accounted
  <1>4. \A x \in t : x[1] # m.name
    BY <1>2, SettleOne
  <1>5. {x \in a.table : x[1] # m.name} = t
    BY <1>3, <1>4
  <1>6. TableOf(job, 1 .. k) = t \union (IF m.kind # "self" THEN {Named(m)} ELSE {})
    BY <1>2, SettleOne
  <1>7. SkippedOf(job, 1 .. k) = a.skipped \union (IF IsSkipped(job, m) THEN {m.name} ELSE {})
    BY <1>3, SettleOne
  <1>8. \A kind \in ValueKinds : Cardinality(OfKind(job, 1 .. k, kind)) = a.counts[kind] + (IF m.kind = kind THEN 1 ELSE 0)
    BY <1>3, SettleOne
  <1>9. a.counts \in [ValueKinds -> Nat] /\ a.table \subseteq MacroNames \X (ValueKinds \union {"None"})
        /\ a.skipped \subseteq MacroNames /\ a.seen \in Nat
    BY DEF AccountType
  <1>10. CASE m.kind \in ValueKinds
    <2>1. r = [a EXCEPT !.table = t \union {<<m.name, m.kind>>}, !.counts = [a.counts EXCEPT ![m.kind] = @ + 1]]
      BY <1>5, <1>10 DEF RecordedIn, ValueKinds
    <2>2. PICK c : c = [a.counts EXCEPT ![m.kind] = @ + 1]
      OBVIOUS
    <2>3. c \in [ValueKinds -> Nat] /\ \A kind \in ValueKinds : c[kind] = a.counts[kind] + (IF m.kind = kind THEN 1 ELSE 0)
      BY <1>9, <1>10, <2>2
    <2>4. c = [x \in ValueKinds |-> Cardinality(OfKind(job, 1 .. k, x))]
      BY <1>8, <2>3
    <2>5. t \union {<<m.name, m.kind>>} \subseteq MacroNames \X (ValueKinds \union {"None"})
      BY <1>1, <1>3, <1>9, <1>10
    <2>9. PICK w : w = t \union {<<m.name, m.kind>>}
      OBVIOUS
    <2>a. r = [a EXCEPT !.table = w, !.counts = c]
      BY <2>1, <2>2, <2>9
    <2>b. w \in SUBSET (MacroNames \X (ValueKinds \union {"None"})) /\ c \in [ValueKinds -> Nat]
      BY <2>3, <2>5, <2>9
    <2>c. r \in AccountType /\ r.table = w /\ r.counts = c /\ r.skipped = a.skipped /\ r.seen = a.seen
      BY ONLY <2>a, <2>b, a \in AccountType DEF AccountType
    <2>6. r \in AccountType /\ r.table = t \union {<<m.name, m.kind>>} /\ r.counts = c /\ r.skipped = a.skipped /\ r.seen = a.seen
      BY <2>9, <2>c
    <2>7. TableOf(job, 1 .. k) = t \union {<<m.name, m.kind>>}
      BY <1>6, <1>10 DEF Named, ValueKinds
    <2>8. SkippedOf(job, 1 .. k) = a.skipped
      BY <1>7, <1>10 DEF IsSkipped, Object
    <2> QED BY <2>4, <2>6, <2>7, <2>8 DEF Accounted
  <1>11. CASE m.kind = "self"
    <2>1. r = [a EXCEPT !.table = t]
      BY <1>5, <1>11 DEF RecordedIn
    <2>2. r \in AccountType /\ r.table = t /\ r.counts = a.counts /\ r.skipped = a.skipped /\ r.seen = a.seen
      BY <1>3, <1>9, <2>1 DEF AccountType
    <2>3. TableOf(job, 1 .. k) = t /\ SkippedOf(job, 1 .. k) = a.skipped
      BY <1>6, <1>7, <1>11 DEF IsSkipped, Object
    <2>4. a.counts = [x \in ValueKinds |-> Cardinality(OfKind(job, 1 .. k, x))]
      BY <1>8, <1>9, <1>11 DEF ValueKinds
    <2> QED BY <2>2, <2>3, <2>4 DEF Accounted
  <1>12. CASE m.kind \notin ValueKinds /\ m.kind # "self"
    <2>1. r = [a EXCEPT !.skipped = a.skipped \union {m.name}]
      BY <1>12 DEF RecordedIn, ValueKinds
    <2>2. r \in AccountType /\ r.table = a.table /\ r.counts = a.counts /\ r.skipped = a.skipped \union {m.name} /\ r.seen = a.seen
      BY <1>1, <1>9, <2>1, SMTT(60) DEF AccountType
    <2>3. TableOf(job, 1 .. k) = a.table
      BY <1>3, <1>6, <1>12 DEF Named
    <2>4. SkippedOf(job, 1 .. k) = a.skipped \union {m.name}
      BY <1>7, <1>12 DEF IsSkipped, Object
    <2>5. a.counts = [x \in ValueKinds |-> Cardinality(OfKind(job, 1 .. k, x))]
      BY <1>8, <1>9, <1>12
    <2> QED BY <2>2, <2>3, <2>4, <2>5 DEF Accounted
  <1> QED BY <1>10, <1>11, <1>12

\* The part of AccountSoFar about the macros gone through, with `left` steps left of the session.
BehindAt(job, a, left) == left - 3 * (Len(job.macros) - a.seen) - 1
Tallied(job, a, left) ==
    /\ a.seen <= Len(job.macros) /\ BehindAt(job, a, left) \in -1 .. 2 /\ (BehindAt(job, a, left) = -1 => left = 0)
    /\ BehindAt(job, a, left) <= 0 => Accounted(job, a, 1 .. a.seen, {})
    /\ BehindAt(job, a, left) > 0 =>
          /\ a.seen > 0 /\ Object(job, job.macros[a.seen])
          /\ Accounted(job, a, 1 .. a.seen - 1, {<<job.macros[a.seen].name, "None">>})

LEMMA TalliedNow ==
    ASSUME RunInv, Len(frames) > 1, frames # <<>>, frames[2].session = "bindings"
    PROVE  /\ Tallied(runJob, account, Len(frames[2].steps)) /\ Behind = BehindAt(runJob, account, Len(frames[2].steps))
           /\ account \in AccountType /\ runJob \in RunJobs /\ Len(frames[2].steps) \in Nat
  <1>1. Stacked(frames, runJob)
    BY StackedNow
  <1>2. frames[2] \in FrameType /\ runJob \in RunJobs
    BY <1>1 DEF Stacked
  <1>3. frames[2].steps \in Seq(Steps)
    BY <1>2 DEF FrameType, Steps
  <1>4. AccountSoFar
    BY DEF RunInv
  <1>5. account \in AccountType
    BY DEF RunInv, RunTypes, AccountType, MacroNames
  <1>6. PICK a, l : a = account /\ l = Len(frames[2].steps)
    OBVIOUS
  <1>7. Behind = BehindAt(runJob, a, l)
    BY <1>6 DEF Behind, BehindAt
  <1>8. frames[2].steps = <<>> => l = 0
    BY <1>6
  <1>9. Tallied(runJob, a, l)
    BY <1>4, <1>6, <1>7, <1>8 DEF AccountSoFar, Tallied
  <1> QED BY <1>2, <1>3, <1>5, <1>6, <1>7, <1>9

LEMMA TalliedThen ==
    ASSUME Stacked(frames', runJob'),
           runJob'.command = "bindgen" /\ Left' > 2 + ReportSteps' => account' = NoAccount,
           Len(frames') > 1 /\ frames'[2].session = "bindings" => Tallied(runJob', account', Len(frames'[2].steps))
    PROVE  AccountSoFar'
  <1>1. ASSUME Len(frames') > 1, Len(frames'[2].steps) = 0 PROVE frames'[2].steps = <<>>
    <2>1. frames'[2] \in FrameType
      BY <1>1 DEF Stacked
    <2>2. frames'[2].steps \in Seq(Steps)
      BY <2>1 DEF FrameType, Steps
    <2> QED BY <1>1, <2>2
  <1>2. PICK l : l = Len(frames'[2].steps)
    OBVIOUS
  <1>3. Behind' = BehindAt(runJob', account', l)
    BY <1>2 DEF Behind, BehindAt
  <1> QED BY <1>1, <1>2, <1>3 DEF AccountSoFar, Tallied

LEMMA NoAccountType == NoAccount \in AccountType /\ NoAccount.seen = 0
  <1>1. PICK a : a = NoAccount
    OBVIOUS
  <1>2. /\ a.seen = 0 /\ a.table = {} /\ a.skipped = {} /\ a.counts = [integer |-> 0, float |-> 0, string |-> 0]
        /\ a \in AccountType
    BY <1>1 DEF NoAccount, AccountType, ValueKinds
  <1> QED BY <1>1, <1>2

LEMMA TallyNone ==
    ASSUME NEW job \in RunJobs
    PROVE  NoAccount \in AccountType /\ Tallied(job, NoAccount, 3 * Len(job.macros) + 1)
  <1>1. Len(job.macros) \in Nat
    BY JobShape
  <1>2. PICK a : a = NoAccount
    OBVIOUS
  <1>3. /\ a \in AccountType /\ a.seen = 0 /\ a.table = {} /\ a.skipped = {}
        /\ a.counts = [integer |-> 0, float |-> 0, string |-> 0]
    BY <1>2 DEF NoAccount, AccountType, ValueKinds
  <1>4. BehindAt(job, a, 3 * Len(job.macros) + 1) = 0
    BY <1>1, <1>3 DEF BehindAt
  <1>5. 1 .. 0 = {}
    OBVIOUS
  <1>6. TableOf(job, 1 .. 0) = {} /\ SkippedOf(job, 1 .. 0) = {}
    BY <1>5 DEF TableOf, SkippedOf
  <1>7. \A kind \in ValueKinds : Cardinality(OfKind(job, 1 .. 0, kind)) = 0
    BY <1>5, FS_EmptySet DEF OfKind
  <1>8. a.counts = [kind \in ValueKinds |-> Cardinality(OfKind(job, 1 .. 0, kind))]
    <2>1. a.counts = [kind \in ValueKinds |-> 0]
      BY <1>3 DEF ValueKinds
    <2> QED BY <1>7, <2>1
  <1>9. Accounted(job, a, 1 .. a.seen, {})
    BY <1>3, <1>6, <1>8 DEF Accounted
  <1> QED BY <1>1, <1>2, <1>3, <1>4, <1>9 DEF Tallied

LEMMA TallyEvaluate ==
    ASSUME NEW job \in RunJobs, NEW a \in AccountType, NEW left \in Nat, Tallied(job, a, left), BehindAt(job, a, left) = 2
    PROVE  Tallied(job, a, left - 1)
  <1>1. Len(job.macros) \in Nat /\ a.seen \in Nat
    BY JobShape DEF AccountType
  <1>2. PICK n, s, c, d : n = Len(job.macros) /\ s = a.seen /\ c = BehindAt(job, a, left) /\ d = BehindAt(job, a, left - 1)
    OBVIOUS
  <1>3. c = left - 3 * (n - s) - 1 /\ d = left - 1 - 3 * (n - s) - 1
    BY <1>2 DEF BehindAt
  <1>4. d = c - 1
    BY <1>1, <1>2, <1>3, SMTT(40)
  <1>5. d = 1
    BY <1>2, <1>4
  <1> QED BY <1>2, <1>5 DEF Tallied

LEMMA TallyEmit ==
    ASSUME NEW job \in RunJobs, NEW a \in AccountType, Tallied(job, a, 1)
    PROVE  a.seen = Len(job.macros) /\ BehindAt(job, a, 1) = 0 /\ Tallied(job, a, 0) /\ Accounted(job, a, 1 .. Len(job.macros), {})
  <1>1. Len(job.macros) \in Nat /\ a.seen \in Nat
    BY JobShape DEF AccountType
  <1>2. PICK n, s, c, d : n = Len(job.macros) /\ s = a.seen /\ c = BehindAt(job, a, 1) /\ d = BehindAt(job, a, 0)
    OBVIOUS
  <1>3. c = 1 - 3 * (n - s) - 1 /\ d = 0 - 3 * (n - s) - 1
    BY <1>2 DEF BehindAt
  <1>4. c \in 0 .. 2 /\ s <= n
    BY <1>2 DEF Tallied
  <1>5. s = n /\ c = 0 /\ d = -1
    BY <1>1, <1>2, <1>3, <1>4, SMTT(60)
  <1>6. Accounted(job, a, 1 .. a.seen, {})
    BY <1>2, <1>5 DEF Tallied
  <1> QED BY <1>2, <1>4, <1>5, <1>6 DEF Tallied

LEMMA TallyMacro ==
    ASSUME NEW job \in RunJobs, NEW a \in AccountType, NEW left \in Nat, Tallied(job, a, left), BehindAt(job, a, left) = 0,
           a.seen < Len(job.macros), NEW m, m = job.macros[a.seen + 1],
           NEW b, b = [a EXCEPT !.seen = @ + 1],
           NEW c, c = [a EXCEPT !.seen = @ + 1, !.skipped = @ \union {m.name}],
           NEW d, d = [a EXCEPT !.seen = @ + 1, !.table = @ \union {<<m.name, "None">>}]
    PROVE  /\ ~ Considered(job, m) => Tallied(job, b, left - 3)
           /\ Considered(job, m) /\ m.function => Tallied(job, c, left - 3)
           /\ Object(job, m) => Tallied(job, d, left - 1) /\ Tallied(job, d, left - 2)
  <1>1. Len(job.macros) \in Nat /\ a.seen \in Nat
    BY JobShape DEF AccountType
  <1>2. PICK n, s, k : n = Len(job.macros) /\ s = a.seen /\ k = s + 1
    OBVIOUS
  <1>3. k \in 1 .. n /\ s = k - 1
    BY <1>1, <1>2
  <1>4. Accounted(job, a, 1 .. k - 1, {})
    BY <1>2, <1>3 DEF Tallied
  <1>5. /\ b \in AccountType /\ c \in AccountType /\ d \in AccountType
        /\ ~ Considered(job, m) => Accounted(job, b, 1 .. k, {})
        /\ Considered(job, m) /\ m.function => Accounted(job, c, 1 .. k, {})
        /\ Accounted(job, d, 1 .. k - 1, {<<m.name, "None">>})
    BY <1>2, <1>3, <1>4, LookedAt, ZenonT(60)
  <1>6. b.seen = k /\ c.seen = k /\ d.seen = k
    BY <1>2 DEF AccountType
  <1>7. left = 3 * (n - s) + 1
    <2>1. left - 3 * (n - s) - 1 = 0
      BY <1>2 DEF BehindAt
    <2> QED BY <1>1, <1>2, <2>1
  <1>8. ASSUME NEW e, e.seen = k
        PROVE  BehindAt(job, e, left - 3) = 0 /\ BehindAt(job, e, left - 1) = 2 /\ BehindAt(job, e, left - 2) = 1
    <2>1. /\ BehindAt(job, e, left - 3) = left - 3 - 3 * (n - k) - 1
          /\ BehindAt(job, e, left - 1) = left - 1 - 3 * (n - k) - 1
          /\ BehindAt(job, e, left - 2) = left - 2 - 3 * (n - k) - 1
      BY <1>2, <1>8 DEF BehindAt
    <2>2. n \in Nat /\ s \in Nat /\ k \in Nat /\ k = s + 1
      BY <1>1, <1>2
    <2>3. /\ left - 3 - 3 * (n - k) - 1 = 0
          /\ left - 1 - 3 * (n - k) - 1 = 2
          /\ left - 2 - 3 * (n - k) - 1 = 1
      BY ONLY <1>7, <2>2
    <2> QED BY <2>1, <2>3
  <1>9. k <= n /\ k > 0
    BY <1>1, <1>2, <1>3
  <1>10. ~ Considered(job, m) => Tallied(job, b, left - 3)
    <2>1. BehindAt(job, b, left - 3) = 0 BY <1>6, <1>8
    <2>2. PICK l : l = left - 3 OBVIOUS
    <2> QED BY <1>2, <1>5, <1>6, <1>9, <2>1, <2>2 DEF Tallied
  <1>11. Considered(job, m) /\ m.function => Tallied(job, c, left - 3)
    <2>1. BehindAt(job, c, left - 3) = 0 BY <1>6, <1>8
    <2>2. PICK l : l = left - 3 OBVIOUS
    <2> QED BY <1>2, <1>5, <1>6, <1>9, <2>1, <2>2 DEF Tallied
  <1>12. Object(job, m) => Tallied(job, d, left - 1) /\ Tallied(job, d, left - 2)
    <2>0. job.macros[d.seen] = m BY <1>2, <1>6
    <2>1. ASSUME NEW l \in {left - 1, left - 2}, Object(job, m) PROVE Tallied(job, d, l)
      <3>1. BehindAt(job, d, l) \in {1, 2} BY <1>6, <1>8, <2>1, ZenonT(60)
      <3>2. PICK x : x = BehindAt(job, d, l) OBVIOUS
      <3>3. x \in {1, 2} BY <3>1, <3>2
      <3>4. ~ x <= 0 /\ x \in -1 .. 2 /\ ~ x = -1 BY ONLY <3>3
      <3> QED BY <1>2, <1>5, <1>6, <1>9, <2>0, <2>1, <3>2, <3>4 DEF Tallied
    <2> QED BY <2>1
  <1> QED BY <1>5, <1>10, <1>11, <1>12

LEMMA TallyRecord ==
    ASSUME NEW job \in RunJobs, NEW a \in AccountType, NEW left \in Nat, Tallied(job, a, left), BehindAt(job, a, left) = 1,
           NEW r, r = RecordedIn(a, job.macros[a.seen])
    PROVE  r \in AccountType /\ Tallied(job, r, left - 1)
  <1>1. Len(job.macros) \in Nat /\ a.seen \in Nat
    BY JobShape DEF AccountType
  <1>2. PICK n, k, m : n = Len(job.macros) /\ k = a.seen /\ m = job.macros[k]
    OBVIOUS
  <1>3. k \in 1 .. n /\ k <= n
    BY <1>1, <1>2 DEF Tallied
  <1>4. Object(job, m) /\ Accounted(job, a, 1 .. k - 1, {<<m.name, "None">>})
    BY <1>2 DEF Tallied
  <1>5. r \in AccountType /\ r.seen = k /\ Accounted(job, r, 1 .. k, {})
    BY <1>2, <1>3, <1>4, Settled
  <1>6. BehindAt(job, r, left - 1) = 0
    <2>1. left - 3 * (n - k) - 1 = 1 /\ BehindAt(job, r, left - 1) = left - 1 - 3 * (n - k) - 1
      BY <1>2, <1>5 DEF BehindAt
    <2> QED BY <1>1, <1>2, <2>1, SMTT(60)
  <1> QED BY <1>2, <1>3, <1>5, <1>6 DEF Tallied

\* Where only the emission is left.
LEMMA AtEmit ==
    ASSUME RunInv, NEW x, Running(x), Len(frames) = 2, frames[2].session = "bindings", x \notin {"macro", "evaluate", "record"}
    PROVE  Len(frames[2].steps) = 1 /\ x = "emit"
  <1>1. PICK top : top = Len(frames)
    OBVIOUS
  <1>2. top = 2 /\ frames[2].steps \in Seq(Steps) /\ Len(frames[2].steps) \in Nat \ {0} /\ runJob \in RunJobs
    BY <1>1, RunningTop
  <1>3. top > 1
    BY ONLY <1>2
  <1>4. PICK b, n, l : b = Body(runJob, "bindings") /\ n = Len(runJob.macros) /\ l = Len(frames[2].steps)
    OBVIOUS
  <1>5. EndOf(frames[2].steps, b) /\ x = b[Len(b) - l + 1]
    BY <1>1, <1>2, <1>3, <1>4, InSession
  <1>6. /\ n \in Nat /\ Len(b) = 3 * n + 1 /\ b[3 * n + 1] = "emit"
        /\ \A i \in 1 .. 3 * n : b[i] \in {"macro", "evaluate", "record"}
    BY <1>2, <1>4, BindingsBody
  <1>7. l \in Nat \ {0} /\ l <= 3 * n + 1
    BY <1>2, <1>4, <1>5, <1>6 DEF EndOf
  <1>8. PICK k : k = Len(b) - l + 1
    OBVIOUS
  <1>a. Len(b) = 3 * n + 1
    BY <1>6
  <1>b. x = b[k]
    BY <1>5, <1>8
  <1>9. k = 3 * n + 1 - l + 1 /\ x = b[k]
    <2>0. n \in Nat /\ l \in Nat
      BY <1>6, <1>7
    <2>1. k = 3 * n + 1 - l + 1
      BY ONLY <1>8, <1>a, <2>0
    <2> QED BY <1>b, <2>1
  <1>10. k \notin 1 .. 3 * n
    BY <1>6, <1>9
  <1>11. PICK t \in Nat : t = 3 * n
    BY <1>6
  <1>12. k = t + 2 - l /\ l <= t + 1 /\ k \notin 1 .. t
    BY <1>6, <1>7, <1>9, <1>10, <1>11
  <1>13. l = 1
    BY ONLY <1>7, <1>11, <1>12
  <1>14. k = t + 1
    BY <1>12, <1>13
  <1> QED BY <1>4, <1>6, <1>9, <1>11, <1>13, <1>14

\* A step that leaves the account alone.
LEMMA AccountSame ==
    ASSUME RunInv, frames # <<>>, UNCHANGED <<runJob, account>>, Stacked(frames', runJob'), Left' <= Left,
           Len(frames') > 1 /\ frames'[2].session = "bindings" => Tallied(runJob, account, Len(frames'[2].steps))
    PROVE  AccountSoFar'
  <1>1. AccountSoFar /\ Left \in Nat /\ ReportSteps \in 0 .. 1
    BY LeftNat DEF RunInv
  <1>2. Left' \in Nat
    <2>1. frames'[1] \in FrameType
      BY DEF Stacked
    <2>2. frames'[1].steps \in Seq(Steps)
      BY <2>1 DEF FrameType, Steps
    <2> QED BY <2>2 DEF Left
  <1>3. ReportSteps' = ReportSteps
    BY DEF ReportSteps
  <1>4. Left' > 2 + ReportSteps' => Left > 2 + ReportSteps
    BY <1>1, <1>2, <1>3
  <1>5. runJob'.command = "bindgen" /\ Left' > 2 + ReportSteps' => account' = NoAccount
    BY <1>1, <1>4 DEF AccountSoFar
  <1> QED BY <1>5, TalliedThen

\* Nothing is done, or the next step, which is not about a macro.
LEMMA AccountStep ==
    ASSUME RunInv, NEW x, Running(x), UNCHANGED <<runJob, account, live, flagged>>, work' \subseteq {1},
           UNCHANGED frames \/ (frames' = Advanced(1) /\ x \notin {"macro", "evaluate", "record"})
    PROVE  AccountSoFar'
  <1>1. frames # <<>> /\ Len(frames) \in Nat \ {0}
    BY RunningTop
  <1>2. Stacked(frames, runJob) /\ Left \in Nat
    BY <1>1, StackedNow, LeftNat
  <1>3. CASE UNCHANGED frames
    <2>1. Stacked(frames', runJob') /\ Left' <= Left
      BY <1>2, <1>3 DEF Left
    <2>2. Len(frames') > 1 /\ frames'[2].session = "bindings" => Tallied(runJob, account, Len(frames'[2].steps))
      BY <1>1, <1>3, TalliedNow
    <2> QED BY <1>1, <2>1, <2>2, AccountSame
  <1>4. CASE frames' = Advanced(1) /\ x \notin {"macro", "evaluate", "record"}
    <2>1. Advances(frames', 1)
      BY <1>4, NextDone
    <2>2. /\ Stacked(frames', runJob) /\ Len(frames') = Len(frames)
          /\ Len(frames'[1].steps) = (IF Len(frames) = 1 THEN Left - 1 ELSE Left)
          /\ \A i \in 1 .. Len(frames) : frames'[i].session = frames[i].session
          /\ \A i \in 1 .. Len(frames) - 1 : frames'[i] = frames[i]
          /\ Len(frames'[Len(frames)].steps) = Len(frames[Len(frames)].steps) - 1
      BY <2>1, AdvanceStacks
    <2>3. Left' <= Left
      <3>1. Left' = (IF Len(frames) = 1 THEN Left - 1 ELSE Left)
        BY <2>2 DEF Left
      <3>2. PICK l, k : l = Left /\ k = Left'
        OBVIOUS
      <3>3. l \in Nat /\ k \in {l - 1, l}
        BY <1>2, <3>1, <3>2
      <3>4. k <= l
        BY ONLY <3>3
      <3> QED BY <3>2, <3>4
    <2>4. ASSUME Len(frames') > 1, frames'[2].session = "bindings"
          PROVE  Tallied(runJob, account, Len(frames'[2].steps))
      <3>1. PICK top : top = Len(frames)
        OBVIOUS
      <3>2. top > 1 /\ top \in Nat
        BY <1>1, <2>2, <2>4, <3>1
      <3>3. 2 \in 1 .. top
        BY ONLY <3>2
      <3>4. frames[2].session = "bindings"
        BY <2>2, <2>4, <3>1, <3>3
      <3>5. /\ Tallied(runJob, account, Len(frames[2].steps))
            /\ account \in AccountType /\ runJob \in RunJobs
        BY <1>1, <3>1, <3>2, <3>4, TalliedNow
      <3>6. CASE top = 2
        <4>1. Len(frames[2].steps) = 1
          BY <1>4, <3>1, <3>4, <3>6, AtEmit
        <4>2. Len(frames'[2].steps) = 0
          BY <2>2, <3>1, <3>6, <4>1
        <4> QED BY <3>5, <4>1, <4>2, TallyEmit
      <3>7. CASE top # 2
        <4>1. 2 \in 1 .. top - 1
          BY ONLY <3>2, <3>7
        <4>2. frames'[2] = frames[2]
          BY <2>2, <3>1, <4>1
        <4> QED BY <3>5, <4>2
      <3> QED BY <3>6, <3>7
    <2> QED BY <1>1, <2>2, <2>3, <2>4, AccountSame
  <1> QED BY <1>3, <1>4

\* A session begins, perhaps the one that goes through the macros.
LEMMA AccountCall == ASSUME RunInv, NEW s \in Sessions, with_stack(s) PROVE AccountSoFar'
  <1>0. Running(s) /\ UNCHANGED <<runJob, account>>
    BY DEF with_stack
  <1>1. frames # <<>> /\ Len(frames) \in Nat \ {0} /\ runJob \in RunJobs
    BY <1>0, RunningTop
  <1>2. PICK top : top = Len(frames)
    OBVIOUS
  <1>3. /\ Stacked(frames', runJob') /\ Len(frames') = top + 1
        /\ Left' = (IF top = 1 THEN Left - 1 ELSE Left)
        /\ top = 1 => frames'[2].session = s /\ frames'[2].steps = Body(runJob, s)
        /\ top > 1 => frames'[2].session = frames[2].session
        /\ top = 2 => Len(frames'[2].steps) = Len(frames[2].steps) - 1
        /\ top > 2 => frames'[2] = frames[2]
    BY <1>2, CallStacks
  <1>4. Left' <= Left
    <2>1. PICK l, k : l = Left /\ k = Left'
      OBVIOUS
    <2>2. l \in Nat /\ k \in {l - 1, l}
      BY <1>1, <1>3, <2>1, LeftNat
    <2>3. k <= l
      BY ONLY <2>2
    <2> QED BY <2>1, <2>3
  <1>5. ASSUME frames'[2].session = "bindings"
        PROVE  Tallied(runJob, account, Len(frames'[2].steps))
    <2>1. CASE top = 1
      <3>1. s = "bindings" /\ frames'[2].steps = Body(runJob, "bindings")
        BY <1>3, <1>5, <2>1
      <3>2. runJob.command = "bindgen" /\ Left = 3 + ReportSteps
        BY <1>0, <1>2, <2>1, <3>1, MainPlace
      <3>3. Left > 2 + ReportSteps
        <4>1. PICK l, r : l = Left /\ r = ReportSteps
          OBVIOUS
        <4>2. l = 3 + r /\ r \in 0 .. 1
          BY <1>1, <3>2, <4>1, LeftNat
        <4>3. l > 2 + r
          BY ONLY <4>2
        <4> QED BY <4>1, <4>3
      <3>4. account = NoAccount
        BY <1>1, <3>2, <3>3 DEF RunInv, AccountSoFar
      <3>5. Len(frames'[2].steps) = 3 * Len(runJob.macros) + 1
        BY <1>1, <3>1, BindingsBody
      <3> QED BY <1>1, <3>4, <3>5, TallyNone
    <2>2. CASE top # 1
      <3>1. top > 1
        BY <1>1, <1>2, <2>2, AboveOne
      <3>2. frames[2].session = "bindings"
        BY <1>3, <1>5, <3>1
      <3>3. /\ Tallied(runJob, account, Len(frames[2].steps)) /\ Behind = BehindAt(runJob, account, Len(frames[2].steps))
            /\ account \in AccountType /\ Len(frames[2].steps) \in Nat
        BY <1>1, <1>2, <3>1, <3>2, TalliedNow
      <3>4. CASE top = 2
        <4>1. s \in {"macro", "evaluate", "record"}
          <5>1. s \notin {"macro", "evaluate", "record"} => s = "emit"
            BY <1>0, <1>2, <3>2, <3>4, AtEmit
          <5> QED BY <5>1 DEF Sessions
        <4>2. s = "evaluate"
          BY <4>1 DEF Sessions
        <4>3. Behind = 2
          BY <1>0, <4>2, AtMacro
        <4> QED BY <1>1, <1>3, <3>3, <3>4, <4>3, TallyEvaluate
      <3>5. CASE top # 2
        <4>0. top \in Nat
          BY <1>1, <1>2
        <4>1. top > 2
          BY ONLY <3>1, <3>5, <4>0
        <4>2. frames'[2] = frames[2]
          BY <1>3, <4>1
        <4> QED BY <3>3, <4>2
      <3> QED BY <3>4, <3>5
    <2> QED BY <2>1, <2>2
  <1> QED BY <1>0, <1>1, <1>3, <1>4, <1>5, AccountSame

LEMMA AccountLeave == ASSUME RunInv, Leave PROVE AccountSoFar'
  <1>0. Len(frames) > 1 /\ UNCHANGED <<runJob, account>>
    BY DEF Leave
  <1>1. frames # <<>>
    <2>1. frames \in Seq(FrameType) BY DEF RunInv, RunTypes
    <2> QED BY <1>0, <2>1
  <1>2. PICK top : top = Len(frames)
    OBVIOUS
  <1>3. /\ Stacked(frames', runJob') /\ Len(frames') = top - 1
        /\ \A i \in 1 .. top - 1 : frames'[i] = frames[i]
        /\ Left' = Left /\ top \in Nat
    BY <1>1, <1>2, LeaveStacks, StackedNow
  <1>4. Left' <= Left
    BY <1>1, <1>3, LeftNat
  <1>5. ASSUME Len(frames') > 1, frames'[2].session = "bindings"
        PROVE  Tallied(runJob, account, Len(frames'[2].steps))
    <2>1. top - 1 > 1
      BY <1>3, <1>5
    <2>0. top \in Nat
      BY <1>3
    <2>2. 2 \in 1 .. top - 1
      BY ONLY <2>0, <2>1
    <2>3. frames'[2] = frames[2]
      BY <1>3, <2>2
    <2> QED BY <1>0, <1>1, <1>5, <2>3, TalliedNow
  <1> QED BY <1>0, <1>1, <1>3, <1>4, <1>5, AccountSame

LEMMA AccountStart == ASSUME RunInv, StartCommand PROVE AccountSoFar'
  <1>1. Stacked(frames', runJob') /\ Len(frames') = 1 /\ account = NoAccount
    BY StartStacks
  <1>2. account' = account
    BY DEF StartCommand
  <1>3. ~ Len(frames') > 1
    BY ONLY <1>1
  <1> QED BY <1>1, <1>2, <1>3, TalliedThen

\* A step of the session that goes through the macros: what is left of it follows from the account.
LEMMA AccountTold ==
    ASSUME RunInv, frames # <<>>, Len(frames) = 2, frames[2].session = "bindings", UNCHANGED runJob,
           NEW n \in Nat, Advances(frames', n), Tallied(runJob, account', Len(frames[2].steps) - n)
    PROVE  AccountSoFar'
  <1>1. /\ Stacked(frames', runJob') /\ Len(frames') = Len(frames)
        /\ Len(frames'[1].steps) = (IF Len(frames) = 1 THEN Left - n ELSE Left)
        /\ Len(frames'[Len(frames)].steps) = Len(frames[Len(frames)].steps) - n
    BY AdvanceStacks
  <1>2. Left' = Left /\ Len(frames'[2].steps) = Len(frames[2].steps) - n
    BY <1>1 DEF Left
  <1>3. Left = 2 + ReportSteps /\ ReportSteps \in 0 .. 1
    <2>1. frames \in Seq(FrameType)
      BY DEF RunInv, RunTypes
    <2>2. 2 \in DOMAIN frames /\ 2 > 1
      BY <2>1
    <2> QED BY <2>2, LeftNat DEF RunInv, FramesSound
  <1>4. ReportSteps' = ReportSteps
    BY DEF ReportSteps
  <1>5. ~ Left' > 2 + ReportSteps'
    <2>1. PICK r : r = ReportSteps
      OBVIOUS
    <2>2. r \in 0 .. 1 /\ Left' = 2 + r /\ ReportSteps' = r
      BY <1>2, <1>3, <1>4, <2>1
    <2>3. ~ 2 + r > 2 + r
      BY ONLY <2>2
    <2> QED BY <2>2, <2>3
  <1> QED BY <1>1, <1>2, <1>5, TalliedThen

LEMMA AccountMacro == ASSUME RunInv, StepMacro PROVE AccountSoFar' /\ account' \in AccountType
  <1>1. Running("macro") /\ UNCHANGED runJob
    BY DEF StepMacro
  <1>2. /\ Len(frames) = 2 /\ frames[2].session = "bindings" /\ Len(runJob.macros) \in Nat
        /\ Behind = 0 /\ account.seen < Len(runJob.macros)
    BY <1>1, AtMacro
  <1>3. frames # <<>> /\ Len(frames) > 1
    BY <1>2
  <1>4. PICK l, m : l = Len(frames[2].steps) /\ m = runJob.macros[account.seen + 1]
    OBVIOUS
  <1>5. /\ Tallied(runJob, account, l) /\ BehindAt(runJob, account, l) = 0
        /\ account \in AccountType /\ runJob \in RunJobs /\ l \in Nat
    BY <1>2, <1>3, <1>4, TalliedNow
  <1>6. PICK b, c, d : /\ b = [account EXCEPT !.seen = @ + 1]
                       /\ c = [account EXCEPT !.seen = @ + 1, !.skipped = @ \union {m.name}]
                       /\ d = [account EXCEPT !.seen = @ + 1, !.table = @ \union {<<m.name, "None">>}]
    OBVIOUS
  <1>7. /\ ~ Considered(runJob, m) => Tallied(runJob, b, l - 3)
        /\ Considered(runJob, m) /\ m.function => Tallied(runJob, c, l - 3)
        /\ Object(runJob, m) => Tallied(runJob, d, l - 1) /\ Tallied(runJob, d, l - 2)
    <2>1. account.seen < Len(runJob.macros)
      BY <1>2
    <2>3. ~ Considered(runJob, m) => Tallied(runJob, b, l - 3)
      BY ONLY <1>4, <1>5, <1>6, <2>1, TallyMacro, ZenonT(60)
    <2>4. Considered(runJob, m) /\ m.function => Tallied(runJob, c, l - 3)
      BY ONLY <1>4, <1>5, <1>6, <2>1, TallyMacro, ZenonT(60)
    <2>5. Object(runJob, m) => Tallied(runJob, d, l - 1) /\ Tallied(runJob, d, l - 2)
      BY ONLY <1>4, <1>5, <1>6, <2>1, TallyMacro
    <2> QED BY <2>3, <2>4, <2>5
  <1>a. b \in AccountType /\ c \in AccountType /\ d \in AccountType
    <2>1. account.seen + 1 \in 1 .. Len(runJob.macros)
      BY <1>2, <1>5 DEF AccountType
    <2>2. m.name \in MacroNames
      BY <1>4, <1>5, <2>1, MacroShape
    <2>3. /\ account.skipped \union {m.name} \in SUBSET MacroNames
          /\ account.table \union {<<m.name, "None">>} \in SUBSET (MacroNames \X (ValueKinds \union {"None"}))
          /\ account.seen + 1 \in Nat
      BY <1>5, <2>2 DEF AccountType
    <2>4. b \in AccountType
      BY <1>5, <1>6, <2>3 DEF AccountType
    <2>5. c \in AccountType
      BY <1>5, <1>6, <2>3 DEF AccountType
    <2>6. d \in AccountType
      BY <1>5, <1>6, <2>3 DEF AccountType
    <2> QED BY <2>4, <2>5, <2>6
  <1>8. ASSUME NEW n \in 1 .. 3, frames' = Advanced(n), Tallied(runJob, account', l - n) PROVE AccountSoFar'
    <2>1. n \in Nat /\ Advances(frames', n)
      BY <1>8, StepMacroMoves
    <2> QED BY <1>1, <1>2, <1>3, <1>4, <1>8, <2>1, AccountTold
  <1>9. Macro = m
    BY <1>4 DEF Macro
  <1>10. CASE ~ Considered(runJob, m)
    <2>1. account' = b /\ frames' = Advanced(3)
      BY <1>6, <1>9, <1>10 DEF StepMacro
    <2> QED BY <1>7, <1>8, <1>a, <1>10, <2>1
  <1>11. CASE Considered(runJob, m) /\ m.function
    <2>1. account' = c /\ frames' = Advanced(3)
      BY <1>6, <1>9, <1>11 DEF StepMacro, Skip
    <2> QED BY <1>7, <1>8, <1>a, <1>11, <2>1
  <1>12. CASE Object(runJob, m)
    <2>1. account' = d /\ (frames' = Advanced(1) \/ frames' = Advanced(2))
      BY <1>6, <1>9, <1>12 DEF StepMacro, hide, HidesName, Object
    <2> QED BY <1>7, <1>8, <1>a, <1>12, <2>1
  <1> QED BY <1>10, <1>11, <1>12 DEF Object

LEMMA AccountRecord == ASSUME RunInv, Record PROVE AccountSoFar' /\ account' \in AccountType
  <1>1. Running("record") /\ UNCHANGED runJob /\ frames' = Advanced(1)
    BY DEF Record
  <1>2. Len(frames) = 2 /\ frames[2].session = "bindings" /\ Behind = 1
    BY <1>1, AtMacro
  <1>3. frames # <<>> /\ Len(frames) > 1
    BY <1>2
  <1>4. PICK l : l = Len(frames[2].steps)
    OBVIOUS
  <1>5. /\ Tallied(runJob, account, l) /\ BehindAt(runJob, account, l) = 1
        /\ account \in AccountType /\ runJob \in RunJobs /\ l \in Nat
    BY <1>2, <1>3, <1>4, TalliedNow
  <1>6. account' = RecordedIn(account, runJob.macros[account.seen])
    BY DEF Record, recorded, Without, RecordedIn
  <1>7. account' \in AccountType /\ Tallied(runJob, account', l - 1)
    BY <1>5, <1>6, TallyRecord
  <1>8. Advances(frames', 1)
    BY <1>1, NextDone
  <1> QED BY <1>1, <1>2, <1>3, <1>4, <1>7, <1>8, AccountTold

LEMMA AccountCounts == ASSUME RunInv, Counts PROVE AccountSoFar' /\ account' \in AccountType
  <1>1. Running("counts") /\ UNCHANGED runJob /\ frames' = Advanced(1)
    BY DEF Counts
  <1>2. frames # <<>> /\ Len(frames) \in Nat \ {0} /\ runJob \in RunJobs
    BY <1>1, RunningTop
  <1>3. Len(frames) # 1
    <2>1. Len(frames) = 1 => "counts" \in MainSteps
      BY <1>1, MainPlace
    <2> QED BY <2>1 DEF MainSteps
  <1>4. PICK top : top = Len(frames)
    OBVIOUS
  <1>5. top > 1 /\ top \in Nat
    BY <1>2, <1>3, <1>4, AboveOne
  <1>6. Stacked(frames, runJob) /\ frames[top].session = "binding_parts"
    BY <1>1, <1>2, <1>4, <1>5, InSession, StackedNow
  <1>7. top \in 2 .. top
    BY ONLY <1>5
  <1>8. runJob.command = "builder"
    BY <1>4, <1>6, <1>7 DEF Stacked
  <1>9. Advances(frames', 1)
    BY <1>1, NextDone
  <1>10. Stacked(frames', runJob')
    BY <1>1, <1>9, AdvanceStacks
  <1>11. Len(frames') > 1 => frames'[2].session # "bindings"
    <2>1. Len(frames') = Len(frames) /\ \A i \in 1 .. Len(frames) : frames'[i].session = frames[i].session
      BY <1>9, AdvanceStacks
    <2>2. 2 \in 2 .. top
      BY ONLY <1>5
    <2>3. frames[2].session # "bindings"
      BY <1>4, <1>6, <1>8, <2>2 DEF Stacked
    <2>4. 2 \in 1 .. top
      BY ONLY <1>5
    <2> QED BY <1>4, <2>1, <2>3, <2>4
  <1>12. AccountSoFar'
    BY <1>1, <1>8, <1>10, <1>11, TalliedThen
  <1>13. account \in AccountType
    BY DEF RunInv, RunTypes, AccountType, MacroNames
  <1>14. \A kind : Cardinality(Provided(kind)) \in Nat
    <2> TAKE kind
    <2>1. runJob.macros \in Seq(Macros)
      BY <1>2, JobShape
    <2>2. Len(runJob.macros) \in Nat /\ DOMAIN runJob.macros = 1 .. Len(runJob.macros)
      BY <2>1
    <2>0. PICK n \in Nat : n = Len(runJob.macros)
      BY <2>2
    <2>3. IsFiniteSet(1 .. Len(runJob.macros))
      BY <2>0, FS_Interval
    <2>4. Provided(kind) \subseteq 1 .. Len(runJob.macros)
      BY <2>2 DEF Provided
    <2>5. IsFiniteSet(Provided(kind))
      BY <2>3, <2>4, FS_Subset
    <2> QED BY <2>5, FS_CardinalityType
  <1>15. account' \in AccountType
    <2>1. PICK c : c = [k \in ValueKinds |-> Cardinality(Provided(k))]
      OBVIOUS
    <2>2. c \in [ValueKinds -> Nat]
      BY <1>14, <2>1
    <2>3. DOMAIN account.counts = ValueKinds
      BY <1>13 DEF AccountType
    <2>4. account' = [account EXCEPT !.counts = c]
      BY <2>1, <2>3 DEF Counts
    <2> QED BY <1>13, <2>2, <2>4 DEF AccountType
  <1> QED BY <1>12, <1>15

LEMMA AccountKept ==
    ASSUME RunInv, RunNext
    PROVE  AccountSoFar' /\ account' \in AccountType
  <1>0. account \in AccountType
    BY DEF RunInv, RunTypes, AccountType, MacroNames
  <1>1. CASE StartCommand
    BY <1>0, <1>1, AccountStart DEF StartCommand
  <1>2. CASE Leave
    BY <1>0, <1>2, AccountLeave DEF Leave
  <1>3. ASSUME NEW s \in Sessions, with_stack(s) PROVE AccountSoFar' /\ account' \in AccountType
    BY <1>0, <1>3, AccountCall DEF with_stack
  <1>4. ASSUME NEW s \in Phases, Phase(s) \/ PhaseFails(s) \/ PhasePanics(s)
        PROVE  AccountSoFar' /\ account' \in AccountType
    <2>1. Running(s) /\ UNCHANGED <<runJob, account, live, flagged>> /\ (UNCHANGED frames \/ frames' = Advanced(1))
      BY <1>4 DEF Phase, PhaseFails, PhasePanics, Raise
    <2>2. work' \subseteq {1}
      BY <1>4, PhaseMoves
    <2>3. s \notin {"macro", "evaluate", "record"}
      BY DEF Phases, Recursive
    <2> QED BY <1>0, <2>1, <2>2, <2>3, AccountStep
  <1>5. CASE StepMacro BY <1>5, AccountMacro
  <1>6. CASE Record BY <1>6, AccountRecord
  <1>7. CASE Counts BY <1>7, AccountCounts
  <1>8. CASE Exit
    <2>1. UNCHANGED <<runJob, frames, account>> /\ Len(frames) = 1
      BY <1>8 DEF Exit
    <2>2. frames # <<>>
      BY <2>1
    <2>3. Stacked(frames', runJob') /\ Left' <= Left
      BY <2>1, <2>2, StackedNow, LeftNat DEF Left
    <2>4. ~ Len(frames') > 1
      <3>1. Len(frames') = 1 BY <2>1
      <3> QED BY ONLY <3>1
    <2> QED BY <1>0, <2>1, <2>2, <2>3, <2>4, AccountSame
  <1>9. ASSUME NEW x, Running(x), UNCHANGED <<runJob, account, live, flagged, work>>, x \notin {"macro", "evaluate", "record"},
               UNCHANGED frames \/ frames' = Advanced(1)
        PROVE  AccountSoFar' /\ account' \in AccountType
    <2>1. work' \subseteq {1}
      BY <1>9 DEF RunInv, WorkerSound
    <2> QED BY <1>0, <1>9, <2>1, AccountStep
  <1>10. ASSUME NEW s \in Sessions, SpawnFails(s) PROVE AccountSoFar' /\ account' \in AccountType
    <2>1. Running(s) /\ UNCHANGED <<runJob, frames, account, live, flagged, work>>
      BY <1>10 DEF SpawnFails, Raise
    <2>2. work' \subseteq {1}
      BY <2>1 DEF RunInv, WorkerSound
    <2> QED BY <1>0, <2>1, <2>2, AccountStep
  <1>11. CASE Generate BY <1>9, <1>11 DEF Generate
  <1>12. CASE WriteReport BY <1>9, <1>12 DEF WriteReport, Written, WriteFails
  <1>13. CASE Deny BY <1>9, <1>13 DEF Deny
  <1>14. CASE write_output BY <1>9, <1>14 DEF write_output, Written, WriteFails
  <1>15. CASE Create BY <1>9, <1>15 DEF Create, Written, Raise
  <1>16. CASE write
    <2>1. PICK x \in {"banner", "raw", "declarations"} :
            Running(x) /\ UNCHANGED <<runJob, account, live, flagged, work>> /\ (UNCHANGED frames \/ frames' = Advanced(1))
      BY <1>16 DEF write, WritePart, Written, WriteFails
    <2> QED BY <1>9, <2>1
  <1>17. CASE Set BY <1>9, <1>17 DEF Set
  <1> QED BY <1>1, <1>2, <1>3, <1>4, <1>5, <1>6, <1>7, <1>8, <1>10, <1>11, <1>12, <1>13, <1>14, <1>15, <1>16, <1>17
          DEF RunNext, RunStep

-----------------------------------------------------------------------------
(* The invariant.                                                           *)

LEMMA RunStarts == RunInit => RunInv
  <1> HAVE RunInit
  <1>1. /\ runJob = NoJob /\ frames = <<>> /\ live = {} /\ flagged = {} /\ unwinding = "no" /\ work = {}
        /\ account = NoAccount /\ builder = [partial_eq |-> FALSE, eq |-> FALSE, error |-> ""]
        /\ disk = [report |-> "absent", output |-> <<>>] /\ brokenPipe = FALSE /\ exit = "running"
    BY DEF RunInit, NoJob, NoAccount
  <1>a. frames = <<>>
    BY <1>1
  <1>2. Len(frames) = 0 /\ DOMAIN frames = 1 .. 0 /\ frames \in Seq(FrameType)
    BY ONLY <1>a
  <1>b. ~ Len(frames) > 1
    BY ONLY <1>2
  <1>3. account \in AccountType
    BY <1>1, NoAccountType
  <1>c. disk \in [report : {"absent", "partial", "whole"}, output : Seq(OutputParts)]
    <2>0. <<>> \in Seq(OutputParts)
      OBVIOUS
    <2>1. PICK o \in Seq(OutputParts) : o = <<>>
      BY <2>0
    <2>2. disk = [report |-> "absent", output |-> o]
      BY <1>1, <2>1
    <2> QED BY <2>2
  <1>d. builder \in [partial_eq : BOOLEAN, eq : BOOLEAN, error : {""} \union {s.trait : s \in Setters}]
    BY <1>1
  <1>e. runJob \in RunJobs \union {NoJob} /\ unwinding \in {"no", "error", "panic"} /\ brokenPipe \in BOOLEAN
        /\ exit \in {"running", "success", "failure", "panic"}
    BY <1>1
  <1>4. RunTypes
    BY <1>2, <1>3, <1>c, <1>d, <1>e DEF RunTypes, AccountType, MacroNames
  <1>f. disk.output = <<>> /\ ~ builder.eq
    BY <1>1
  <1>5. FramesSound
    <2>1. \A i \in DOMAIN frames : ~ i > 1
      BY <1>2
    <2>2. unwinding = "no" /\ exit = "running" /\ account = NoAccount /\ runJob = NoJob /\ ~ brokenPipe
      BY <1>1
    <2> QED BY <1>a, <1>f, <2>1, <2>2 DEF FramesSound
  <1>6. WorkerSound
    BY <1>1, <1>b DEF WorkerSound
  <1> QED BY <1>1, <1>4, <1>5, <1>6 DEF RunInv

LEMMA TypesKept ==
    ASSUME RunInv, RunNext
    PROVE  RunTypes'
  <1>1. Stacked(frames', runJob')
    BY FramesKept
  <1>2. runJob' \in RunJobs \union {NoJob} /\ frames' \in Seq(FrameType)
    BY <1>1 DEF Stacked
  <1>3. disk' \in DiskType /\ builder' \in BuilderType /\ account' \in AccountType
    BY OutputKept, AccountKept
  <1>4. unwinding' \in {"no", "error", "panic"} /\ brokenPipe' \in BOOLEAN
    <2>1. unwinding \in {"no", "error", "panic"} /\ brokenPipe \in BOOLEAN
      BY DEF RunInv, RunTypes
    <2>2. unwinding' \in {unwinding, "error", "panic"} /\ (brokenPipe' = brokenPipe \/ brokenPipe' \in BOOLEAN)
      BY DEF RunNext, RunStep, StartCommand, Leave, StepMacro, Record, Counts, Generate, WriteReport, Deny, write_output,
             Create, write, WritePart, Written, WriteFails, Raise, Exit, with_stack, SpawnFails, Phase, PhaseFails, PhasePanics, Set
    <2> QED BY <2>1, <2>2
  <1>5. exit' \in {"running", "success", "failure", "panic"}
    <2>1. exit \in {"running", "success", "failure", "panic"}
      BY DEF RunInv, RunTypes
    <2>2. exit' \in {exit, "success", "failure", "panic"}
      BY DEF RunNext, RunStep, StartCommand, Leave, StepMacro, Record, Counts, Generate, WriteReport, Deny, write_output,
             Create, write, WritePart, Written, WriteFails, Raise, Exit, with_stack, SpawnFails, Phase, PhaseFails, PhasePanics, Set
    <2> QED BY <2>1, <2>2
  <1> QED BY <1>2, <1>3, <1>4, <1>5 DEF RunTypes, DiskType, BuilderType, AccountType, MacroNames

\* The invariant's parts refer to every variable.
LEMMA RunSame == ASSUME RunInv, UNCHANGED runVars PROVE RunInv'
  <1>1. /\ runJob' = runJob /\ frames' = frames /\ live' = live /\ flagged' = flagged /\ unwinding' = unwinding /\ work' = work
        /\ account' = account /\ builder' = builder /\ disk' = disk /\ brokenPipe' = brokenPipe /\ exit' = exit
    BY DEF runVars
  <1>2. RunTypes' = RunTypes
    BY <1>1 DEF RunTypes
  <1>3. Left' = Left /\ ReportSteps' = ReportSteps /\ Needed' = Needed /\ WrittenSoFar' = WrittenSoFar /\ Behind' = Behind
    BY <1>1 DEF Left, ReportSteps, Needed, WrittenSoFar, Behind
  <1>4. FramesSound' = FramesSound
    BY <1>1, <1>3 DEF FramesSound
  <1>5. WorkerSound' = WorkerSound
    BY <1>1 DEF WorkerSound
  <1>6. OutputSoFar' = OutputSoFar
    BY <1>1, <1>3 DEF OutputSoFar
  <1>7. AccountSoFar' = AccountSoFar
    BY <1>1, <1>3 DEF AccountSoFar
  <1>8. RunTypes' /\ FramesSound' /\ WorkerSound' /\ (frames' # <<>> => OutputSoFar' /\ AccountSoFar')
    BY <1>1, <1>2, <1>4, <1>5, <1>6, <1>7 DEF RunInv
  <1> QED BY <1>8 DEF RunInv

\* Whatever the commands, setters, macros and raw lines: a command's frames, its worker, its files and its account of
\* macros stay what RunInv says (with_stack, run, main, bindings_on_parser_stack, Bindings::write).
THEOREM RunInvariant == RunSpec => []RunInv
  <1>1. RunInv /\ [RunNext]_runVars => RunInv'
    <2> HAVE RunInv /\ [RunNext]_runVars
    <2>1. CASE RunNext
      BY <2>1, TypesKept, FramesKept, OutputKept, AccountKept DEF RunInv
    <2>2. CASE UNCHANGED runVars
      BY <2>2, RunSame
    <2> QED BY <2>1, <2>2
  <1> QED BY <1>1, RunStarts, PTL DEF RunSpec

-----------------------------------------------------------------------------
(* CommandExact.                                                            *)

LEMMA NestHolds == ASSUME RunInv PROVE SessionsNest
  <1>1. PICK top : top = Len(frames)
    OBVIOUS
  <1>a. frames \in Seq(FrameType)
    BY DEF RunInv, RunTypes
  <1>2. top \in Nat /\ frames \in Seq(FrameType) /\ DOMAIN frames = 1 .. top
    BY <1>1, <1>a
  <1>3. live = (IF top > 1 THEN {1} ELSE {}) /\ flagged = live /\ work \subseteq {1}
    BY <1>1 DEF RunInv, WorkerSound
  <1>4. Cardinality(live) <= 1
    <2>1. Cardinality({1}) = 1 /\ Cardinality({}) = 0
      BY FS_Singleton, FS_EmptySet
    <2> QED BY <1>3, <2>1
  <1>5. \A i \in DOMAIN frames : frames[i].spawned <=> i = 2
    <2> TAKE i \in DOMAIN frames
    <2>1. CASE i = 1
      BY <1>2, <2>1 DEF RunInv, FramesSound
    <2>2. CASE i # 1
      <3>1. i > 1
        BY <1>2, <2>2
      <3> QED BY <3>1 DEF RunInv, FramesSound
    <2> QED BY <2>1, <2>2
  <1>6. live = {frames[i].thread : i \in {j \in DOMAIN frames : frames[j].spawned}}
    <2>1. CASE top > 1
      <3>1. 2 \in DOMAIN frames /\ 2 > 1
        BY <1>2, <2>1
      <3>2. frames[2].thread = 1
        BY <3>1 DEF RunInv, FramesSound
      <3>3. {j \in DOMAIN frames : frames[j].spawned} = {2}
        BY <1>5, <3>1
      <3> QED BY <1>3, <2>1, <3>2, <3>3
    <2>2. CASE ~ top > 1
      <3>1. 2 \notin DOMAIN frames
        BY <1>2, <2>2
      <3>2. {j \in DOMAIN frames : frames[j].spawned} = {}
        BY <1>5, <3>1
      <3> QED BY <1>3, <2>2, <3>2
    <2> QED BY <2>1, <2>2
  <1>7. exit # "running" => live = {}
    <2> HAVE exit # "running"
    <2>1. frames # <<>>
      BY DEF RunInv, FramesSound
    <2>2. top = 1
      BY <1>1, <2>1 DEF RunInv, OutputSoFar
    <2>3. ~ top > 1
      BY ONLY <2>2
    <2> QED BY <1>3, <2>3
  <1>8. MainThread \notin work /\ MainThread \notin flagged
    BY <1>3 DEF MainThread
  <1> QED BY <1>3, <1>4, <1>6, <1>7, <1>8 DEF SessionsNest

LEMMA FaithfulHolds == ASSUME RunInv PROVE OutputFaithful
  <1>1. unwinding \in {"no", "error", "panic"} /\ brokenPipe \in BOOLEAN /\ exit \in {"running", "success", "failure", "panic"}
    BY DEF RunInv, RunTypes
  <1>2. CASE frames = <<>>
    <2>1. exit = "running" /\ disk.output = <<>> /\ ~ builder.eq
      BY <1>2 DEF RunInv, FramesSound
    <2> QED BY <2>1 DEF OutputFaithful
  <1>3. CASE frames # <<>>
    <2>1. OutputSoFar /\ Left \in Nat /\ runJob \in RunJobs
      BY <1>3, LeftNat DEF RunInv
    <2>2. ASSUME exit = "success", ~ brokenPipe
          PROVE  (Needed => disk.output = Parts(runJob)) /\ (runJob.command = "bindgen" /\ runJob.report => disk.report = "whole")
      <3>1. unwinding = "no" /\ Left = 0
        BY <1>1, <2>1, <2>2 DEF OutputSoFar
      <3>2. WrittenSoFar = Parts(runJob)
        BY <3>1 DEF WrittenSoFar
      <3>3. Left <= 2
        BY <3>1
      <3> QED BY <2>1, <3>1, <3>2, <3>3 DEF OutputSoFar
    <2>3. exit \in {"failure", "panic"} => disk.output # (IF Needed THEN Parts(runJob) ELSE <<"nothing">>)
      <3> HAVE exit \in {"failure", "panic"}
      <3>1. unwinding # "no"
        BY <2>1 DEF OutputSoFar
      <3>2. <<>> # <<"nothing">>
        OBVIOUS
      <3> QED BY <2>1, <3>1, <3>2 DEF OutputSoFar
    <2>4. disk.output # <<>> /\ runJob.command = "bindgen" =>
            (runJob.report => disk.report = "whole") /\ (runJob.deny => account.skipped = {})
      <3> HAVE disk.output # <<>> /\ runJob.command = "bindgen"
      <3>1. Left <= 1
        BY <2>1 DEF OutputSoFar
      <3>2. Left <= 2
        BY <2>1, <3>1
      <3> QED BY <2>1, <3>1, <3>2 DEF OutputSoFar
    <2>5. builder.eq => builder.partial_eq
      BY <2>1 DEF OutputSoFar
    <2> QED BY <2>2, <2>3, <2>4, <2>5 DEF OutputFaithful
  <1> QED BY <1>2, <1>3

\* Macros of one kind are as many as their places.
Places(job, kind) == OfKind(job, 1 .. Len(job.macros), kind)
Found(job, kind) == {job.macros[i] : i \in Places(job, kind)}
LEMMA AsMany ==
    ASSUME NEW job \in RunJobs, NEW kind
    PROVE  Cardinality(Found(job, kind)) = Cardinality(Places(job, kind))
  <1> DEFINE at == Places(job, kind)
             found == Found(job, kind)
  <1>1. PICK n \in Nat : n = Len(job.macros)
    BY JobShape
  <1>2. at \subseteq 1 .. n
    BY <1>1 DEF OfKind, Places
  <1>a. found = {job.macros[i] : i \in at}
    BY DEF Found
  <1> HIDE DEF at, found
  <1>3. IsFiniteSet(at)
    <2>1. IsFiniteSet(1 .. n)
      BY <1>1, FS_Interval
    <2> QED BY <1>2, <2>1, FS_Subset
  <1>4. \A i, j \in at : job.macros[i] = job.macros[j] => i = j
    BY <1>1, <1>2, MacroShape
  <1>5. PICK f : f = [i \in at |-> job.macros[i]]
    OBVIOUS
  <1>6. f \in [at -> found] /\ (\A t \in found : \E i \in at : f[i] = t) /\ (\A i, j \in at : f[i] = f[j] => i = j)
    BY <1>4, <1>5, <1>a
  <1>7. f \in Surjection(at, found)
    BY <1>6 DEF Surjection
  <1>8. f \in Injection(at, found)
    BY <1>6 DEF Injection, IsInjective
  <1>9. f \in Bijection(at, found)
    BY <1>7, <1>8 DEF Bijection
  <1>10. ExistsBijection(at, found)
    BY <1>9 DEF ExistsBijection
  <1>11. Cardinality(found) = Cardinality(at)
    BY <1>3, <1>10, FS_Bijection
  <1> QED BY <1>11 DEF at, found

LEMMA AccountedHolds == ASSUME RunInv PROVE MacrosAccounted
  <1> SUFFICES ASSUME Emitting
               PROVE  LET seen == {runJob.macros[i] : i \in DOMAIN runJob.macros}
                          objects == {m \in seen : Considered(runJob, m) /\ ~ m.function}
                          valued == {m \in objects : m.kind \in {"integer", "float", "string"}}
                      IN /\ account.table = {<<m.name, IF m \in valued THEN m.kind ELSE "None">> : m \in {o \in objects : o.kind # "self"}}
                         /\ account.skipped = {m.name : m \in {o \in seen : Considered(runJob, o) /\ o.kind # "self" /\ o \notin valued}
                                                           \union {o \in seen : Considered(runJob, o) /\ o.function}}
                         /\ \A k \in DOMAIN account.counts : account.counts[k] = Cardinality({m \in valued : m.kind = k})
    BY DEF MacrosAccounted
  <1>1. frames # <<>> /\ frames[Len(frames)].session = "bindings" /\ frames[Len(frames)].steps = <<"emit">>
    BY DEF Emitting, Top
  <1>2. Stacked(frames, runJob) /\ Len(frames) \in Nat \ {0}
    BY <1>1, StackedNow
  <1>3. PICK top \in Nat \ {0} : top = Len(frames)
    BY <1>2
  <1>4. top # 1
    BY <1>1, <1>2, <1>3 DEF Stacked
  <1>5. top \in 2 .. top
    BY ONLY <1>4, top \in Nat \ {0}
  <1>6. top = 2
    BY <1>1, <1>2, <1>3, <1>5 DEF Stacked
  <1>7. Len(frames) > 1 /\ frames[2].session = "bindings" /\ frames[2].steps = <<"emit">>
    BY <1>1, <1>3, <1>6
  <1>8. Tallied(runJob, account, 1) /\ account \in AccountType /\ runJob \in RunJobs
    <2>1. Len(frames[2].steps) = 1
      BY <1>7
    <2> QED BY <1>1, <1>7, <2>1, TalliedNow
  <1>9. PICK n \in Nat : n = Len(runJob.macros)
    BY <1>8, JobShape
  <1>10. DOMAIN runJob.macros = 1 .. n
    <2>1. runJob.macros \in Seq(Macros)
      BY <1>8, JobShape
    <2> QED BY <1>9, <2>1
  <1>11. Accounted(runJob, account, 1 .. n, {})
    BY <1>8, <1>9, TallyEmit
  <1> DEFINE seen == {runJob.macros[i] : i \in DOMAIN runJob.macros}
             objects == {m \in seen : Considered(runJob, m) /\ ~ m.function}
             valued == {m \in objects : m.kind \in {"integer", "float", "string"}}
  <1>12. account.table = {<<m.name, IF m \in valued THEN m.kind ELSE "None">> : m \in {o \in objects : o.kind # "self"}}
    <2>1. account.table = TableOf(runJob, 1 .. n)
      BY <1>11 DEF Accounted
    <2>2. \A m \in objects : <<m.name, IF m \in valued THEN m.kind ELSE "None">> = Named(m)
      BY DEF Named, ValueKinds
    <2>3. {o \in objects : o.kind # "self"} =
            {runJob.macros[i] : i \in {j \in 1 .. n : Object(runJob, runJob.macros[j]) /\ runJob.macros[j].kind # "self"}}
      BY <1>10 DEF Object
    <2>4. TableOf(runJob, 1 .. n) = {Named(m) : m \in {o \in objects : o.kind # "self"}}
      BY <2>3 DEF TableOf
    <2> HIDE DEF valued
    <2>5. {<<m.name, IF m \in valued THEN m.kind ELSE "None">> : m \in {o \in objects : o.kind # "self"}}
            = {Named(m) : m \in {o \in objects : o.kind # "self"}}
      BY <2>2
    <2> QED BY <2>1, <2>4, <2>5
  <1>13. account.skipped = {m.name : m \in {o \in seen : Considered(runJob, o) /\ o.kind # "self" /\ o \notin valued}
                                            \union {o \in seen : Considered(runJob, o) /\ o.function}}
    <2>1. account.skipped = SkippedOf(runJob, 1 .. n)
      BY <1>11 DEF Accounted
    <2>2. SkippedOf(runJob, 1 .. n) = {m.name : m \in {o \in seen : IsSkipped(runJob, o)}}
      BY <1>10 DEF SkippedOf
    <2>3. {o \in seen : IsSkipped(runJob, o)} = {o \in seen : Considered(runJob, o) /\ o.kind # "self" /\ o \notin valued}
                                            \union {o \in seen : Considered(runJob, o) /\ o.function}
      BY DEF IsSkipped, ValueKinds
    <2> QED BY <2>1, <2>2, <2>3
  <1>14. ASSUME NEW k \in DOMAIN account.counts
         PROVE  account.counts[k] = Cardinality({m \in valued : m.kind = k})
    <2>1. k \in ValueKinds
      BY <1>8 DEF AccountType
    <2>2. account.counts[k] = Cardinality(OfKind(runJob, 1 .. n, k))
      BY <1>11, <2>1 DEF Accounted
    <2>3. {m \in valued : m.kind = k} = {runJob.macros[i] : i \in OfKind(runJob, 1 .. n, k)}
      BY <1>10, <2>1 DEF OfKind, Object, ValueKinds
    <2>4. Cardinality({m \in valued : m.kind = k}) = Cardinality(OfKind(runJob, 1 .. n, k))
      <3>1. Cardinality(Found(runJob, k)) = Cardinality(Places(runJob, k))
        BY <1>8, AsMany
      <3>2. Places(runJob, k) = OfKind(runJob, 1 .. n, k)
        BY <1>9 DEF Places
      <3>3. Found(runJob, k) = {runJob.macros[i] : i \in OfKind(runJob, 1 .. n, k)}
        BY <3>2 DEF Found
      <3> QED BY <2>3, <3>1, <3>2, <3>3
    <2> QED BY <2>2, <2>4
  <1> QED BY <1>12, <1>13, <1>14

\* Recursive code runs on one worker at a time, which is joined before the call returns; a success means every file
\* asked for is whole; and every macro is emitted or reported once (with_stack, run, bindings_on_parser_stack).
THEOREM CommandHolds == RunSpec => []CommandExact
  <1>1. RunInv => CommandExact
    BY NestHolds, FaithfulHolds, AccountedHolds DEF CommandExact
  <1> QED BY <1>1, RunInvariant, PTL
=============================================================================
