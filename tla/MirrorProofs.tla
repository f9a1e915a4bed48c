---------------------------- MODULE MirrorProofs ----------------------------
(***************************************************************************)
(* What a run mirrored stays in the copy, cancelled runs say so, previews  *)
(* touch nothing, the ssh key stays the one the user was shown, what is    *)
(* offered is accepted, reasons lead to what is broken, runs write where their job   *)
(* names, and every variable keeps its type: for all jobs, folders, mount  *)
(* tables, worlds and bounds.                                              *)
(*                                                                         *)
(* KeptIsThere is not inductive: a tool deletes what its list of the       *)
(* source lacks, and that list may be old.  It holds because the list was  *)
(* read after everything that is kept now was kept, or not at all, and     *)
(* because no two folders of one job have the same name in the target.     *)
(***************************************************************************)
EXTENDS Mirror, TargetsProofs

Fields == {"pc", "job", "rest", "list", "left", "place", "dead", "lost", "raced", "moved",
           "vanished", "saw", "errors", "probe"}

IsProc(r) == r = [x \in Fields |-> r[x]]

\* There is a run and a preview, and each has its fields.
Shape == proc = [p \in Procs |-> proc[p]] /\ \A p \in Procs : IsProc(proc[p])

LEMMA ShapeInit == Init => Shape
<1>1. IsProc(IdleProc) BY DEF IsProc, IdleProc, Fields
<1> QED BY <1>1 DEF Init, Shape

LEMMA GoesShape ==
    ASSUME Shape, NEW p \in Procs, NEW pc, Goes(p, pc)
    PROVE  /\ Shape'
           /\ proc'[p] = [proc[p] EXCEPT !.pc = pc] /\ proc'[p].pc = pc
           /\ proc'[p].job = proc[p].job /\ proc'[p].rest = proc[p].rest
           /\ proc'[p].left = proc[p].left /\ proc'[p].dead = proc[p].dead
           /\ proc'[p].vanished = proc[p].vanished
           /\ proc'[p].list = proc[p].list /\ proc'[p].raced = proc[p].raced
           /\ proc'[p].probe = proc[p].probe
           /\ \A q \in Procs \ {p} : proc'[q] = proc[q]
<1>1. /\ proc'[p] = [proc[p] EXCEPT !.pc = pc]
      /\ \A q \in Procs \ {p} : proc'[q] = proc[q]
      /\ proc' = [q \in Procs |-> proc'[q]]
  BY DEF Goes, Shape
<1>2. IsProc(proc[p]) BY DEF Shape
<1>3. IsProc(proc'[p]) BY <1>1, <1>2 DEF IsProc
<1>4. Shape' BY <1>1, <1>3 DEF Shape, IsProc
<1>5. /\ proc'[p].pc = pc
      /\ proc'[p].job = proc[p].job /\ proc'[p].rest = proc[p].rest
      /\ proc'[p].left = proc[p].left /\ proc'[p].dead = proc[p].dead
      /\ proc'[p].vanished = proc[p].vanished
      /\ proc'[p].list = proc[p].list /\ proc'[p].raced = proc[p].raced
      /\ proc'[p].probe = proc[p].probe
  BY <1>1, <1>2 DEF IsProc, Fields
<1> QED BY <1>1, <1>4, <1>5

LEMMA EndsShape ==
    ASSUME Shape, NEW p \in Procs, NEW code, Ends(p, code)
    PROVE  /\ Shape'
           /\ proc'[p] = IdleProc
           /\ \A q \in Procs \ {p} : proc'[q] = proc[q]
BY DEF Shape, IsProc, IdleProc, Fields, Ends

LEMMA ShapeStep == Shape /\ [Next]_vars => Shape'
<1> SUFFICES ASSUME Shape, [Next]_vars PROVE Shape' OBVIOUS
<1>1. ASSUME NEW p \in Procs, Start(p) PROVE Shape'
  <2> DEFINE started == [proc[p] EXCEPT !.pc = FirstStep(job.target), !.job = job, !.rest = job.sources]
  <2>1. proc' = [proc EXCEPT ![p] = started] BY <1>1 DEF Start, Shape
  <2>2. IsProc(started) BY DEF Shape, IsProc, Fields
  <2> HIDE DEF started
  <2> QED BY <2>1, <2>2 DEF Shape
<1>2. ASSUME NEW p \in Procs, OwnStep(p) PROVE Shape'
  <2>1. CASE Launch(p)
    <3>1. PICK work : proc' = [proc EXCEPT ![p] = Reading(p, work)] BY <2>1 DEF Launch
    <3>2. IsProc(Reading(p, work)) BY DEF Shape, IsProc, Reading
    <3> QED BY <3>1, <3>2 DEF Shape
  <2>2. CASE MakeProbe(p) \/ RemoveProbe(p)
    <3>1. CASE \E pc : Goes(p, pc) BY <3>1, GoesShape
    <3>2. ASSUME NEW pc, NEW f, proc' = [proc EXCEPT ![p].pc = pc, ![p].probe = f] PROVE Shape'
      BY <3>2 DEF Shape, IsProc, Fields
    <3> QED BY <2>2, <3>1, <3>2 DEF MakeProbe, RemoveProbe
  <2>3. CASE ~Launch(p) /\ ~MakeProbe(p) /\ ~RemoveProbe(p)
    BY <1>2, <2>3, GoesShape, EndsShape
    DEF OwnStep, Refuse, Accept, MakeDirs, FindKey, GenerateKey, PublishKey, Scan, NotLaunched, Die
  <2> QED BY <2>1, <2>2, <2>3
<1>3. ASSUME NEW p \in Procs, ToolStep(p) PROVE Shape'
  <2>1. CASE CopyFile(p)
    <3>1. PICK left, moved, vanished :
             proc' = [proc EXCEPT ![p].left = left, ![p].moved = moved, ![p].vanished = vanished]
      BY <2>1 DEF CopyFile
    <3> QED BY <3>1 DEF Shape, IsProc, Fields
  <2>2. CASE DeleteFile(p) BY <2>2 DEF DeleteFile, Shape
  <2>3. CASE Retry(p) BY <2>3 DEF Retry, Shape, IsProc, Fields
  <2>4. CASE RsyncEnds(p) \/ RcloneFails(p) BY <2>4, EndsShape DEF RsyncEnds, RcloneFails
  <2>5. CASE RcloneEnds(p)
    <3>1. CASE \E code : Ends(p, code) BY <3>1, EndsShape
    <3>2. ASSUME NEW errors, proc' = [proc EXCEPT ![p].pc = "launch", ![p].errors = errors]
          PROVE  Shape'
      BY <3>2 DEF Shape, IsProc, Fields
    <3> QED BY <2>5, <3>1, <3>2 DEF RcloneEnds
  <2> QED BY <1>3, <2>1, <2>2, <2>3, <2>4, <2>5 DEF ToolStep
<1>4. ASSUME NEW p \in Procs, Unprepared(p) PROVE Shape' BY <1>4, EndsShape DEF Unprepared
<1>5. ASSUME NEW p \in Procs, Cancel(p) PROVE Shape' BY <1>5 DEF Cancel, Shape, IsProc, Fields
<1>6. ASSUME NEW d \in Removable, Unmount(d) PROVE Shape'
  BY <1>6 DEF Unmount, Without, Shape, IsProc, Fields
<1>7. CASE NetFails BY <1>7 DEF NetFails, Without, Shape, IsProc, Fields
<1>8. CASE \/ \E j \in Jobs : Save(j)
           \/ \E s \in Folders : Change(s)
           \/ \E d \in Removable : Mount(d)
           \/ NetReturns
           \/ UNCHANGED vars
  BY <1>8 DEF Save, Change, Mount, NetReturns, vars, Shape
<1>9. CASE Kill BY <1>9 DEF Kill, Shape, IsProc, Fields, IdleProc
<1> QED BY <1>1, <1>2, <1>3, <1>4, <1>5, <1>6, <1>7, <1>8, <1>9 DEF Next

LEMMA ShapeAlways == Spec => []Shape
BY ShapeInit, ShapeStep, PTL DEF Spec

-----------------------------------------------------------------------------
(* Cancelling *)

HonestStep ==
    ~At("run", "idle") /\ proc'["run"].pc = "idle" =>
        /\ proc["run"].dead => last' \notin Good
        /\ last' = "cancelled" => proc["run"].dead

\* A step that ends the run ends it with an honest code.
LEMMA HonestEnd ==
    ASSUME Shape, NEW p \in Procs, NEW code, Ends(p, code),
           p = "run" => /\ proc[p].dead => code \notin Good
                        /\ code = "cancelled" => proc[p].dead
    PROVE  HonestStep
BY EndsShape DEF HonestStep, Ends, At, Procs

\* A step that does not end the run has nothing to tell.
LEMMA HonestOtherwise ==
    ASSUME proc'["run"].pc # "idle" \/ proc'["run"].pc = proc["run"].pc
    PROVE  HonestStep
BY DEF HonestStep, At

LEMMA HonestJudged ==
    ASSUME NEW p \in Procs, NEW code, code # "cancelled"
    PROVE  /\ proc[p].dead => Judged(p, code) \notin Good
           /\ Judged(p, code) = "cancelled" => proc[p].dead
BY DEF Judged, Good

LEMMA HonestNext == Shape /\ [Next]_vars => HonestStep
<1> SUFFICES ASSUME Shape, [Next]_vars PROVE HonestStep OBVIOUS
<1>1. ASSUME NEW p \in Procs, NEW pc, pc # "idle", Goes(p, pc) PROVE HonestStep
  <2>1. proc'[p].pc = pc /\ \A q \in Procs \ {p} : proc'[q] = proc[q] BY <1>1, GoesShape
  <2>2. CASE p = "run" BY <1>1, <2>1, <2>2, HonestOtherwise
  <2>3. CASE p # "run" BY <2>1, <2>3, HonestOtherwise DEF Procs
  <2> QED BY <2>2, <2>3
<1>2. ASSUME NEW p \in Procs, NEW code \in {"failed", "target_unavailable"}, Ends(p, code)
      PROVE  HonestStep
  BY <1>2, HonestEnd DEF Good
<1>3. ASSUME NEW p \in Procs, proc[p].dead, Ends(p, "cancelled") PROVE HonestStep
  BY <1>3, HonestEnd DEF Good
<1>4. ASSUME NEW p \in Procs, Start(p) PROVE HonestStep
  <2>1. FirstStep(job.target) # "idle" BY DEF FirstStep
  <2> QED BY <1>4, <2>1, HonestOtherwise DEF Start, Shape, IsProc, Fields, Procs
<1>5. ASSUME NEW p \in Procs, OwnStep(p) PROVE HonestStep
  <2>1. CASE Refuse(p) BY <1>2, <2>1 DEF Refuse
  <2>2. CASE Accept(p) BY <1>1, <2>2 DEF Accept, AfterCheck
  <2>3. CASE MakeDirs(p) BY <1>1, <1>2, <2>3 DEF MakeDirs
  <2>4. CASE FindKey(p) BY <1>1, <1>2, <2>4 DEF FindKey, AfterKey
  <2>5. CASE GenerateKey(p) BY <1>1, <1>2, <2>5 DEF GenerateKey
  <2>6. CASE PublishKey(p) BY <1>1, <2>6 DEF PublishKey, AfterKey
  <2>7. CASE Scan(p) BY <1>1, <1>2, <2>7 DEF Scan
  <2>8. CASE Launch(p) BY <2>8, HonestOtherwise DEF Launch, Shape, IsProc, Fields, Reading, Procs
  <2>9. CASE NotLaunched(p) BY <1>2, <1>3, <2>9 DEF NotLaunched
  <2>10. CASE Die(p) BY <1>3, <2>10 DEF Die
  <2>11. CASE MakeProbe(p) \/ RemoveProbe(p)
    <3>1. ASSUME NEW pc, pc # "idle", NEW f,
                 proc' = [proc EXCEPT ![p].pc = pc, ![p].probe = f]
          PROVE  HonestStep
      BY <3>1, HonestOtherwise DEF Shape, IsProc, Fields, Procs
    <3> QED BY <1>1, <2>11, <3>1 DEF MakeProbe, RemoveProbe
  <2> QED BY <2>11, <1>5, <2>1, <2>2, <2>3, <2>4, <2>5, <2>6, <2>7, <2>8, <2>9, <2>10 DEF OwnStep
<1>6. ASSUME NEW p \in Procs, ToolStep(p) PROVE HonestStep
  <2>1. CASE CopyFile(p) \/ DeleteFile(p) \/ Retry(p)
    <3>1. CASE CopyFile(p)
      BY <3>1, HonestOtherwise DEF CopyFile, Shape, IsProc, Fields, Procs
    <3>2. CASE DeleteFile(p) BY <3>2, HonestOtherwise DEF DeleteFile
    <3>3. CASE Retry(p)
      <4> DEFINE list == [s \in DOMAIN proc[p].list |-> src[s]]
                 next == [proc[p] EXCEPT !.list = list, !.left = FilesIn(list), !.vanished = FALSE]
      <4>0. proc' = [proc EXCEPT ![p] = next] BY <3>3 DEF Retry, Shape
      <4>2. next.pc = proc[p].pc BY DEF Shape, IsProc, Fields
      <4> HIDE DEF next
      <4>1. \A q \in Procs : proc'[q].pc = proc[q].pc BY <4>0, <4>2 DEF Shape
      <4> QED BY <4>1, HonestOtherwise DEF Procs
    <3> QED BY <2>1, <3>1, <3>2, <3>3
  <2>2. CASE RsyncEnds(p)
    <3>1. ASSUME NEW x, NEW seen, NEW saw PROVE RsyncCode(x, seen, saw) # "cancelled"
      BY DEF RsyncCode
    <3> QED BY <2>2, <3>1, HonestEnd, HonestJudged DEF RsyncEnds
  <2>3. CASE RcloneFails(p)
    <3>1. ASSUME NEW moved, NEW errors, NEW msg PROVE RcloneCode(moved, errors, msg) # "cancelled"
      BY DEF RcloneCode
    <3> QED BY <2>3, <3>1, HonestEnd, HonestJudged DEF RcloneFails
  <2>4. CASE RcloneEnds(p)
    <3>1. PICK errors :
            IF proc[p].dead THEN Ends(p, "cancelled")
            ELSE IF proc[p].rest = {} THEN Ends(p, IF errors THEN "partial" ELSE "completed")
            ELSE proc' = [proc EXCEPT ![p].pc = "launch", ![p].errors = errors]
      BY <2>4 DEF RcloneEnds
    <3>2. CASE proc[p].dead BY <1>3, <3>1, <3>2
    <3>3. CASE ~proc[p].dead /\ proc[p].rest = {} BY <3>1, <3>3, HonestEnd
    <3>4. CASE ~proc[p].dead /\ proc[p].rest # {}
      BY <3>1, <3>4, HonestOtherwise DEF Shape, IsProc, Fields, Procs
    <3> QED BY <3>2, <3>3, <3>4
  <2> QED BY <1>6, <2>1, <2>2, <2>3, <2>4 DEF ToolStep
<1>7. ASSUME NEW p \in Procs, Unprepared(p) PROVE HonestStep
  BY <1>2, <1>3, <1>7 DEF Unprepared
<1>8. ASSUME NEW p \in Procs, Cancel(p) PROVE HonestStep
  BY <1>8, HonestOtherwise DEF Cancel, Shape, IsProc, Fields, Procs
<1>9. CASE (\E d \in Removable : Unmount(d)) \/ NetFails
  <2>1. proc'["run"].pc = proc["run"].pc
    <3>1. CASE NetFails BY <3>1 DEF NetFails, Without, Shape, IsProc, Fields, Procs
    <3>2. CASE \E d \in Removable : Unmount(d)
      BY <3>2 DEF Unmount, Without, Shape, IsProc, Fields, Procs
    <3> QED BY <1>9, <3>1, <3>2
  <2> QED BY <2>1, HonestOtherwise
<1>10. CASE \/ \E j \in Jobs : Save(j)
            \/ \E s \in Folders : Change(s)
            \/ \E d \in Removable : Mount(d)
            \/ NetReturns
            \/ UNCHANGED vars
  BY <1>10, HonestOtherwise DEF Save, Change, Mount, NetReturns, vars
<1>11. CASE Kill
  <2>1. CASE At("run", "idle") BY <2>1 DEF HonestStep
  <2>2. CASE ~At("run", "idle")
    <3>1. last' = None BY <1>11, <2>2 DEF Kill
    <3> QED BY <3>1, NoneAssumption DEF HonestStep, Codes, Good
  <2> QED BY <2>1, <2>2
<1> QED BY <1>4, <1>5, <1>6, <1>7, <1>8, <1>9, <1>10, <1>11 DEF Next

\* A run that was cancelled is never a success, and no other run is called
\* cancelled, wherever in the run the cancel came (mirror.go:210, 510).
THEOREM CancelledIsHonest == Spec => CancelIsHonest
<1>1. Shape /\ [Next]_vars => [HonestStep]_vars BY HonestNext
<1> QED BY <1>1, ShapeAlways, PTL DEF Spec, CancelIsHonest, HonestStep

-----------------------------------------------------------------------------
(* Previews *)

\* A preview never comes to make folders, and its tool has nothing to copy.
PreviewInv ==
    /\ proc["preview"].pc # "mkdir"
    /\ proc["preview"].left = {}
    /\ proc["preview"].vanished = FALSE

NothingTouched ==
    proc'["preview"] # proc["preview"] /\ proc'["run"] = proc["run"] /\ mtab' = mtab
        => tree' = tree /\ dirs' = dirs

\* What a step does to a preview that goes on.
LEMMA PreviewGoes ==
    ASSUME Shape, PreviewInv, NEW p \in Procs, NEW pc, pc # "mkdir" \/ p = "run",
           Goes(p, pc) \/ Ends(p, pc)
    PROVE  PreviewInv'
<1>1. CASE p = "run"
  <2>1. "preview" \in Procs /\ "preview" # p BY <1>1 DEF Procs
  <2>2. proc'["preview"] = proc["preview"] BY <2>1, GoesShape, EndsShape DEF Shape
  <2> QED BY <2>2 DEF PreviewInv
<1>2. CASE p = "preview"
  <2>1. CASE Goes(p, pc) BY <1>2, <2>1, GoesShape DEF PreviewInv
  <2>2. CASE Ends(p, pc) BY <1>2, <2>2, EndsShape DEF PreviewInv, IdleProc
  <2> QED BY <2>1, <2>2
<1> QED BY <1>1, <1>2 DEF Procs

\* What a step with a probe file does to one.
LEMMA PreviewProbes ==
    ASSUME Shape, PreviewInv, NEW p \in Procs, NEW pc, pc # "mkdir", NEW f,
           proc' = [proc EXCEPT ![p].pc = pc, ![p].probe = f]
    PROVE  PreviewInv'
<1>1. proc' = [proc EXCEPT ![p] = [proc[p] EXCEPT !.pc = pc, !.probe = f]] OBVIOUS
<1> DEFINE r == [proc[p] EXCEPT !.pc = pc, !.probe = f]
<1>2. r.pc = pc /\ r.left = proc[p].left /\ r.vanished = proc[p].vanished
  BY DEF Shape, IsProc, Fields
<1> HIDE DEF r
<1>3. proc'["preview"] = IF p = "preview" THEN r ELSE proc["preview"]
  BY <1>1 DEF Shape, Procs, r
<1> QED BY <1>2, <1>3 DEF PreviewInv

LEMMA PreviewNext == Shape /\ PreviewInv /\ [Next]_vars => PreviewInv' /\ NothingTouched
<1> SUFFICES ASSUME Shape, PreviewInv, [Next]_vars PROVE PreviewInv' /\ NothingTouched OBVIOUS
<1>0. ASSUME NEW p \in Procs, p # "preview" PROVE p = "run" BY <1>0 DEF Procs
<1>1. ASSUME NEW p \in Procs, Start(p) PROVE PreviewInv' /\ NothingTouched
  <2>1. /\ proc' = [proc EXCEPT ![p].pc = FirstStep(job.target), ![p].job = job,
                                ![p].rest = job.sources]
        /\ FirstStep(job.target) # "mkdir"
    BY <1>1 DEF Start, FirstStep
  <2>2. ASSUME p = "preview" PROVE PreviewInv'
    <3>1. /\ proc'[p].pc = FirstStep(job.target)
          /\ proc'[p].left = proc[p].left /\ proc'[p].vanished = proc[p].vanished
      <4>1. IsProc(proc[p]) BY DEF Shape
      <4>2. proc'[p] = [proc[p] EXCEPT !.pc = FirstStep(job.target), !.job = job,
                                       !.rest = job.sources]
        BY <2>1 DEF Shape
      <4> QED BY <4>1, <4>2 DEF IsProc, Fields
    <3> QED BY <2>1, <2>2, <3>1 DEF PreviewInv
  <2>3. ASSUME p # "preview" PROVE PreviewInv'
    <3>1. proc'["preview"] = proc["preview"]
      <4>1. "preview" \in Procs BY DEF Procs
      <4> QED BY <2>1, <2>3, <4>1 DEF Shape
    <3> QED BY <3>1 DEF PreviewInv
  <2>4. PreviewInv' BY <2>2, <2>3
  <2> QED BY <1>1, <2>4 DEF Start, EnvUnchanged, NothingTouched
<1>2. ASSUME NEW p \in Procs, OwnStep(p) PROVE PreviewInv' /\ NothingTouched
  <2>1. CASE Refuse(p) BY <2>1, PreviewGoes DEF Refuse, EnvUnchanged, NothingTouched
  <2>2. CASE Accept(p)
    <3>1. AfterCheck(p) # "mkdir" \/ p = "run" BY <1>0 DEF AfterCheck, dry
    <3> QED BY <2>2, <3>1, PreviewGoes DEF Accept, EnvUnchanged, NothingTouched
  <2>3. CASE MakeDirs(p)
    <3>1. p = "run" BY <1>0, <2>3 DEF MakeDirs, At, PreviewInv
    <3>2. PreviewInv' BY <2>3, <3>1, PreviewGoes DEF MakeDirs
    <3>3. proc'["preview"] = proc["preview"]
      BY <2>3, <3>1, GoesShape, EndsShape DEF MakeDirs, Procs
    <3> QED BY <3>2, <3>3 DEF NothingTouched
  <2>4. CASE FindKey(p) BY <2>4, PreviewGoes DEF FindKey, AfterKey, EnvUnchanged, NothingTouched
  <2>5. CASE GenerateKey(p) BY <2>5, PreviewGoes DEF GenerateKey, EnvUnchanged, NothingTouched
  <2>6. CASE PublishKey(p)
    BY <2>6, PreviewGoes DEF PublishKey, AfterKey, EnvUnchanged, NothingTouched
  <2>7. CASE Scan(p) BY <2>7, PreviewGoes DEF Scan, EnvUnchanged, NothingTouched
  <2>8. CASE Launch(p)
    <3>1. CASE p = "run"
      <4>1. proc'["preview"] = proc["preview"] BY <2>8, <3>1 DEF Launch, Shape, Procs
      <4> QED BY <4>1 DEF PreviewInv, NothingTouched
    <3>2. CASE p = "preview"
      <4>1. PICK work : proc' = [proc EXCEPT ![p] = Reading(p, work)] BY <2>8 DEF Launch
      <4>2. proc'["preview"] = Reading(p, work) BY <3>2, <4>1 DEF Shape, Procs
      <4>3. /\ Reading(p, work).pc = "tool" /\ Reading(p, work).left = {}
            /\ Reading(p, work).vanished = FALSE
        BY <3>2 DEF Shape, IsProc, Fields, Reading, dry
      <4>4. PreviewInv' BY <4>2, <4>3 DEF PreviewInv
      <4>5. NothingTouched BY <2>8, <3>2 DEF Launch, dry, NothingTouched
      <4> QED BY <4>4, <4>5
    <3> QED BY <1>0, <3>1, <3>2
  <2>9. CASE NotLaunched(p) BY <2>9, PreviewGoes DEF NotLaunched, EnvUnchanged, NothingTouched
  <2>10. CASE Die(p) BY <2>10, PreviewGoes DEF Die, EnvUnchanged, NothingTouched
  <2>11. CASE MakeProbe(p) \/ RemoveProbe(p)
    <3>1. CASE Goes(p, "launch") BY <2>11, <3>1, PreviewGoes DEF MakeProbe, RemoveProbe, EnvUnchanged, NothingTouched
    <3>2. CASE ~Goes(p, "launch")
      <4>1. \E pc \in {"probed", "launch"} : \E f :
               proc' = [proc EXCEPT ![p].pc = pc, ![p].probe = f]
        BY <2>11, <3>2 DEF MakeProbe, RemoveProbe
      <4>2. PreviewInv' BY <4>1, PreviewProbes
      <4> QED BY <2>11, <4>2 DEF MakeProbe, RemoveProbe, EnvUnchanged, NothingTouched
    <3> QED BY <3>1, <3>2
  <2> QED BY <2>11, <1>2, <2>1, <2>2, <2>3, <2>4, <2>5, <2>6, <2>7, <2>8, <2>9, <2>10 DEF OwnStep
<1>3. ASSUME NEW p \in Procs, ToolStep(p) PROVE PreviewInv' /\ NothingTouched
  <2>1. CASE CopyFile(p) \/ Retry(p)
    <3>1. p = "run" BY <1>0, <2>1 DEF CopyFile, Retry, PreviewInv
    <3>2. proc'["preview"] = proc["preview"] BY <2>1, <3>1 DEF CopyFile, Retry, Shape, Procs
    <3> QED BY <3>2 DEF PreviewInv, NothingTouched
  <2>2. CASE DeleteFile(p) BY <2>2 DEF DeleteFile, PreviewInv, NothingTouched
  <2>3. CASE RsyncEnds(p) \/ RcloneFails(p)
    <3>1. \E code : Ends(p, Judged(p, code)) BY <2>3 DEF RsyncEnds, RcloneFails
    <3>2. PreviewInv' BY <3>1, EndsShape DEF PreviewInv, Procs, IdleProc
    <3> QED BY <2>3, <3>2 DEF RsyncEnds, RcloneFails, EnvUnchanged, NothingTouched
  <2>4. CASE RcloneEnds(p)
    <3>1. PreviewInv'
      <4>1. CASE \E code : Ends(p, code) BY <4>1, EndsShape DEF PreviewInv, Procs, IdleProc
      <4>2. ASSUME NEW errors, proc' = [proc EXCEPT ![p].pc = "launch", ![p].errors = errors]
            PROVE  PreviewInv'
        BY <4>2 DEF Shape, IsProc, Fields, Procs, PreviewInv
      <4> QED BY <2>4, <4>1, <4>2 DEF RcloneEnds
    <3> QED BY <2>4, <3>1 DEF RcloneEnds, EnvUnchanged, NothingTouched
  <2> QED BY <1>3, <2>1, <2>2, <2>3, <2>4 DEF ToolStep
<1>4. ASSUME NEW p \in Procs, Unprepared(p) PROVE PreviewInv' /\ NothingTouched
  <2>1. \E code : Ends(p, code) BY <1>4 DEF Unprepared
  <2>2. PreviewInv' BY <2>1, EndsShape DEF PreviewInv, Procs, IdleProc
  <2> QED BY <1>4, <2>2 DEF Unprepared, EnvUnchanged, NothingTouched
<1>5. ASSUME NEW p \in Procs, Cancel(p) PROVE PreviewInv' /\ NothingTouched
  <2>1. PreviewInv' BY <1>5 DEF Cancel, Shape, IsProc, Fields, Procs, PreviewInv
  <2> QED BY <1>5, <2>1 DEF Cancel, EnvUnchanged, NothingTouched
<1>6. ASSUME NEW d \in Removable, Unmount(d) PROVE PreviewInv' /\ NothingTouched
  <2>1. PreviewInv' BY <1>6 DEF Unmount, Without, Shape, IsProc, Fields, Procs, PreviewInv
  <2>2. NothingTouched
    <3>1. SUFFICES ASSUME mtab' = mtab PROVE tree' = tree /\ dirs' = dirs BY DEF NothingTouched
    <3>2. d = {} BY <1>6, <3>1 DEF Unmount
    <3> QED BY <1>6, <3>2 DEF Unmount
  <2> QED BY <2>1, <2>2
<1>7. CASE NetFails
  <2>1. PreviewInv' BY <1>7 DEF NetFails, Without, Shape, IsProc, Fields, Procs, PreviewInv
  <2> QED BY <1>7, <2>1 DEF NetFails, NothingTouched
<1>8. CASE \/ \E j \in Jobs : Save(j)
           \/ \E s \in Folders : Change(s)
           \/ \E d \in Removable : Mount(d)
           \/ NetReturns
           \/ UNCHANGED vars
  BY <1>8 DEF Save, Change, Mount, NetReturns, vars, PreviewInv, NothingTouched
<1>9. CASE Kill
  <2>1. proc'["preview"] = IdleProc BY <1>9 DEF Kill, Procs
  <2>2. PreviewInv' BY <2>1 DEF PreviewInv, IdleProc
  <2>3. tree' = tree /\ dirs' = dirs BY <1>9 DEF Kill, EnvUnchanged
  <2> QED BY <2>2, <2>3 DEF NothingTouched
<1> QED BY <1>1, <1>2, <1>3, <1>4, <1>5, <1>6, <1>7, <1>8, <1>9 DEF Next

\* Who is about to remove a probe file has one of its own that is there.
ProbeInv ==
    /\ \A p \in Procs : proc[p].probe \subseteq probes /\ (proc[p].probe # {} => At(p, "probed"))
    /\ \A p, q \in Procs : p # q => proc[p].probe \cap proc[q].probe = {}

\* Probe files stay behind only where they are out of reach.
NoLitter == \A f \in Litter' \ Litter : ~Reached(f)

\* Nothing happens to the probe files, and who is about to remove one still is.
LEMMA ProbeAside ==
    ASSUME ProbeInv, probes' = probes,
           \A q \in Procs : \/ proc'[q].probe = proc[q].probe /\ proc'[q].pc = proc[q].pc
                            \/ proc'[q].probe \in {{}, proc[q].probe} /\ ~At(q, "probed")
    PROVE  ProbeInv' /\ NoLitter
<1>1. \A q \in Procs : proc'[q].probe = proc[q].probe BY DEF ProbeInv
<1>2. ProbeInv' BY <1>1 DEF ProbeInv, At
<1>3. Litter' = Litter BY <1>1 DEF Litter
<1> QED BY <1>2, <1>3 DEF NoLitter

LEMMA ProbeGoes ==
    ASSUME Shape, ProbeInv, probes' = probes, NEW p \in Procs, ~At(p, "probed"), NEW pc,
           Goes(p, pc) \/ Ends(p, pc)
    PROVE  ProbeInv' /\ NoLitter
<1>1. \A q \in Procs \ {p} : proc'[q] = proc[q] BY GoesShape, EndsShape
<1>2. proc'[p].probe \in {{}, proc[p].probe}
  <2>1. CASE Goes(p, pc) BY <2>1, GoesShape
  <2>2. CASE Ends(p, pc)
    <3>1. proc'[p] = IdleProc BY <2>2, EndsShape
    <3> QED BY <3>1 DEF IdleProc
  <2> QED BY <2>1, <2>2
<1> QED BY <1>1, <1>2, ProbeAside

\* A step that leaves the probe of p, and p where it is or not about to
\* remove it.
LEMMA ProbeKeeps ==
    ASSUME Shape, ProbeInv, probes' = probes, NEW p \in Procs,
           \A q \in Procs \ {p} : proc'[q] = proc[q],
           proc'[p].probe = proc[p].probe, proc'[p].pc = proc[p].pc \/ ~At(p, "probed")
    PROVE  ProbeInv' /\ NoLitter
BY ProbeAside

LEMMA ProbeMade ==
    ASSUME Shape, ProbeInv, NEW p \in Procs, MakeProbe(p) PROVE ProbeInv' /\ NoLitter
<1>1. CASE Goes(p, "launch") /\ probes' = probes BY <1>1, ProbeGoes DEF MakeProbe, At
<1>2. CASE ~(Goes(p, "launch") /\ probes' = probes)
  <2>1. PICK f : /\ proc' = [proc EXCEPT ![p].pc = "probed", ![p].probe = {f}]
                 /\ probes' = probes \cup proc'[p].probe
                 /\ f \notin probes
    BY <1>2 DEF MakeProbe
  <2>2. /\ proc'[p].pc = "probed" /\ proc'[p].probe = {f} /\ probes' = probes \cup {f}
        /\ \A q \in Procs \ {p} : proc'[q] = proc[q]
    BY <2>1 DEF Shape, IsProc, Fields
  <2>3. proc[p].probe = {} BY DEF ProbeInv, MakeProbe, At
  <2>4. ProbeInv'
    <3>1. \A q \in Procs \ {p} : f \notin proc'[q].probe BY <2>1, <2>2 DEF ProbeInv
    <3>2. \A q, r \in Procs : q # r => proc'[q].probe \cap proc'[r].probe = {}
      BY <2>2, <3>1 DEF ProbeInv
    <3>3. \A q \in Procs : proc'[q].probe \subseteq probes' BY <2>2 DEF ProbeInv
    <3>4. \A q \in Procs : proc'[q].probe # {} => proc'[q].pc = "probed"
      BY <2>2 DEF ProbeInv, At
    <3> QED BY <3>2, <3>3, <3>4 DEF ProbeInv, At
  <2>5. Litter' \subseteq Litter BY <2>2, <2>3 DEF Litter
  <2> QED BY <2>4, <2>5 DEF NoLitter
<1> QED BY <1>1, <1>2

LEMMA ProbeRemoved ==
    ASSUME Shape, ProbeInv, NEW p \in Procs, RemoveProbe(p) PROVE ProbeInv' /\ NoLitter
<1>1. /\ proc'[p].probe = {} /\ \A q \in Procs \ {p} : proc'[q] = proc[q]
      /\ probes' = probes \ {f \in proc[p].probe : Reached(f)}
  BY DEF RemoveProbe, Removed, Shape, IsProc, Fields
<1>2. ProbeInv'
  <2>1. \A q \in Procs : proc'[q].probe \subseteq probes'
    BY <1>1 DEF ProbeInv
  <2>2. \A q \in Procs : proc'[q].probe # {} => proc'[q].pc = "probed" BY <1>1 DEF ProbeInv, At
  <2>3. \A q, r \in Procs : q # r => proc'[q].probe \cap proc'[r].probe = {}
    BY <1>1 DEF ProbeInv
  <2> QED BY <2>1, <2>2, <2>3 DEF ProbeInv, At
<1>3. ASSUME NEW f \in Litter', f \notin Litter, Reached(f) PROVE FALSE
  <2>1. f \in probes /\ f \notin {g \in proc[p].probe : Reached(g)} BY <1>1 DEF Litter
  <2>2. \A q \in Procs : f \notin proc'[q].probe BY DEF Litter
  <2>3. PICK q \in Procs : f \in proc[q].probe BY <1>3, <2>1 DEF Litter
  <2>4. q = p BY <1>1, <2>2, <2>3
  <2> QED BY <1>3, <2>1, <2>3, <2>4
<1> QED BY <1>2, <1>3 DEF NoLitter

LEMMA ProbeNext == Shape /\ ProbeInv /\ [Next]_vars => ProbeInv' /\ (Kill \/ NoLitter)
<1> SUFFICES ASSUME Shape, ProbeInv, [Next]_vars PROVE ProbeInv' /\ (Kill \/ NoLitter) OBVIOUS
<1>1. ASSUME NEW p \in Procs, Start(p) PROVE ProbeInv' /\ NoLitter
  <2>1. /\ proc'[p].probe = proc[p].probe /\ ~At(p, "probed") /\ probes' = probes
        /\ \A q \in Procs \ {p} : proc'[q] = proc[q]
    BY <1>1 DEF Start, At, Shape, IsProc, Fields
  <2> QED BY <2>1, ProbeKeeps
<1>2. ASSUME NEW p \in Procs, OwnStep(p) PROVE ProbeInv' /\ NoLitter
  <2>1. CASE MakeProbe(p) BY <2>1, ProbeMade
  <2>2. CASE RemoveProbe(p) BY <2>2, ProbeRemoved
  <2>3. CASE Launch(p)
    <3>1. PICK work : proc' = [proc EXCEPT ![p] = Reading(p, work)] BY <2>3 DEF Launch
    <3>2. ~At(p, "probed") /\ probes' = probes BY <2>3 DEF Launch, At
    <3>3. \A q \in Procs \ {p} : proc'[q] = proc[q] BY <3>1 DEF Shape
    <3>4. proc'[p] = Reading(p, work) BY <3>1 DEF Shape
    <3>5. Reading(p, work).probe = proc[p].probe BY DEF Reading, Shape, IsProc, Fields
    <3> QED BY <3>2, <3>3, <3>4, <3>5, ProbeKeeps
  <2>4. CASE ~(Launch(p) \/ MakeProbe(p) \/ RemoveProbe(p))
    <3>1. /\ probes' = probes /\ ~At(p, "probed")
          /\ (\E pc : Goes(p, pc)) \/ (\E code : Ends(p, code))
      BY <1>2, <2>4
      DEF OwnStep, Refuse, Accept, MakeDirs, FindKey, GenerateKey, PublishKey, Scan, NotLaunched,
          Die, At
    <3> QED BY <3>1, ProbeGoes
  <2> QED BY <2>1, <2>2, <2>3, <2>4
<1>3. ASSUME NEW p \in Procs, ToolStep(p) \/ Unprepared(p) PROVE ProbeInv' /\ NoLitter
  <2>1. probes' = probes /\ ~At(p, "probed")
    BY <1>3 DEF ToolStep, CopyFile, DeleteFile, RsyncEnds, Retry, RcloneFails, RcloneEnds,
                Unprepared, Working, Done, At
  <2>2. CASE \E code : Ends(p, code) BY <2>1, <2>2, ProbeGoes
  <2>3. CASE CopyFile(p)
    <3>1. PICK left, moved, vanished :
             proc' = [proc EXCEPT ![p].left = left, ![p].moved = moved, ![p].vanished = vanished]
      BY <2>3 DEF CopyFile
    <3>2. proc'[p].probe = proc[p].probe /\ \A q \in Procs \ {p} : proc'[q] = proc[q]
      BY <3>1 DEF Shape, IsProc, Fields
    <3> QED BY <2>1, <3>2, ProbeKeeps
  <2>4. CASE DeleteFile(p) BY <2>1, <2>4, ProbeKeeps DEF DeleteFile
  <2>5. CASE Retry(p)
    <3>1. PICK l, left : proc' = [proc EXCEPT ![p].list = l, ![p].left = left,
                                              ![p].vanished = FALSE]
      BY <2>5 DEF Retry
    <3>2. proc'[p].probe = proc[p].probe /\ \A q \in Procs \ {p} : proc'[q] = proc[q]
      BY <3>1 DEF Shape, IsProc, Fields
    <3> QED BY <2>1, <3>2, ProbeKeeps
  <2>6. ASSUME NEW errors, proc' = [proc EXCEPT ![p].pc = "launch", ![p].errors = errors]
        PROVE  ProbeInv' /\ NoLitter
    <3>1. proc'[p].probe = proc[p].probe /\ \A q \in Procs \ {p} : proc'[q] = proc[q]
      BY <2>6 DEF Shape, IsProc, Fields
    <3> QED BY <2>1, <3>1, ProbeKeeps
  <2> QED BY <1>3, <2>2, <2>3, <2>4, <2>5, <2>6
      DEF ToolStep, RsyncEnds, RcloneFails, RcloneEnds, Unprepared
<1>4. ASSUME NEW p \in Procs, Cancel(p) PROVE ProbeInv' /\ NoLitter
  <2>1. /\ proc'[p].probe = proc[p].probe /\ proc'[p].pc = proc[p].pc /\ probes' = probes
        /\ \A q \in Procs \ {p} : proc'[q] = proc[q]
    BY <1>4 DEF Cancel, Shape, IsProc, Fields
  <2> QED BY <2>1, ProbeKeeps
<1>5. CASE (\E d \in Removable : Unmount(d)) \/ NetFails
  <2>1. \A q \in Procs : \A gone : LET w == Without(q, gone)
                                   IN  w.pc = proc[q].pc /\ w.probe = proc[q].probe
    BY DEF Without, Shape, IsProc, Fields
  <2>2. \A q \in Procs : proc'[q] = proc[q] \/ \E gone : proc'[q] = Without(q, gone)
    BY <1>5 DEF Unmount, NetFails
  <2>3. probes' = probes BY <1>5 DEF Unmount, NetFails
  <2> QED BY <2>1, <2>2, <2>3, ProbeAside
<1>6. CASE \/ \E j \in Jobs : Save(j)
           \/ \E s \in Folders : Change(s)
           \/ \E d \in Removable : Mount(d)
           \/ NetReturns
           \/ UNCHANGED vars
  BY <1>6, ProbeAside DEF Save, Change, Mount, NetReturns, vars
<1>7. CASE Kill
  <2>1. probes' = probes /\ \A p \in Procs : proc'[p].probe = {}
    BY <1>7 DEF Kill, IdleProc
  <2> QED BY <1>7, <2>1 DEF ProbeInv
<1> QED BY <1>1, <1>2, <1>3, <1>4, <1>5, <1>6, <1>7 DEF Next

\* A preview changes no file and no folder at the target, not even by making
\* one (mirror.go:135), and probe files stay behind only where they are out
\* of reach or the daemon was killed (mirror.go:255-277).
THEOREM PreviewsTouchNothing == Spec => PreviewTouchesNothing
<1>1. Init => PreviewInv /\ ProbeInv BY DEF Init, PreviewInv, ProbeInv, IdleProc, Procs
<1>2. Shape /\ PreviewInv /\ [Next]_vars => PreviewInv' BY PreviewNext
<1>3. Shape /\ ProbeInv /\ [Next]_vars => ProbeInv' BY ProbeNext
<1>4. Shape /\ PreviewInv /\ ProbeInv /\ [Next]_vars =>
         [NothingTouched /\ (Kill \/ NoLitter)]_vars
  BY PreviewNext, ProbeNext
<1>5. NothingTouched /\ (Kill \/ NoLitter) =>
         /\ proc'["preview"] # proc["preview"] /\ proc'["run"] = proc["run"] /\ mtab' = mtab
               => tree' = tree /\ dirs' = dirs
         /\ Kill \/ \A f \in Litter' \ Litter : ~Reached(f)
  BY DEF NothingTouched, NoLitter
<1> QED BY <1>1, <1>2, <1>3, <1>4, <1>5, ShapeAlways, PTL DEF Spec, PreviewTouchesNothing

-----------------------------------------------------------------------------
(* The ssh key *)

\* The public half is that of the private one, and only once there is a
\* private one has anybody read it or is about to.
KeyInv ==
    /\ key = [priv |-> key.priv, pub |-> key.pub]
    /\ key.pub \in {0, key.priv}
    /\ told \subseteq {key.priv}
    /\ key.priv = 0 => told = {}
    /\ \A p \in Procs : At(p, "keypub") => key.priv # 0

\* Only GenerateKey brings anybody to "keypub".
LEMMA KeyAside ==
    ASSUME KeyInv, key' = key, told' = told,
           \A p \in Procs : proc'[p].pc \in {proc[p].pc, "idle", "check", "mkdir", "probe", "probed",
                                             "launch", "key", "keygen", "scan", "tool"}
    PROVE  KeyInv'
BY DEF KeyInv, At

LEMMA GoesPc ==
    ASSUME Shape, NEW p \in Procs, NEW pc, Goes(p, pc)
    PROVE  \A q \in Procs : proc'[q].pc \in {proc[q].pc, pc}
<1>1. IsProc(proc[p]) BY DEF Shape
<1>2. proc' = [proc EXCEPT ![p] = [proc[p] EXCEPT !.pc = pc]] BY DEF Goes
<1>3. [proc[p] EXCEPT !.pc = pc].pc = pc BY <1>1 DEF IsProc, Fields
<1> QED BY <1>2, <1>3 DEF Shape

LEMMA KeyGoes ==
    ASSUME KeyInv, Shape, key' = key, told' = told,
           NEW p \in Procs, NEW pc,
           \/ Goes(p, pc) /\ pc \in {"mkdir", "probe", "launch", "keygen", "scan"}
           \/ Ends(p, pc)
    PROVE  KeyInv'
<1>1. CASE Goes(p, pc) /\ pc \in {"mkdir", "probe", "launch", "keygen", "scan"}
  <2>1. \A q \in Procs : proc'[q].pc \in {proc[q].pc, pc} BY <1>1, GoesPc
  <2> QED BY <1>1, <2>1, KeyAside
<1>2. CASE Ends(p, pc)
  <2>1. \A q \in Procs : proc'[q].pc \in {proc[q].pc, "idle"} BY <1>2, EndsShape DEF IdleProc
  <2> QED BY <2>1, KeyAside
<1> QED BY <1>1, <1>2

\* The first private key is a key.
LEMMA FirstKey == ASSUME key.priv = 0, told = {} PROVE NewKey # 0
<1>1. {key.priv} \cup told = {0} OBVIOUS
<1>2. Max({0}) = 0 BY DEF Max
<1> QED BY <1>1, <1>2 DEF NewKey

LEMMA KeyNext == Shape /\ KeyInv /\ [Next]_vars => KeyInv'
<1> SUFFICES ASSUME Shape, KeyInv, [Next]_vars PROVE KeyInv' OBVIOUS
<1>1. ASSUME NEW p \in Procs, Start(p) PROVE KeyInv'
  <2>1. FirstStep(job.target) \in {"check", "launch", "key", "scan"} BY DEF FirstStep
  <2>2. \A q \in Procs : proc'[q].pc \in {proc[q].pc, FirstStep(job.target)}
    BY <1>1 DEF Start, Shape, IsProc, Fields
  <2> QED BY <1>1, <2>1, <2>2, KeyAside DEF Start, KeyUnchanged
<1>2. ASSUME NEW p \in Procs, FindKey(p) PROVE KeyInv'
  <2>1. CASE told' = told
    <3>1. AfterKey(p) \in {"launch", "scan"} BY DEF AfterKey
    <3> QED BY <1>2, <2>1, <3>1, KeyGoes DEF FindKey
  <2>2. CASE told' # told
    <3>1. /\ key.priv # 0 /\ key.pub # 0 /\ told' = told \cup {key.pub} /\ key' = key
          /\ Goes(p, AfterKey(p))
      BY <1>2, <2>2 DEF FindKey
    <3>2. AfterKey(p) \in {"launch", "scan"} BY DEF AfterKey
    <3>3. \A q \in Procs : proc'[q].pc \in {proc[q].pc, AfterKey(p)} BY <3>1, GoesPc
    <3> QED BY <3>1, <3>2, <3>3 DEF KeyInv, At
  <2> QED BY <2>1, <2>2
<1>3. ASSUME NEW p \in Procs, GenerateKey(p) PROVE KeyInv'
  <2>1. CASE MayWrite
    <3>1. /\ key.priv = 0 /\ told = {} /\ key.pub = 0 BY <2>1 DEF MayWrite, KeyInv
    <3>2. /\ key' = [priv |-> NewKey, pub |-> 0] /\ told' = {} BY <1>3, <2>1, <3>1 DEF GenerateKey
    <3>3. NewKey # 0 BY <3>1, FirstKey
    <3> QED BY <3>2, <3>3 DEF KeyInv
  <2>2. CASE ~MayWrite BY <1>3, <2>2, KeyGoes DEF GenerateKey
  <2> QED BY <2>1, <2>2
<1>4. ASSUME NEW p \in Procs, PublishKey(p) PROVE KeyInv'
  <2>1. key.priv # 0 BY <1>4 DEF PublishKey, KeyInv
  <2>2. key' = [priv |-> key.priv, pub |-> key.priv] /\ told' = told \cup {key.priv}
    BY <1>4 DEF PublishKey, KeyInv
  <2> QED BY <2>1, <2>2 DEF KeyInv
<1>5. ASSUME NEW p \in Procs,
             Refuse(p) \/ Accept(p) \/ MakeDirs(p) \/ Scan(p) \/ NotLaunched(p) \/ Die(p)
      PROVE  KeyInv'
  BY <1>5, KeyGoes
  DEF Refuse, Accept, AfterCheck, MakeDirs, Scan, NotLaunched, Die, KeyUnchanged
<1>11. ASSUME NEW p \in Procs, MakeProbe(p) \/ RemoveProbe(p) PROVE KeyInv'
  <2>1. CASE \E pc \in {"launch"} : Goes(p, pc)
    BY <1>11, <2>1, KeyGoes DEF MakeProbe, RemoveProbe, KeyUnchanged
  <2>2. ASSUME NEW pc \in {"probed", "launch"}, NEW f,
               proc' = [proc EXCEPT ![p].pc = pc, ![p].probe = f]
        PROVE  KeyInv'
    <3>1. \A q \in Procs : proc'[q].pc \in {proc[q].pc, pc} BY <2>2 DEF Shape, IsProc, Fields
    <3> QED BY <1>11, <3>1, KeyAside DEF MakeProbe, RemoveProbe, KeyUnchanged
  <2> QED BY <1>11, <2>1, <2>2 DEF MakeProbe, RemoveProbe
<1>12. CASE Kill
  <2>1. \A q \in Procs : proc'[q].pc = "idle" BY <1>12 DEF Kill, IdleProc
  <2> QED BY <1>12, <2>1, KeyAside DEF Kill, KeyUnchanged
<1>6. ASSUME NEW p \in Procs, Launch(p) PROVE KeyInv'
  <2>1. \A q \in Procs : proc'[q].pc \in {proc[q].pc, "tool"}
    BY <1>6 DEF Launch, Shape, IsProc, Fields, Reading
  <2> QED BY <1>6, <2>1, KeyAside DEF Launch, KeyUnchanged
<1>7. ASSUME NEW p \in Procs, ToolStep(p) \/ Unprepared(p) PROVE KeyInv'
  <2>1. key' = key /\ told' = told
    BY <1>7 DEF ToolStep, CopyFile, DeleteFile, RsyncEnds, Retry, RcloneFails, RcloneEnds,
                Unprepared, KeyUnchanged
  <2>2. CASE \E code : Ends(p, code) BY <2>1, <2>2, KeyGoes
  <2>3. CASE \A q \in Procs : proc'[q].pc \in {proc[q].pc, "launch"} BY <2>1, <2>3, KeyAside
  <2>4. CASE CopyFile(p)
    <3>1. PICK e : proc' = [proc EXCEPT ![p].left = @ \ {e},
                                        ![p].moved = @ \/ (tree' # tree /\ ~Rsync(Target(p))),
                                        ![p].vanished = @ \/ ~(src[e[1]] # None /\ e[2] \in src[e[1]])]
      BY <2>4 DEF CopyFile
    <3>2. proc'[p].pc = proc[p].pc BY <3>1 DEF Shape, IsProc, Fields
    <3> QED BY <2>3, <3>1, <3>2 DEF Shape
  <2>5. CASE DeleteFile(p) BY <2>3, <2>5 DEF DeleteFile
  <2>6. CASE Retry(p)
    <3>1. PICK l : proc' = [proc EXCEPT ![p].list = l, ![p].left = FilesIn(l), ![p].vanished = FALSE]
      BY <2>6 DEF Retry
    <3>2. proc'[p].pc = proc[p].pc BY <3>1 DEF Shape, IsProc, Fields
    <3> QED BY <2>3, <3>1, <3>2 DEF Shape
  <2>7. ASSUME NEW errors, proc' = [proc EXCEPT ![p].pc = "launch", ![p].errors = errors]
        PROVE  KeyInv'
    BY <2>3, <2>7 DEF Shape, IsProc, Fields
  <2>8. CASE RcloneEnds(p) BY <2>2, <2>7, <2>8 DEF RcloneEnds
  <2> QED BY <1>7, <2>2, <2>4, <2>5, <2>6, <2>8 DEF ToolStep, RsyncEnds, RcloneFails, Unprepared
<1>8. ASSUME NEW p \in Procs, Cancel(p) PROVE KeyInv'
  <2>1. \A q \in Procs : proc'[q].pc = proc[q].pc BY <1>8 DEF Cancel, Shape, IsProc, Fields
  <2> QED BY <1>8, <2>1, KeyAside DEF Cancel, KeyUnchanged
<1>9. CASE (\E d \in Removable : Unmount(d)) \/ NetFails
  <2>1. \A q \in Procs : proc'[q].pc = proc[q].pc
    <3>1. CASE NetFails BY <3>1 DEF NetFails, Without, Shape, IsProc, Fields
    <3>2. CASE \E d \in Removable : Unmount(d)
      <4>1. \A q \in Procs : \A gone : Without(q, gone).pc = proc[q].pc BY DEF Without, Shape, IsProc, Fields
      <4>2. \A q \in Procs : proc'[q] = proc[q] \/ \E gone : proc'[q] = Without(q, gone)
        BY <3>2 DEF Unmount
      <4> QED BY <4>1, <4>2
    <3> QED BY <1>9, <3>1, <3>2
  <2> QED BY <1>9, <2>1, KeyAside DEF Unmount, NetFails, KeyUnchanged
<1>10. CASE \/ \E j \in Jobs : Save(j)
            \/ \E s \in Folders : Change(s)
            \/ \E d \in Removable : Mount(d)
            \/ NetReturns
            \/ UNCHANGED vars
  BY <1>10, KeyAside DEF Save, Change, Mount, NetReturns, KeyUnchanged, vars
<1> QED
  BY <1>1, <1>2, <1>3, <1>4, <1>5, <1>6, <1>7, <1>8, <1>9, <1>10, <1>11, <1>12
  DEF Next, OwnStep

LEMMA KeyAlways == Spec => []KeyInv
<1>1. Init => KeyInv BY DEF Init, KeyInv, At, IdleProc
<1>2. Shape /\ KeyInv /\ [Next]_vars => KeyInv' BY KeyNext
<1> QED BY <1>1, <1>2, ShapeAlways, PTL DEF Spec

\* Whoever copied the public key to a server has copied the key that runs
\* and previews use for ever after (sshkey.go:33).
THEOREM KeyIsForLife == Spec => []OneKey
<1>1. KeyInv => OneKey BY DEF KeyInv, OneKey
<1> QED BY <1>1, KeyAlways, PTL

-----------------------------------------------------------------------------
(* What was mirrored *)

\* The history variables tell what is so, and what was mirrored is there.
HistoryInv ==
    /\ src = [s \in Folders |-> src[s]]
    /\ NamesDiffer(job.sources)
    /\ kept \subseteq Folders \X Files /\ steady \subseteq Folders \X Files
    /\ \A x \in kept : x[1] \in job.sources /\ (src[x[1]] = None \/ x[2] \in src[x[1]])
    /\ \A x \in steady : src[x[1]] # None /\ x[2] \in src[x[1]]
    /\ KeptIsThere

Copied(r, x) == <<r.place, Base(x[1]), x[2]>> \in tree

\* While the tool works: its list has what is kept or steady, and the
\* steady files of the folders it was sent to are copied or still to be.
ToolInv(r) ==
    /\ Rsync(r.job.target) => r.rest = {}
    /\ ~Local(r.job.target) => r.place = Remote
    /\ DOMAIN r.list \subseteq r.job.sources
    /\ \A x \in kept : x[1] \in DOMAIN r.list => r.list[x[1]] = None \/ x[2] \in r.list[x[1]]
    /\ \A x \in steady : x[1] \in DOMAIN r.list => r.list[x[1]] # None /\ x[2] \in r.list[x[1]]
    /\ \A x \in steady : x[1] \in r.job.sources \ r.rest => x \in r.left \/ Copied(r, x)

\* The run works for all that is kept, and between two folders those done
\* are copied.
RunInv(r) ==
    r.pc # "idle" =>
        /\ NamesDiffer(r.job.sources)
        /\ \A x \in kept : x[1] \in r.job.sources
        /\ r.rest \subseteq r.job.sources
        /\ r.pc \notin {"launch", "tool"} => r.rest = r.job.sources
        /\ r.pc = "launch" =>
              /\ r.rest = r.job.sources \/ (r.place = Remote /\ ~Local(r.job.target))
              /\ \A x \in steady : x[1] \in r.job.sources \ r.rest => Copied(r, x)
        /\ r.pc = "tool" => ToolInv(r)

KeptInv == HistoryInv /\ RunInv(proc["run"])

\* Nothing happens to the run, and nothing is taken from the target.
LEMMA KeptAside ==
    ASSUME KeptInv, job' = job, src' = src, kept' = kept, steady' = steady, tree \subseteq tree',
           LET r == proc["run"]  n == proc'["run"]
           IN  /\ n.pc = r.pc /\ n.job = r.job /\ n.rest = r.rest
               /\ n.list = r.list /\ n.left = r.left /\ n.place = r.place
    PROVE  KeptInv'
<1>1. HistoryInv' BY DEF KeptInv, HistoryInv, KeptIsThere
<1>2. RunInv(proc["run"])' BY DEF KeptInv, RunInv, ToolInv, Copied
<1> QED BY <1>1, <1>2 DEF KeptInv

\* The run ends; a success had copied everything.
LEMMA KeptEnds ==
    ASSUME Shape, KeptInv, NEW code, Ends("run", code), job' = job, src' = src, tree' = tree,
           code \in Good => /\ At("run", "tool")
                            /\ proc["run"].rest = {} /\ proc["run"].left = {}
    PROVE  KeptInv'
<1>1. RunInv(proc["run"])'
  <2>1. proc'["run"].pc = "idle" BY EndsShape DEF IdleProc, Procs
  <2> QED BY <2>1 DEF RunInv
<1>2. steady' = {} BY DEF Ends
<1>3. CASE kept' = kept BY <1>1, <1>2, <1>3 DEF KeptInv, HistoryInv, KeptIsThere
<1>4. CASE kept' # kept
  <2> DEFINE r == proc["run"]
             new == {x \in steady : x[1] \in r.job.sources \cap job.sources}
  <2>1. code \in Good /\ r.place = Home(job.target) /\ kept' = kept \cup new BY <1>4 DEF Ends
  <2>2. ToolInv(r) BY <2>1 DEF KeptInv, RunInv, At
  <2>3. \A x \in new : Copied(r, x) BY <2>1, <2>2 DEF ToolInv
  <2>4. KeptIsThere'
    BY <2>1, <2>3 DEF KeptInv, HistoryInv, KeptIsThere, Copied
  <2>5. \A x \in kept' : x[1] \in job.sources /\ (src[x[1]] = None \/ x[2] \in src[x[1]])
    BY <2>1 DEF KeptInv, HistoryInv
  <2>6. kept' \subseteq Folders \X Files BY <2>1 DEF KeptInv, HistoryInv
  <2>7. HistoryInv' BY <1>2, <2>4, <2>5, <2>6 DEF KeptInv, HistoryInv
  <2> QED BY <1>1, <2>7 DEF KeptInv
<1> QED BY <1>3, <1>4

\* The run gets ready.
LEMMA KeptGoes ==
    ASSUME Shape, KeptInv, NEW pc, job' = job, src' = src, tree' = tree,
           \/ Goes("run", pc)
           \/ /\ \E f : proc' = [proc EXCEPT !["run"].pc = pc, !["run"].probe = f]
              /\ kept' = kept /\ steady' = steady,
           proc["run"].pc \notin {"idle", "launch", "tool"}, pc # "tool"
    PROVE  KeptInv'
<1>1. /\ proc'["run"].pc = pc
      /\ proc'["run"].job = proc["run"].job /\ proc'["run"].rest = proc["run"].rest
  <2>1. CASE Goes("run", pc) BY <2>1, GoesShape DEF Procs
  <2>2. ASSUME NEW f, proc' = [proc EXCEPT !["run"].pc = pc, !["run"].probe = f]
        PROVE  /\ proc'["run"].pc = pc
               /\ proc'["run"].job = proc["run"].job /\ proc'["run"].rest = proc["run"].rest
    BY <2>2 DEF Shape, IsProc, Fields, Procs
  <2> QED BY <2>1, <2>2
<1>3. kept' = kept /\ steady' = steady BY DEF Goes
<1>2. HistoryInv' BY <1>3 DEF KeptInv, HistoryInv, KeptIsThere
<1>4. RunInv(proc["run"])' BY <1>1, <1>3 DEF KeptInv, RunInv
<1> QED BY <1>2, <1>4 DEF KeptInv

\* A file that a tool deletes is none that is kept or that this run copied.
LEMMA NotExtra ==
    ASSUME KeptInv, At("run", "tool"), Deletes("run"), NEW e \in Extra("run"),
           NEW x \in kept \cup steady, x[1] \in proc["run"].job.sources
    PROVE  e # <<proc["run"].place, Base(x[1]), x[2]>>
<1> DEFINE r == proc["run"]
<1> SUFFICES ASSUME e = <<r.place, Base(x[1]), x[2]>> PROVE FALSE OBVIOUS
<1>1. ToolInv(r) /\ NamesDiffer(r.job.sources) BY DEF KeptInv, RunInv, At
<1>2. PICK s \in DOMAIN r.list : Base(x[1]) = Base(s) BY DEF Extra
<1>3. s = x[1] BY <1>1, <1>2 DEF ToolInv, NamesDiffer
<1>4. r.list[x[1]] # None BY <1>2, <1>3 DEF Deletes, Gone
<1>5. x[2] \in r.list[x[1]] BY <1>1, <1>2, <1>3, <1>4 DEF ToolInv
<1>6. x \in Folders \X Files BY DEF KeptInv, HistoryInv
<1>7. x = <<x[1], x[2]>> /\ x[2] \in Files BY <1>6
<1>8. x \in FilesIn(r.list) BY <1>2, <1>3, <1>4, <1>5, <1>7 DEF FilesIn
<1> QED BY <1>8 DEF Extra

LEMMA KeptDelete == Shape /\ KeptInv /\ DeleteFile("run") => KeptInv'
<1> SUFFICES ASSUME Shape, KeptInv, DeleteFile("run") PROVE KeptInv' OBVIOUS
<1> DEFINE r == proc["run"]
<1>1. PICK e \in Extra("run") : tree' = tree \ {e} BY DEF DeleteFile
<1>2. /\ At("run", "tool") /\ Deletes("run")
      /\ job' = job /\ src' = src /\ kept' = kept /\ steady' = steady /\ proc' = proc
  BY DEF DeleteFile, Working, EnvUnchanged
<1>3. \A x \in kept \cup steady :
         x[1] \in r.job.sources => e # <<r.place, Base(x[1]), x[2]>>
  BY <1>1, <1>2, NotExtra
<1>4. \A x \in kept : x[1] \in r.job.sources BY <1>2 DEF KeptInv, RunInv, At
<1>5. e[1] = r.place BY <1>1 DEF Extra
<1>6. \A x \in kept : <<Home(job.target), Base(x[1]), x[2]>> # e
  BY <1>3, <1>4, <1>5
<1>7. KeptIsThere' BY <1>1, <1>2, <1>6 DEF KeptInv, HistoryInv, KeptIsThere
<1>8. HistoryInv' BY <1>2, <1>7 DEF KeptInv, HistoryInv
<1>9. ToolInv(r)' BY <1>1, <1>2, <1>3 DEF KeptInv, RunInv, ToolInv, Copied, At
<1> QED BY <1>2, <1>8, <1>9 DEF KeptInv, RunInv, At

LEMMA KeptCopy == Shape /\ KeptInv /\ CopyFile("run") => KeptInv'
<1> SUFFICES ASSUME Shape, KeptInv, CopyFile("run") PROVE KeptInv' OBVIOUS
<1> DEFINE r == proc["run"]
<1>1. PICK e \in r.left :
         /\ tree' = IF src[e[1]] # None /\ e[2] \in src[e[1]]
                    THEN tree \cup {<<r.place, Base(e[1]), e[2]>>} ELSE tree
         /\ proc' = [proc EXCEPT !["run"].left = @ \ {e},
                                 !["run"].moved = @ \/ (tree' # tree /\ ~Rsync(Target("run"))),
                                 !["run"].vanished = @ \/ ~(src[e[1]] # None /\ e[2] \in src[e[1]])]
  BY DEF CopyFile
<1>2. /\ At("run", "tool")
      /\ job' = job /\ src' = src /\ kept' = kept /\ steady' = steady
  BY DEF CopyFile, Working, EnvUnchanged
<1>3. /\ proc'["run"].pc = "tool" /\ proc'["run"].left = r.left \ {e}
      /\ proc'["run"].job = r.job /\ proc'["run"].rest = r.rest /\ proc'["run"].list = r.list
      /\ proc'["run"].place = r.place
  BY <1>1, <1>2 DEF Shape, IsProc, Fields, At, Procs
<1>4. tree \subseteq tree' BY <1>1
<1>5. HistoryInv' BY <1>2, <1>4 DEF KeptInv, HistoryInv, KeptIsThere
<1>6. ToolInv(r) /\ RunInv(r) BY <1>2 DEF KeptInv, RunInv, At
<1>7. \A x \in steady : x[1] \in r.job.sources \ r.rest =>
         x \in r.left \ {e} \/ <<r.place, Base(x[1]), x[2]>> \in tree'
  <2> SUFFICES ASSUME NEW x \in steady, x[1] \in r.job.sources \ r.rest, x \notin r.left \ {e}
               PROVE  <<r.place, Base(x[1]), x[2]>> \in tree'
    OBVIOUS
  <2>1. CASE Copied(r, x) BY <1>4, <2>1 DEF Copied
  <2>2. CASE x = e
    <3>1. src[e[1]] # None /\ e[2] \in src[e[1]] BY <2>2 DEF KeptInv, HistoryInv
    <3> QED BY <1>1, <2>2, <3>1
  <2> QED BY <1>6, <2>1, <2>2 DEF ToolInv
<1>8. ToolInv(proc["run"])' BY <1>2, <1>3, <1>6, <1>7 DEF ToolInv, Copied
<1>9. RunInv(proc["run"])' BY <1>2, <1>3, <1>6, <1>8 DEF RunInv, At
<1> QED BY <1>5, <1>9 DEF KeptInv

LEMMA KeptRetry == Shape /\ KeptInv /\ Retry("run") => KeptInv'
<1> SUFFICES ASSUME Shape, KeptInv, Retry("run") PROVE KeptInv' OBVIOUS
<1> DEFINE r == proc["run"]
           list == [s \in DOMAIN r.list |-> src[s]]
<1>1. proc' = [proc EXCEPT !["run"].list = list, !["run"].left = FilesIn(list),
                           !["run"].vanished = FALSE]
  BY DEF Retry
<1>2. /\ At("run", "tool") /\ r.left = {}
      /\ job' = job /\ src' = src /\ kept' = kept /\ steady' = steady /\ tree' = tree
  BY DEF Retry, Working, EnvUnchanged
<1> HIDE DEF list
<1>3. /\ proc'["run"].pc = "tool" /\ proc'["run"].list = list
      /\ proc'["run"].job = r.job /\ proc'["run"].rest = r.rest
      /\ proc'["run"].place = r.place
  BY <1>1, <1>2 DEF Shape, IsProc, Fields, At, Procs
<1>4. HistoryInv' BY <1>2 DEF KeptInv, HistoryInv, KeptIsThere
<1>5. ToolInv(r) /\ RunInv(r) BY <1>2 DEF KeptInv, RunInv, At
<1>6. DOMAIN list = DOMAIN r.list /\ \A s \in DOMAIN list : list[s] = src[s] BY DEF list
<1>7. /\ \A x \in kept : src[x[1]] = None \/ x[2] \in src[x[1]]
      /\ \A x \in steady : src[x[1]] # None /\ x[2] \in src[x[1]]
  BY DEF KeptInv, HistoryInv
<1>8. ToolInv(proc["run"])'
  BY <1>2, <1>3, <1>5, <1>6, <1>7 DEF ToolInv, Copied
<1>9. RunInv(proc["run"])' BY <1>2, <1>3, <1>5, <1>8 DEF RunInv, At
<1> QED BY <1>4, <1>9 DEF KeptInv

LEMMA KeptLaunch == Shape /\ KeptInv /\ Launch("run") => KeptInv'
<1> SUFFICES ASSUME Shape, KeptInv, Launch("run") PROVE KeptInv' OBVIOUS
<1> DEFINE r == proc["run"]
<1>1. PICK work \in (IF Rsync(Target("run")) THEN {r.rest} ELSE {{s} : s \in r.rest}) :
         proc' = [proc EXCEPT !["run"] = Reading("run", work)]
  BY DEF Launch
<1> DEFINE list == [s \in work |-> src[s]]
<1>2. /\ At("run", "launch")
      /\ job' = job /\ src' = src /\ kept' = kept /\ steady' = steady /\ tree' = tree
  BY DEF Launch
<1>3. proc'["run"] = Reading("run", work) BY <1>1 DEF Shape, Procs
<1>4. /\ proc'["run"].pc = "tool" /\ proc'["run"].rest = r.rest \ work
      /\ proc'["run"].list = list /\ proc'["run"].left = FilesIn(list)
      /\ proc'["run"].place = PlaceNow("run") /\ proc'["run"].job = r.job
  BY <1>3 DEF Reading, Shape, IsProc, Fields, Procs, dry
<1>5. DOMAIN list = work /\ \A s \in work : list[s] = src[s] OBVIOUS
<1> HIDE DEF list
<1>6. RunInv(r) BY DEF KeptInv
<1>7. /\ work \subseteq r.rest /\ r.rest \subseteq r.job.sources
      /\ Rsync(r.job.target) => work = r.rest
      /\ ~Local(r.job.target) => PlaceNow("run") = Remote
  BY <1>1, <1>2, <1>6 DEF RunInv, At, Target, PlaceNow
<1>8. HistoryInv' BY <1>2 DEF KeptInv, HistoryInv, KeptIsThere
<1>9. /\ \A x \in kept : src[x[1]] = None \/ x[2] \in src[x[1]]
      /\ \A x \in steady : src[x[1]] # None /\ x[2] \in src[x[1]] /\ x \in Folders \X Files
  BY DEF KeptInv, HistoryInv
<1>10. \A x \in steady : x[1] \in r.job.sources \ (r.rest \ work) =>
          x \in FilesIn(list) \/ <<PlaceNow("run"), Base(x[1]), x[2]>> \in tree
  <2> SUFFICES ASSUME NEW x \in steady, x[1] \in r.job.sources \ (r.rest \ work)
               PROVE  x \in FilesIn(list) \/ <<PlaceNow("run"), Base(x[1]), x[2]>> \in tree
    OBVIOUS
  <2>1. CASE x[1] \in work
    <3>1. x = <<x[1], x[2]>> /\ x[2] \in Files BY <1>9
    <3> QED BY <1>5, <1>9, <2>1, <3>1 DEF FilesIn
  <2>2. CASE x[1] \in r.job.sources \ r.rest
    <3>1. Copied(r, x) /\ r.place = Remote /\ ~Local(r.job.target)
      BY <1>2, <1>6, <2>2 DEF RunInv, At
    <3> QED BY <1>7, <3>1 DEF Copied
  <2> QED BY <2>1, <2>2
<1>11. ToolInv(proc["run"])'
  BY <1>2, <1>4, <1>5, <1>7, <1>9, <1>10 DEF ToolInv, Copied
<1>12. RunInv(proc["run"])' BY <1>2, <1>4, <1>6, <1>7, <1>11 DEF RunInv, At
<1> QED BY <1>8, <1>12 DEF KeptInv

LEMMA KeptRcloneEnds == Shape /\ KeptInv /\ RcloneEnds("run") => KeptInv'
<1> SUFFICES ASSUME Shape, KeptInv, RcloneEnds("run") PROVE KeptInv' OBVIOUS
<1> DEFINE r == proc["run"]
<1>1. /\ At("run", "tool") /\ r.left = {} /\ ~Rsync(r.job.target)
      /\ job' = job /\ src' = src /\ tree' = tree
  BY DEF RcloneEnds, Done, Working, EnvUnchanged, Target
<1>2. ASSUME NEW code, Ends("run", code), code \in Good => r.rest = {} PROVE KeptInv'
  BY <1>1, <1>2, KeptEnds
<1>3. ASSUME NEW errors, proc' = [proc EXCEPT !["run"].pc = "launch", !["run"].errors = errors],
             steady' = steady, kept' = kept
      PROVE  KeptInv'
  <2>1. /\ proc'["run"].pc = "launch" /\ proc'["run"].job = r.job /\ proc'["run"].rest = r.rest
        /\ proc'["run"].place = r.place
    BY <1>3 DEF Shape, IsProc, Fields, Procs
  <2>2. HistoryInv' BY <1>1, <1>3 DEF KeptInv, HistoryInv, KeptIsThere
  <2>3. ToolInv(r) /\ RunInv(r) BY <1>1 DEF KeptInv, RunInv, At
  <2>4. r.place = Remote /\ ~Local(r.job.target) BY <1>1, <2>3 DEF ToolInv, Rsync, Local
  <2>5. \A x \in steady : x[1] \in r.job.sources \ r.rest => Copied(r, x)
    BY <1>1, <2>3 DEF ToolInv
  <2>6. \A x \in steady' : x[1] \in r.job.sources \ r.rest => Copied(proc["run"], x)'
    BY <1>1, <1>3, <2>1, <2>5 DEF Copied
  <2>7. /\ NamesDiffer(r.job.sources) /\ r.rest \subseteq r.job.sources
        /\ \A x \in kept : x[1] \in r.job.sources
    BY <1>1, <2>3 DEF RunInv, At
  <2>8. RunInv(proc["run"])' BY <1>3, <2>1, <2>4, <2>6, <2>7 DEF RunInv
  <2> QED BY <2>2, <2>8 DEF KeptInv
<1>4. PICK errors \in {r.errors, TRUE} :
         IF r.dead THEN Ends("run", "cancelled")
         ELSE IF r.rest = {} THEN Ends("run", IF errors THEN "partial" ELSE "completed")
         ELSE /\ proc' = [proc EXCEPT !["run"].pc = "launch", !["run"].errors = errors]
              /\ UNCHANGED <<last, steady, kept>>
  BY DEF RcloneEnds
<1>5. CASE r.dead BY <1>2, <1>4, <1>5 DEF Good
<1>6. CASE ~r.dead /\ r.rest = {} BY <1>2, <1>4, <1>6
<1>7. CASE ~r.dead /\ r.rest # {} BY <1>3, <1>4, <1>7
<1> QED BY <1>5, <1>6, <1>7

\* Nothing a preview does touches the run.
LEMMA PreviewAlone ==
    ASSUME Shape,
           Start("preview") \/ OwnStep("preview") \/ ToolStep("preview") \/ Unprepared("preview")
    PROVE  proc'["run"] = proc["run"]
<1>1. CASE Start("preview") BY <1>1 DEF Start, Shape, Procs
<1>2. CASE \E pc : Goes("preview", pc) BY <1>2, GoesShape DEF Procs
<1>3. CASE \E code : Ends("preview", code) BY <1>3, EndsShape DEF Procs
<1>4. CASE Launch("preview") BY <1>4 DEF Launch, Shape, Procs
<1>5. CASE CopyFile("preview") \/ DeleteFile("preview") \/ Retry("preview")
  BY <1>5 DEF CopyFile, DeleteFile, Retry, Shape, Procs
<1>6. CASE RcloneEnds("preview") BY <1>3, <1>6 DEF RcloneEnds, Shape, Procs
<1>7. CASE Refuse("preview") \/ Accept("preview") \/ MakeDirs("preview") \/ FindKey("preview")
           \/ GenerateKey("preview") \/ PublishKey("preview") \/ Scan("preview")
           \/ NotLaunched("preview") \/ Die("preview") \/ Unprepared("preview")
  BY <1>2, <1>3, <1>7
  DEF Refuse, Accept, MakeDirs, FindKey, GenerateKey, PublishKey, Scan, NotLaunched, Die, Unprepared
<1>8. CASE RsyncEnds("preview") \/ RcloneFails("preview")
  BY <1>3, <1>8 DEF RsyncEnds, RcloneFails
<1>9. CASE MakeProbe("preview") \/ RemoveProbe("preview")
  BY <1>2, <1>9 DEF MakeProbe, RemoveProbe, Shape, Procs
<1> QED BY <1>1, <1>4, <1>5, <1>6, <1>7, <1>8, <1>9 DEF OwnStep, ToolStep

\* What the run or anybody else may do to a preview, and it to them.
LEMMA KeptPreview ==
    ASSUME Shape, KeptInv,
           Start("preview") \/ OwnStep("preview") \/ ToolStep("preview") \/ Unprepared("preview")
    PROVE  KeptInv'
<1>1. proc'["run"] = proc["run"] BY PreviewAlone
<1>2. job' = job /\ src' = src
  BY DEF Start, OwnStep, ToolStep, Unprepared, Refuse, Accept, MakeDirs, MakeProbe, RemoveProbe, FindKey, GenerateKey,
         PublishKey, Scan, Launch, NotLaunched, Die, CopyFile, DeleteFile, RsyncEnds, Retry,
         RcloneFails, RcloneEnds, EnvUnchanged
<1>3. kept' = kept /\ steady' = steady
  <2>1. \A pc : Goes("preview", pc) => kept' = kept /\ steady' = steady BY DEF Goes
  <2>2. \A code : Ends("preview", code) => kept' = kept /\ steady' = steady BY DEF Ends
  <2> QED
    BY <2>1, <2>2
    DEF Start, OwnStep, ToolStep, Unprepared, Refuse, Accept, MakeDirs, MakeProbe, RemoveProbe, FindKey, GenerateKey,
        PublishKey, Scan, Launch, NotLaunched, Die, CopyFile, DeleteFile, RsyncEnds, Retry,
        RcloneFails, RcloneEnds
<1>4. tree \subseteq tree'
  BY DEF Start, OwnStep, ToolStep, Unprepared, Refuse, Accept, MakeDirs, MakeProbe, RemoveProbe, FindKey, GenerateKey,
         PublishKey, Scan, Launch, NotLaunched, Die, CopyFile, DeleteFile, Deletes, dry, RsyncEnds,
         Retry, RcloneFails, RcloneEnds
<1> QED BY <1>1, <1>2, <1>3, <1>4, KeptAside

\* The steps of the run that end it or get it ready.
LEMMA KeptRun ==
    ASSUME Shape, KeptInv,
           \/ Refuse("run") \/ Accept("run") \/ MakeDirs("run") \/ FindKey("run")
           \/ GenerateKey("run") \/ PublishKey("run") \/ Scan("run") \/ NotLaunched("run")
           \/ Die("run") \/ Unprepared("run") \/ RsyncEnds("run") \/ RcloneFails("run")
           \/ MakeProbe("run") \/ RemoveProbe("run")
    PROVE  KeptInv'
<1>1. job' = job /\ src' = src /\ tree' = tree
  BY DEF Unprepared, Refuse, Accept, MakeDirs, MakeProbe, RemoveProbe, FindKey, GenerateKey,
         PublishKey, Scan, NotLaunched, Die, RsyncEnds, RcloneFails, EnvUnchanged
<1>2. ASSUME NEW code, Ends("run", code), code \notin Good PROVE KeptInv'
  BY <1>1, <1>2, KeptEnds
<1>3. ASSUME NEW pc, Goes("run", pc), pc # "tool", proc["run"].pc \notin {"idle", "launch", "tool"}
      PROVE  KeptInv'
  BY <1>1, <1>3, KeptGoes
<1>4. CASE Refuse("run") \/ NotLaunched("run") \/ Die("run") \/ Unprepared("run")
  BY <1>2, <1>4 DEF Refuse, NotLaunched, Die, Unprepared, Good
<1>5. CASE Accept("run") \/ MakeDirs("run") \/ FindKey("run") \/ GenerateKey("run")
           \/ PublishKey("run") \/ Scan("run")
  BY <1>2, <1>3, <1>5
  DEF Accept, MakeDirs, FindKey, GenerateKey, PublishKey, Scan, AfterCheck, AfterKey, At, Good
<1>8. CASE MakeProbe("run")
  <2>1. At("run", "probe") BY <1>8 DEF MakeProbe
  <2>2. CASE Goes("run", "launch") BY <1>3, <2>1, <2>2 DEF At
  <2>3. CASE ~Goes("run", "launch")
    <3>1. PICK f : /\ proc' = [proc EXCEPT !["run"].pc = "probed", !["run"].probe = f]
                   /\ kept' = kept /\ steady' = steady
      BY <1>8, <2>3 DEF MakeProbe
    <3> QED BY <1>1, <2>1, <3>1, KeptGoes DEF At
  <2> QED BY <2>2, <2>3
<1>9. CASE RemoveProbe("run") BY <1>1, <1>9, KeptGoes DEF RemoveProbe, At
<1>6. CASE RcloneFails("run")
  <2>1. \A moved, errors, msg : Judged("run", RcloneCode(moved, errors, msg)) \notin Good
    BY DEF Judged, RcloneCode, Good
  <2> QED BY <1>2, <1>6, <2>1 DEF RcloneFails
<1>7. CASE RsyncEnds("run")
  <2>1. PICK x, seen : /\ x \in {1, 23} \cup RsyncExits("run")
                       /\ seen => x \in RsyncExits("run")
                       /\ Ends("run", Judged("run", RsyncCode(x, seen, proc["run"].saw)))
    BY <1>7 DEF RsyncEnds
  <2> DEFINE code == Judged("run", RsyncCode(x, seen, proc["run"].saw))
  <2>2. CASE code \notin Good BY <1>2, <2>1, <2>2
  <2>3. CASE code \in Good
    <3>1. x \in {0, 24} /\ seen BY <2>3 DEF Judged, RsyncCode, Good
    <3>2. Done("run") BY <2>1, <3>1 DEF RsyncExits
    <3>3. At("run", "tool") /\ Rsync(proc["run"].job.target) BY <1>7 DEF RsyncEnds, Target
    <3>4. proc["run"].rest = {} BY <3>3 DEF KeptInv, RunInv, ToolInv, At
    <3> QED BY <1>1, <2>1, <3>2, <3>3, <3>4, KeptEnds DEF Done
  <2> QED BY <2>2, <2>3
<1> QED BY <1>4, <1>5, <1>6, <1>7, <1>8, <1>9

LEMMA KeptStart == Shape /\ KeptInv /\ Start("run") => KeptInv'
<1> SUFFICES ASSUME Shape, KeptInv, Start("run") PROVE KeptInv' OBVIOUS
<1>1. FirstStep(job.target) \in {"check", "launch", "key", "scan"} BY DEF FirstStep
<1>2. /\ proc'["run"].pc = FirstStep(job.target)
      /\ proc'["run"].job = job /\ proc'["run"].rest = job.sources
  BY DEF Start, Shape, IsProc, Fields, Procs
<1>3. /\ job' = job /\ src' = src /\ kept' = kept /\ tree' = tree
      /\ steady' = {x \in Folders \X Files : src[x[1]] # None /\ x[2] \in src[x[1]]}
  BY DEF Start, EnvUnchanged
<1>4. HistoryInv' BY <1>3 DEF KeptInv, HistoryInv, KeptIsThere
<1>5. RunInv(proc["run"])' BY <1>1, <1>2, <1>3 DEF KeptInv, HistoryInv, RunInv
<1> QED BY <1>4, <1>5 DEF KeptInv

LEMMA KeptChange == ASSUME KeptInv, NEW s \in Folders, Change(s) PROVE KeptInv'
<1>1. PICK fs : /\ src' = [src EXCEPT ![s] = fs]
                /\ steady' = {x \in steady : x[1] # s \/ (fs # None /\ x[2] \in fs)}
                /\ kept' = {x \in kept : x[1] # s \/ fs = None \/ x[2] \in fs}
  BY DEF Change
<1>2. job' = job /\ tree' = tree /\ proc' = proc BY DEF Change
<1>3. src' = [r \in Folders |-> IF r = s THEN fs ELSE src[r]]
  BY <1>1 DEF KeptInv, HistoryInv
<1>4. \A x \in kept' : src'[x[1]] = None \/ x[2] \in src'[x[1]]
  BY <1>1, <1>3 DEF KeptInv, HistoryInv
<1>5. \A x \in steady' : src'[x[1]] # None /\ x[2] \in src'[x[1]]
  BY <1>1, <1>3 DEF KeptInv, HistoryInv
<1>6. kept' \subseteq kept /\ steady' \subseteq steady BY <1>1
<1>7. HistoryInv' BY <1>2, <1>3, <1>4, <1>5, <1>6 DEF KeptInv, HistoryInv, KeptIsThere
<1>8. RunInv(proc["run"])' BY <1>2, <1>6 DEF KeptInv, RunInv, ToolInv, Copied
<1> QED BY <1>7, <1>8 DEF KeptInv

LEMMA KeptSave == ASSUME KeptInv, NEW j \in Jobs, Save(j) PROVE KeptInv'
<1>1. /\ job' = j /\ NamesDiffer(j.sources)
      /\ kept' = {x \in kept : x[1] \in j.sources /\ j.target = job.target}
      /\ src' = src /\ tree' = tree /\ proc' = proc /\ steady' = steady
  BY DEF Save, Valid
<1>2. KeptIsThere' BY <1>1 DEF KeptInv, HistoryInv, KeptIsThere
<1>3. HistoryInv' BY <1>1, <1>2 DEF KeptInv, HistoryInv
<1>4. RunInv(proc["run"])' BY <1>1 DEF KeptInv, RunInv, ToolInv, Copied
<1> QED BY <1>3, <1>4 DEF KeptInv

LEMMA KeptNext == Shape /\ KeptInv /\ [Next]_vars => KeptInv'
<1> SUFFICES ASSUME Shape, KeptInv, [Next]_vars PROVE KeptInv' OBVIOUS
<1>1. CASE \/ Start("preview") \/ OwnStep("preview") \/ ToolStep("preview")
           \/ Unprepared("preview")
  BY <1>1, KeptPreview
<1>2. CASE Start("run") \/ OwnStep("run") \/ ToolStep("run") \/ Unprepared("run")
  BY <1>2, KeptStart, KeptRun, KeptLaunch, KeptCopy, KeptDelete, KeptRetry, KeptRcloneEnds
  DEF OwnStep, ToolStep
<1>3. ASSUME NEW p \in Procs, Cancel(p) PROVE KeptInv'
  <2>1. /\ proc'["run"].pc = proc["run"].pc /\ proc'["run"].job = proc["run"].job
        /\ proc'["run"].rest = proc["run"].rest /\ proc'["run"].list = proc["run"].list
        /\ proc'["run"].left = proc["run"].left /\ proc'["run"].place = proc["run"].place
    BY <1>3 DEF Cancel, Shape, IsProc, Fields, Procs
  <2> QED BY <1>3, <2>1, KeptAside DEF Cancel, EnvUnchanged
<1>4. CASE (\E d \in Removable : Unmount(d)) \/ NetFails
  <2>1. \A gone : LET w == Without("run", gone)  r == proc["run"]
                  IN  /\ w.pc = r.pc /\ w.job = r.job /\ w.rest = r.rest
                      /\ w.list = r.list /\ w.left = r.left /\ w.place = r.place
    BY DEF Without, Shape, IsProc, Fields, Procs
  <2>2. proc'["run"] = proc["run"] \/ \E gone : proc'["run"] = Without("run", gone)
    BY <1>4 DEF Unmount, NetFails, Procs
  <2> QED BY <1>4, <2>1, <2>2, KeptAside DEF Unmount, NetFails
<1>5. CASE \/ \E d \in Removable : Mount(d)
           \/ NetReturns
           \/ UNCHANGED vars
  BY <1>5, KeptAside DEF Mount, NetReturns, vars
<1>6. CASE (\E j \in Jobs : Save(j)) \/ (\E s \in Folders : Change(s))
  BY <1>6, KeptSave, KeptChange
<1>7. CASE Kill
  <2>1. /\ proc'["run"].pc = "idle" /\ steady' = {} /\ kept' = kept
        /\ job' = job /\ src' = src /\ tree' = tree
    BY <1>7 DEF Kill, EnvUnchanged, IdleProc, Procs
  <2> QED BY <2>1 DEF KeptInv, HistoryInv, KeptIsThere, RunInv
<1> QED BY <1>1, <1>2, <1>3, <1>4, <1>5, <1>6, <1>7 DEF Next, Procs

LEMMA KeptAlways == Spec => []KeptInv
<1>1. Init => KeptInv
  BY DEF Init, Valid, KeptInv, HistoryInv, KeptIsThere, RunInv, IdleProc, Procs
<1>2. Shape /\ KeptInv /\ [Next]_vars => KeptInv' BY KeptNext
<1> QED BY <1>1, <1>2, ShapeAlways, PTL DEF Spec

\* What a run mirrored stays in the copy while it is in the source or the
\* source is gone, whatever runs, previews, edits, cancels and errors come
\* after it (mirror.go:1-5).
THEOREM MirroredStays == Spec => []KeptIsThere
<1>1. KeptInv => KeptIsThere BY DEF KeptInv, HistoryInv
<1> QED BY <1>1, KeptAlways, PTL

-----------------------------------------------------------------------------
(* The mount table *)

\* What stays is mounted, and a mount point is a folder on what is mounted
\* there.
DiskInv ==
    /\ Fixed \subseteq mtab /\ mtab \subseteq Lines
    /\ \A l \in Lines : <<l.dev, l.at>> \in dirs

LEMMA DiskNext == DiskInv /\ [Next]_vars => DiskInv'
<1> SUFFICES ASSUME DiskInv, [Next]_vars PROVE DiskInv' OBVIOUS
<1>1. ASSUME mtab' = mtab, dirs \subseteq dirs' PROVE DiskInv' BY <1>1 DEF DiskInv, Lines
<1>2. ASSUME NEW p \in Procs, Start(p) \/ OwnStep(p) \/ ToolStep(p) \/ Unprepared(p) \/ Cancel(p)
      PROVE  DiskInv'
  <2>1. mtab' = mtab
    BY <1>2 DEF Start, OwnStep, ToolStep, Unprepared, Cancel, Refuse, Accept, MakeDirs, MakeProbe,
                RemoveProbe, FindKey, GenerateKey, PublishKey, Scan, Launch, NotLaunched, Die, CopyFile, DeleteFile,
                RsyncEnds, Retry, RcloneFails, RcloneEnds, EnvUnchanged
  <2>2. dirs \subseteq dirs'
    <3>1. \A t : dirs \subseteq WithFolders(mtab, dirs, t) BY DEF WithFolders
    <3>2. CASE MakeDirs(p) BY <3>1, <3>2 DEF MakeDirs
    <3>3. CASE Launch(p) BY <3>1, <3>3 DEF Launch
    <3>4. CASE ~MakeDirs(p) /\ ~Launch(p)
      BY <1>2, <3>4 DEF Start, OwnStep, ToolStep, Unprepared, Cancel, Refuse, Accept, MakeProbe,
                RemoveProbe, FindKey, GenerateKey, PublishKey, Scan, NotLaunched, Die, CopyFile, DeleteFile,
                RsyncEnds, Retry, RcloneFails, RcloneEnds, EnvUnchanged
    <3> QED BY <3>2, <3>3, <3>4
  <2> QED BY <1>1, <2>1, <2>2
<1>3. ASSUME NEW d \in Removable, Unmount(d) PROVE DiskInv'
  <2>1. mtab' = mtab \ d /\ dirs \subseteq dirs' BY <1>3 DEF Unmount
  <2> QED BY <2>1, MountsAssumption DEF DiskInv, Lines
<1>4. ASSUME NEW d \in Removable, Mount(d) PROVE DiskInv'
  <2>1. mtab' = mtab \cup d /\ dirs' = dirs BY <1>4 DEF Mount
  <2> QED BY <2>1 DEF DiskInv, Lines
<1>5. CASE \/ \E j \in Jobs : Save(j)
           \/ \E s \in Folders : Change(s)
           \/ NetFails \/ NetReturns \/ Kill \/ UNCHANGED vars
  BY <1>1, <1>5 DEF Save, Change, NetFails, NetReturns, Kill, EnvUnchanged, vars
<1> QED BY <1>2, <1>3, <1>4, <1>5 DEF Next

LEMMA DiskAlways == Spec => []DiskInv
<1>1. Init => DiskInv BY DEF Init, DiskInv, Lines
<1> QED BY <1>1, DiskNext, PTL DEF Spec

\* The table in use is one that TargetsProofs is about.
LEMMA Tables ==
    ASSUME DiskInv
    PROVE  /\ MountTable(mtab) /\ MountTable(Lines)
           /\ \A l \in mtab : <<l.dev, l.at>> \in dirs
<1>1. Fixed \subseteq Lines BY DEF Lines
<1> QED BY <1>1, MountsAssumption, StringsAreNames DEF DiskInv, MountTable

-----------------------------------------------------------------------------
(* What is offered *)

\* Whatever came, went or was left behind: a run accepts every volume that
\* the user is offered (mounts.go, localfs.go).
THEOREM OfferedRunsAccept == Spec => []OfferedIsAccepted
<1>1. ASSUME DiskInv PROVE OfferedIsAccepted
  <2>1. MountTable(mtab) /\ \A l \in mtab : <<l.dev, l.at>> \in dirs BY <1>1, Tables
  <2>2. ContainersApart(mtab, Disk)
    <3>1. mtab \subseteq Lines /\ SystemDisk(Fixed, Disk) \subseteq SystemDisk(mtab, Disk)
      BY <1>1 DEF DiskInv, SystemDisk
    <3> QED BY <3>1, ContainersAssumption DEF ContainersApart
  <2>3. ASSUME NEW v \in Volumes(mtab, Disk)
        PROVE  Check(mtab, dirs, v.at \o <<"backups">>)
    <3> DEFINE p == v.at \o <<"backups">>
    <3>1. v.at \in APath BY <2>1 DEF Volumes, Candidates, MountTable
    <3>2. <<"backups">> \in APath /\ Len(<<"backups">>) = 1
      <4>1. "backups" \in Names BY DEF Names
      <4>2. \A n \in Names : <<n>> \in Seq(Names) OBVIOUS
      <4>3. Len(<<"backups">>) = 1 OBVIOUS
      <4> QED BY <4>1, <4>2, <4>3 DEF APath
    <3>3. /\ p \in APath /\ Len(p) = Len(v.at) + 1 /\ Len(v.at) \in Nat
          /\ \A i \in 1..Len(v.at) : p[i] = v.at[i]
      BY <3>1, <3>2, ConcatProperties, LenProperties DEF APath
    <3> HIDE DEF p
    <3>4. v.at \in Above(p) BY <3>1, <3>3, AboveNames
    <3>5. Check(mtab, dirs, p) BY <2>1, <2>2, <3>3, <3>4, OfferedIsTaken
    <3> QED BY <3>5 DEF p
  <2> QED BY <2>3 DEF OfferedIsAccepted
<1> QED BY <1>1, DiskAlways, PTL

-----------------------------------------------------------------------------
(* Reasons *)

LEMMA NothingWrong == "wrong" \notin Verdicts \cup VerdictsDead
<1>1. ASSUME NEW w \in Worlds, NEW late PROVE Verdict(w, late) # "wrong"
  <2>1. Sensible(w) BY WorldsAssumption
  <2>2. ~Excused(w, late) => Holds(w, Explain(Found(w, late))) BY <2>1, ReasonsAreSo
  <2> QED BY <2>2 DEF Verdict
<1> QED BY <1>1 DEF Verdicts, VerdictsDead

\* A reason for a missing share leads the user to what is broken, or it is
\* one that netpath cannot know better (netpath.go:1-11).
THEOREM ReasonsNeverMislead == Spec => []NeverMisled
<1>1. Init => NeverMisled BY DEF Init, NeverMisled
<1>2. NeverMisled /\ [Next]_vars => NeverMisled'
  <2> SUFFICES ASSUME NeverMisled, [Next]_vars PROVE NeverMisled' OBVIOUS
  <2>1. ASSUME NEW p \in Procs, Refuse(p) PROVE NeverMisled'
    BY <2>1, NothingWrong DEF Refuse, NeverMisled
  <2>2. ASSUME misled' = misled PROVE NeverMisled' BY <2>2 DEF NeverMisled
  <2>3. ASSUME NEW p \in Procs, OwnStep(p), ~Refuse(p) PROVE misled' = misled
    BY <2>3 DEF OwnStep, Accept, MakeDirs, MakeProbe, RemoveProbe, FindKey, GenerateKey,
                PublishKey, Scan, Launch, NotLaunched, Die
  <2>4. ASSUME NEW p \in Procs, ToolStep(p) \/ Unprepared(p) \/ Cancel(p)
        PROVE  misled' = misled
    BY <2>4 DEF ToolStep, Unprepared, Cancel, CopyFile, DeleteFile, RsyncEnds, Retry,
                RcloneFails, RcloneEnds
  <2>5. ASSUME NEW p \in Procs, Start(p) PROVE NeverMisled' BY <2>5 DEF Start, NeverMisled
  <2>6. CASE \/ \E j \in Jobs : Save(j)
             \/ \E s \in Folders : Change(s)
             \/ \E d \in Removable : Unmount(d) \/ Mount(d)
             \/ NetFails \/ NetReturns \/ Kill \/ UNCHANGED vars
    BY <2>2, <2>6 DEF Save, Change, Unmount, Mount, NetFails, NetReturns, Kill, vars
  <2> QED BY <2>1, <2>2, <2>3, <2>4, <2>5, <2>6 DEF Next
<1> QED BY <1>1, <1>2, PTL DEF Spec

-----------------------------------------------------------------------------
(* Where a run writes *)

\* Everything that may be mounted above path is.
AllThere(path) == \A l \in Lines : l.at \in Above(path) => l \in mtab

\* What comes and goes above a target lies below a container mount alone:
\* no disk is mounted inside /DATA or inside another disk.
OneDiskAbove ==
    \A j \in Jobs : Local(j.target) =>
        \A r \in Lines \ Fixed : r.at \in Above(j.target.path) =>
            \A k \in Lines \ {r} : k.at \in Above(j.target.path) => k.at \in ContainerMounts

\* Between its check and its tool.
Ready == {"mkdir", "probe", "probed", "launch"}

\* From its check to its tool everything above the target is there, or went
\* after the check.
RunHome(r) ==
    r.pc # "idle" =>
        /\ r.job \in Jobs
        /\ (r.pc \in {"key", "keygen", "keypub", "scan"} => ~Local(r.job.target))
        /\ (r.pc \in Ready /\ Local(r.job.target) =>
                r.raced \/ AllThere(r.job.target.path))
        /\ (r.pc = "tool" => r.raced \/ r.place = Home(r.job.target))

HomeInv == job \in Jobs /\ RunHome(proc["run"])

\* An accepted target has everything above it.
LEMMA AcceptedIsThere ==
    ASSUME OneDiskAbove, DiskInv, NEW j \in Jobs, Local(j.target), Check(mtab, dirs, j.target.path)
    PROVE  AllThere(j.target.path)
<1> DEFINE p == j.target.path
<1>1. p \in APath BY JobsAssumption, StringsAreNames
<1>2. MountTable(mtab) /\ \A l \in mtab : <<l.dev, l.at>> \in dirs BY Tables
<1>3. PICK l \in mtab : l.at \in Above(p) \ ContainerMounts
  BY <1>1, <1>2, AcceptedLiesOnADisk
<1>4. ASSUME NEW r \in Lines, r.at \in Above(p), r \notin mtab PROVE FALSE
  <2>1. r \in Lines \ Fixed /\ l \in Lines \ {r} BY <1>4 DEF DiskInv
  <2> QED BY <1>3, <1>4, <2>1 DEF OneDiskAbove
<1> QED BY <1>4 DEF AllThere

\* With everything there the path leads home.
LEMMA ThereIsHome ==
    ASSUME DiskInv, NEW j \in Jobs, Local(j.target), AllThere(j.target.path)
    PROVE  DeviceOf(mtab, j.target.path) = DeviceOf(Lines, j.target.path)
<1> DEFINE p == j.target.path
<1>1. p \in APath BY JobsAssumption, StringsAreNames
<1>2. LinesAbove(mtab, p) = LinesAbove(Lines, p) BY DEF LinesAbove, AllThere, DiskInv
<1>3. \A l \in mtab \cup Lines : l.at \in APath BY Tables DEF MountTable
<1> QED BY <1>1, <1>2, <1>3, DeviceSame

\* The run stays where it is, and so does the mount table.
LEMMA HomeAside ==
    ASSUME HomeInv, job' \in Jobs, mtab \subseteq mtab',
           LET r == proc["run"]  n == proc'["run"]
           IN  /\ n.pc = r.pc /\ n.job = r.job /\ n.place = r.place
               /\ r.raced => n.raced
    PROVE  HomeInv'
BY DEF HomeInv, RunHome, AllThere

LEMMA HomeEnds ==
    ASSUME Shape, HomeInv, job' = job, NEW code, Ends("run", code) PROVE HomeInv'
<1>1. proc'["run"].pc = "idle" BY EndsShape DEF IdleProc, Procs
<1> QED BY <1>1 DEF HomeInv, RunHome

LEMMA HomeGoes ==
    ASSUME Shape, HomeInv, job' = job, mtab' = mtab, ~At("run", "idle"), NEW pc,
           \/ Goes("run", pc)
           \/ \E f : proc' = [proc EXCEPT !["run"].pc = pc, !["run"].probe = f],
           LET r == proc["run"]
           IN  /\ (pc \in {"key", "keygen", "keypub", "scan"} => ~Local(r.job.target))
               /\ (pc \in Ready /\ Local(r.job.target) =>
                       r.raced \/ AllThere(r.job.target.path))
               /\ pc # "tool"
    PROVE  HomeInv'
<1>1. /\ proc'["run"].pc = pc /\ proc'["run"].job = proc["run"].job
      /\ proc'["run"].raced = proc["run"].raced
  <2>1. CASE Goes("run", pc) BY <2>1, GoesShape DEF Procs
  <2>2. ASSUME NEW f, proc' = [proc EXCEPT !["run"].pc = pc, !["run"].probe = f]
        PROVE  /\ proc'["run"].pc = pc /\ proc'["run"].job = proc["run"].job
               /\ proc'["run"].raced = proc["run"].raced
    BY <2>2 DEF Shape, IsProc, Fields, Procs
  <2> QED BY <2>1, <2>2
<1> QED BY <1>1 DEF HomeInv, RunHome, AllThere, At

\* The run's own steps.
LEMMA HomeRun ==
    ASSUME OneDiskAbove, DiskInv, Shape, HomeInv,
           Start("run") \/ OwnStep("run") \/ ToolStep("run") \/ Unprepared("run")
    PROVE  HomeInv'
<1> DEFINE r == proc["run"]
           t == r.job.target
<1>1. CASE Start("run")
  <2>1. /\ proc'["run"].pc = FirstStep(job.target) /\ proc'["run"].job = job
        /\ job' = job /\ mtab' = mtab
    BY <1>1 DEF Start, Shape, IsProc, Fields, Procs, EnvUnchanged
  <2>2. /\ FirstStep(job.target) \in {"check", "launch", "key", "scan"}
        /\ FirstStep(job.target) \in {"launch", "key", "scan"} => ~Local(job.target)
    BY DEF FirstStep, Local
  <2> QED BY <2>1, <2>2 DEF HomeInv, RunHome, Ready
<1>2. CASE Refuse("run") \/ NotLaunched("run") \/ Die("run") \/ Unprepared("run")
           \/ RsyncEnds("run") \/ RcloneFails("run")
  BY <1>2, HomeEnds
  DEF Refuse, NotLaunched, Die, Unprepared, RsyncEnds, RcloneFails, EnvUnchanged
<1>3. CASE Accept("run")
  <2>1. /\ r.pc = "check" /\ Check(mtab, dirs, t.path) /\ Goes("run", "mkdir")
        /\ job' = job /\ mtab' = mtab
    BY <1>3 DEF Accept, At, Accepted, Path, AfterCheck, dry, EnvUnchanged
  <2>2. r.job \in Jobs BY <2>1 DEF HomeInv, RunHome
  <2>3. Local(t) => AllThere(t.path) BY <2>1, <2>2, AcceptedIsThere
  <2>4. "mkdir" # "tool" /\ "mkdir" \notin {"key", "keygen", "keypub", "scan"} OBVIOUS
  <2> QED BY <2>1, <2>3, <2>4, HomeGoes DEF At
<1>11. ASSUME r.pc \in Ready, job' = job, mtab' = mtab, NEW pc \in Ready,
              \/ Goes("run", pc)
              \/ \E f : proc' = [proc EXCEPT !["run"].pc = pc, !["run"].probe = f]
       PROVE  HomeInv'
  <2>1. Local(t) => r.raced \/ AllThere(t.path) BY <1>11 DEF HomeInv, RunHome, Ready
  <2> QED BY <1>11, <2>1, HomeGoes DEF At, Ready
<1>12. CASE MakeProbe("run") \/ RemoveProbe("run")
  <2>1. r.pc \in Ready /\ job' = job /\ mtab' = mtab
    BY <1>12 DEF MakeProbe, RemoveProbe, At, Ready, EnvUnchanged
  <2>2. PICK pc \in {"probed", "launch"} :
           \/ Goes("run", pc)
           \/ \E f : proc' = [proc EXCEPT !["run"].pc = pc, !["run"].probe = f]
    BY <1>12 DEF MakeProbe, RemoveProbe
  <2>3. pc \in Ready BY DEF Ready
  <2> QED BY <1>11, <2>1, <2>2, <2>3
<1>4. CASE MakeDirs("run")
  <2>1. r.pc = "mkdir" /\ job' = job /\ mtab' = mtab BY <1>4 DEF MakeDirs, At
  <2>2. CASE Goes("run", "probe") BY <1>11, <2>1, <2>2 DEF Ready
  <2> QED BY <1>4, <2>1, <2>2, HomeEnds DEF MakeDirs
<1>5. CASE FindKey("run") \/ GenerateKey("run") \/ PublishKey("run") \/ Scan("run")
  <2>1. /\ r.pc \in {"key", "keygen", "keypub", "scan"} /\ job' = job /\ mtab' = mtab
        /\ \/ \E pc \in {"keygen", "keypub", "scan", "launch"} : Goes("run", pc)
           \/ \E code : Ends("run", code)
    BY <1>5 DEF FindKey, GenerateKey, PublishKey, Scan, AfterKey, At, EnvUnchanged
  <2>2. ~Local(t) BY <2>1 DEF HomeInv, RunHome
  <2>3. ASSUME NEW pc \in {"keygen", "keypub", "scan", "launch"}, Goes("run", pc) PROVE HomeInv'
    BY <2>1, <2>2, <2>3, HomeGoes DEF At
  <2> QED BY <2>1, <2>3, HomeEnds
<1>6. CASE Launch("run")
  <2>1. PICK work : proc' = [proc EXCEPT !["run"] = Reading("run", work)] BY <1>6 DEF Launch
  <2>2. proc'["run"] = Reading("run", work) BY <2>1 DEF Shape, Procs
  <2>3. /\ proc'["run"].pc = "tool" /\ proc'["run"].job = r.job /\ proc'["run"].raced = r.raced
        /\ proc'["run"].place = PlaceNow("run") /\ r.pc = "launch"
        /\ job' = job /\ mtab' = mtab
    BY <1>6, <2>2 DEF Launch, At, Reading, Shape, IsProc, Fields, Procs
  <2>4. r.job \in Jobs /\ (Local(t) => r.raced \/ AllThere(t.path))
    BY <2>3 DEF HomeInv, RunHome, Ready
  <2>5. ~r.raced => PlaceNow("run") = Home(t)
    BY <2>4, ThereIsHome DEF PlaceNow, Home, Target, Path
  <2> QED BY <2>3, <2>4, <2>5 DEF HomeInv, RunHome, Ready
<1>7. CASE CopyFile("run")
  <2>1. PICK left, moved, vanished :
           proc' = [proc EXCEPT !["run"].left = left, !["run"].moved = moved,
                                !["run"].vanished = vanished]
    BY <1>7 DEF CopyFile
  <2>2. /\ proc'["run"].pc = r.pc /\ proc'["run"].job = r.job /\ proc'["run"].place = r.place
        /\ proc'["run"].raced = r.raced
    BY <2>1 DEF Shape, IsProc, Fields, Procs
  <2> QED BY <1>7, <2>2, HomeAside DEF CopyFile, EnvUnchanged, HomeInv
<1>8. CASE DeleteFile("run") BY <1>8, HomeAside DEF DeleteFile, EnvUnchanged, HomeInv
<1>9. CASE Retry("run")
  <2>1. PICK list, left : proc' = [proc EXCEPT !["run"].list = list, !["run"].left = left,
                                               !["run"].vanished = FALSE]
    BY <1>9 DEF Retry
  <2>2. /\ proc'["run"].pc = r.pc /\ proc'["run"].job = r.job /\ proc'["run"].place = r.place
        /\ proc'["run"].raced = r.raced
    BY <2>1 DEF Shape, IsProc, Fields, Procs
  <2> QED BY <1>9, <2>2, HomeAside DEF Retry, EnvUnchanged, HomeInv
<1>10. CASE RcloneEnds("run")
  <2>1. /\ ~Local(t) /\ r.pc = "tool" /\ job' = job /\ mtab' = mtab
    BY <1>10 DEF RcloneEnds, Rsync, Local, Target, Done, Working, At, EnvUnchanged
  <2>2. ASSUME NEW errors, proc' = [proc EXCEPT !["run"].pc = "launch", !["run"].errors = errors]
        PROVE  HomeInv'
    <3>1. proc'["run"].pc = "launch" /\ proc'["run"].job = r.job
      BY <2>2 DEF Shape, IsProc, Fields, Procs
    <3> QED BY <2>1, <3>1 DEF HomeInv, RunHome
  <2> QED BY <1>10, <2>1, <2>2, HomeEnds DEF RcloneEnds
<1> QED BY <1>1, <1>2, <1>3, <1>4, <1>5, <1>6, <1>7, <1>8, <1>9, <1>10, <1>12
        DEF OwnStep, ToolStep

LEMMA HomeUnmount ==
    ASSUME Shape, HomeInv, NEW d \in Removable, Unmount(d) PROVE HomeInv'
<1> DEFINE r == proc["run"]
           t == r.job.target
<1>1. job' = job /\ mtab' = mtab \ d BY DEF Unmount
<1>2. CASE r.pc = "idle" \/ ~Local(t)
  <2>1. proc'["run"] = r BY <1>2 DEF Unmount, At, Target, Procs
  <2> QED BY <1>1, <1>2, <2>1 DEF HomeInv, RunHome
<1>3. CASE r.pc # "idle" /\ Local(t)
  <2>1. PICK gone : /\ proc'["run"] = Without("run", gone)
                    /\ r.pc # "tool" => (gone <=> \E l \in d : l.at \in Above(t.path))
    BY <1>3 DEF Unmount, At, Target, Path, Procs
  <2>2. /\ proc'["run"].pc = r.pc /\ proc'["run"].job = r.job /\ proc'["run"].place = r.place
        /\ (proc'["run"].raced <=> r.raced \/ (r.pc \in Ready /\ gone))
    <3>1. IsProc(r) BY DEF Shape, Procs
    <3> QED BY <2>1, <3>1 DEF Without, IsProc, Fields, Ready
  <2>3. r.pc \in Ready /\ ~gone /\ AllThere(t.path) => AllThere(t.path)'
    <3>1. SUFFICES ASSUME r.pc \in Ready, ~gone, AllThere(t.path), NEW l \in Lines,
                          l.at \in Above(t.path)
                   PROVE  l \in mtab'
      BY <1>1, <2>2 DEF AllThere
    <3>2. l \notin d BY <2>1, <3>1 DEF Ready
    <3> QED BY <1>1, <3>1, <3>2 DEF AllThere
  <2> QED BY <1>1, <2>2, <2>3 DEF HomeInv, RunHome
<1> QED BY <1>2, <1>3

LEMMA HomeNext == OneDiskAbove /\ Shape /\ DiskInv /\ HomeInv /\ [Next]_vars => HomeInv'
<1> SUFFICES ASSUME OneDiskAbove, Shape, DiskInv, HomeInv, [Next]_vars PROVE HomeInv' OBVIOUS
<1>1. CASE Start("preview") \/ OwnStep("preview") \/ ToolStep("preview") \/ Unprepared("preview")
  <2>1. proc'["run"] = proc["run"] BY <1>1, PreviewAlone
  <2>2. job' = job /\ mtab' = mtab
    BY <1>1 DEF Start, OwnStep, ToolStep, Unprepared, Refuse, Accept, MakeDirs, MakeProbe,
                RemoveProbe, FindKey, GenerateKey, PublishKey, Scan, Launch, NotLaunched, Die, CopyFile, DeleteFile,
                RsyncEnds, Retry, RcloneFails, RcloneEnds, EnvUnchanged
  <2> QED BY <2>1, <2>2, HomeAside DEF HomeInv
<1>2. CASE Start("run") \/ OwnStep("run") \/ ToolStep("run") \/ Unprepared("run")
  BY <1>2, HomeRun
<1>3. ASSUME NEW p \in Procs, Cancel(p) PROVE HomeInv'
  <2>1. /\ proc'["run"].pc = proc["run"].pc /\ proc'["run"].job = proc["run"].job
        /\ proc'["run"].place = proc["run"].place /\ proc'["run"].raced = proc["run"].raced
    BY <1>3 DEF Cancel, Shape, IsProc, Fields, Procs
  <2> QED BY <1>3, <2>1, HomeAside DEF Cancel, EnvUnchanged, HomeInv
<1>4. ASSUME NEW d \in Removable, Unmount(d) PROVE HomeInv' BY <1>4, HomeUnmount
<1>5. CASE NetFails
  <2>1. \A gone : LET w == Without("run", gone)  r == proc["run"]
                  IN  w.pc = r.pc /\ w.job = r.job /\ w.place = r.place /\ (r.raced => w.raced)
    BY DEF Without, Shape, IsProc, Fields, Procs
  <2>2. proc'["run"] = proc["run"] \/ \E gone : proc'["run"] = Without("run", gone)
    BY <1>5 DEF NetFails, Procs
  <2> QED BY <1>5, <2>1, <2>2, HomeAside DEF NetFails, HomeInv
<1>6. CASE \/ \E j \in Jobs : Save(j)
           \/ \E s \in Folders : Change(s)
           \/ \E d \in Removable : Mount(d)
           \/ NetReturns \/ UNCHANGED vars
  BY <1>6, HomeAside DEF Save, Change, Mount, NetReturns, vars, HomeInv
<1>7. CASE Kill
  <2>1. proc'["run"].pc = "idle" /\ job' = job BY <1>7 DEF Kill, EnvUnchanged, IdleProc, Procs
  <2> QED BY <2>1 DEF HomeInv, RunHome
<1> QED BY <1>1, <1>2, <1>3, <1>4, <1>5, <1>6, <1>7 DEF Next, Procs

\* A run writes where its job says, or its disk went between the check and
\* the tool, if nothing comes and goes inside /DATA or inside another disk
\* (localfs.go:1-2).
THEOREM RunsWriteHome == OneDiskAbove => (Spec => []WritesHome)
<1> SUFFICES ASSUME OneDiskAbove PROVE Spec => []WritesHome OBVIOUS
<1>1. Init => HomeInv BY DEF Init, HomeInv, RunHome, IdleProc, Procs
<1>2. Shape /\ DiskInv /\ HomeInv /\ [Next]_vars => HomeInv' BY HomeNext
<1>3. HomeInv => WritesHome
  BY DEF HomeInv, RunHome, WritesHome, At, dry, Target, Procs
<1> QED BY <1>1, <1>2, <1>3, ShapeAlways, DiskAlways, PTL DEF Spec

-----------------------------------------------------------------------------
(* Types *)

Bases == {Base(s) : s \in Folders}

\* A list is one of files, and a tool works with folders and places there are.
ProcType(r) ==
    /\ r.left \subseteq FilesIn(r.list)
    /\ (r.pc \in {"check", "mkdir", "probe"} => Local(r.job.target))
    /\ (r.pc # "idle" => r.job \in Jobs /\ r.rest \subseteq r.job.sources)
    /\ (r.pc = "tool" => r.place \in Places /\ DOMAIN r.list \subseteq Folders)

Worth == {"so", "excused", "wrong"}

ProbePlaces == ProbeNames \X ({l.dev : l \in Lines} \X UNION {Above(t) : t \in Paths})

TypeInv ==
    /\ job \in Jobs
    /\ src \in [Folders -> (SUBSET Files) \cup {None}]
    /\ tree \subseteq Places \X Bases \X Files
    /\ key.priv \in 0..1 /\ told \subseteq {1}
    /\ last \in Codes \cup {None}
    /\ misled \in Worth
    /\ probes \subseteq ProbePlaces
    /\ \A p \in Procs : ProcType(proc[p])

\* The module makes one key at most.
LEMMA TypeKey == KeyInv /\ TypeInv /\ [Next]_vars => key'.priv \in 0..1 /\ told' \subseteq {1}
<1> SUFFICES ASSUME KeyInv, TypeInv, [Next]_vars PROVE key'.priv \in 0..1 /\ told' \subseteq {1}
  OBVIOUS
<1>1. ASSUME key' = key, told' = told PROVE key'.priv \in 0..1 /\ told' \subseteq {1}
  BY <1>1 DEF TypeInv
<1>2. ASSUME NEW p \in Procs, FindKey(p) PROVE key'.priv \in 0..1 /\ told' \subseteq {1}
  <2>1. key' = key BY <1>2 DEF FindKey
  <2>2. CASE told' # told
    <3>1. key.pub # 0 /\ told' = told \cup {key.pub} BY <1>2, <2>2 DEF FindKey
    <3>2. key.pub = 1 BY <3>1 DEF KeyInv, TypeInv
    <3> QED BY <2>1, <3>1, <3>2 DEF TypeInv
  <2> QED BY <1>1, <2>1, <2>2
<1>3. ASSUME NEW p \in Procs, GenerateKey(p) PROVE key'.priv \in 0..1 /\ told' \subseteq {1}
  <2>1. CASE MayWrite
    <3>1. key.priv = 0 /\ told = {} BY <2>1 DEF MayWrite, KeyInv
    <3>2. {key.priv} \cup told = {0} BY <3>1
    <3>3. Max({0}) = 0 BY DEF Max
    <3>4. NewKey = 1 BY <3>2, <3>3 DEF NewKey
    <3>5. key' = [priv |-> NewKey, pub |-> key.pub] /\ told' = told
      BY <1>3, <2>1 DEF GenerateKey
    <3> QED BY <3>1, <3>4, <3>5
  <2>2. CASE ~MayWrite BY <1>1, <1>3, <2>2 DEF GenerateKey
  <2> QED BY <2>1, <2>2
<1>4. ASSUME NEW p \in Procs, PublishKey(p) PROVE key'.priv \in 0..1 /\ told' \subseteq {1}
  <2>1. key.priv # 0 BY <1>4 DEF PublishKey, KeyInv
  <2>2. key.priv = 1 BY <2>1 DEF TypeInv
  <2>3. key' = [priv |-> key.priv, pub |-> key.priv] /\ told' = told \cup {key.priv}
    BY <1>4 DEF PublishKey, KeyInv
  <2> QED BY <2>2, <2>3 DEF TypeInv
<1>5. ASSUME NEW p \in Procs, OwnStep(p), ~FindKey(p), ~GenerateKey(p), ~PublishKey(p)
      PROVE  key' = key /\ told' = told
  BY <1>5 DEF OwnStep, Refuse, Accept, MakeDirs, MakeProbe, RemoveProbe, Scan, Launch, NotLaunched,
              Die, KeyUnchanged
<1>6. ASSUME NEW p \in Procs, Start(p) \/ ToolStep(p) \/ Unprepared(p) \/ Cancel(p)
      PROVE  key' = key /\ told' = told
  BY <1>6 DEF Start, ToolStep, Unprepared, Cancel, CopyFile, DeleteFile, RsyncEnds, Retry,
              RcloneFails, RcloneEnds, KeyUnchanged
<1>7. CASE \/ \E j \in Jobs : Save(j)
           \/ \E s \in Folders : Change(s)
           \/ \E d \in Removable : Unmount(d) \/ Mount(d)
           \/ NetFails \/ NetReturns \/ Kill \/ UNCHANGED vars
  BY <1>1, <1>7 DEF Save, Change, Unmount, Mount, NetFails, NetReturns, Kill, KeyUnchanged, vars
<1> QED BY <1>1, <1>2, <1>3, <1>4, <1>5, <1>6, <1>7 DEF Next

\* A run ends with one of the codes.
LEMMA TypeLast == TypeInv /\ [Next]_vars => last' \in Codes \cup {None}
<1> SUFFICES ASSUME TypeInv, [Next]_vars PROVE last' \in Codes \cup {None} OBVIOUS
<1>1. ASSUME last' = last PROVE last' \in Codes \cup {None} BY <1>1 DEF TypeInv
<1>2. ASSUME NEW p \in Procs, NEW code \in Codes, Ends(p, code) PROVE last' \in Codes \cup {None}
  BY <1>2 DEF Ends, TypeInv
<1>3. ASSUME NEW p \in Procs, NEW pc, Goes(p, pc) PROVE last' \in Codes \cup {None}
  BY <1>1, <1>3 DEF Goes
<1>4. ASSUME NEW p \in Procs, NEW code \in Codes PROVE Judged(p, code) \in Codes
  BY DEF Judged, Codes
<1>5. ASSUME NEW p \in Procs, OwnStep(p) \/ Unprepared(p) PROVE last' \in Codes \cup {None}
  <2>1. \/ last' = last
        \/ \E pc : Goes(p, pc)
        \/ \E code \in {"failed", "cancelled", "target_unavailable"} : Ends(p, code)
    BY <1>5 DEF OwnStep, Unprepared, Refuse, Accept, MakeDirs, MakeProbe, RemoveProbe, FindKey,
                GenerateKey, PublishKey, Scan, Launch, NotLaunched, Die
  <2> QED BY <1>1, <1>2, <1>3, <2>1 DEF Codes
<1>6. ASSUME NEW p \in Procs, ToolStep(p) PROVE last' \in Codes \cup {None}
  <2>1. CASE CopyFile(p) \/ DeleteFile(p) \/ Retry(p)
    BY <1>1, <2>1 DEF CopyFile, DeleteFile, Retry
  <2>2. CASE RsyncEnds(p)
    <3>1. \A x, seen, saw : RsyncCode(x, seen, saw) \in Codes BY DEF RsyncCode, Codes
    <3> QED BY <1>2, <1>4, <2>2, <3>1 DEF RsyncEnds
  <2>3. CASE RcloneFails(p)
    <3>1. \A moved, errors, msg : RcloneCode(moved, errors, msg) \in Codes BY DEF RcloneCode, Codes
    <3> QED BY <1>2, <1>4, <2>3, <3>1 DEF RcloneFails
  <2>4. CASE RcloneEnds(p)
    <3>1. \/ last' = last
          \/ \E code \in {"cancelled", "partial", "completed"} : Ends(p, code)
      BY <2>4 DEF RcloneEnds
    <3> QED BY <1>1, <1>2, <3>1 DEF Codes
  <2> QED BY <1>6, <2>1, <2>2, <2>3, <2>4 DEF ToolStep
<1>7. ASSUME NEW p \in Procs, Start(p) \/ Cancel(p) PROVE last' \in Codes \cup {None}
  BY <1>7 DEF Start, Cancel, TypeInv
<1>8. CASE \/ \E j \in Jobs : Save(j)
           \/ \E s \in Folders : Change(s)
           \/ \E d \in Removable : Unmount(d) \/ Mount(d)
           \/ NetFails \/ NetReturns \/ UNCHANGED vars
  BY <1>1, <1>8 DEF Save, Change, Unmount, Mount, NetFails, NetReturns, vars
<1>9. CASE Kill BY <1>9 DEF Kill, TypeInv
<1> QED BY <1>5, <1>6, <1>7, <1>8, <1>9 DEF Next

\* Tools put files of the source folders where jobs have targets.
LEMMA TypeTree == TypeInv /\ [Next]_vars => tree' \subseteq Places \X Bases \X Files
<1> SUFFICES ASSUME TypeInv, [Next]_vars PROVE tree' \subseteq Places \X Bases \X Files OBVIOUS
<1>1. ASSUME tree' \subseteq tree PROVE tree' \subseteq Places \X Bases \X Files
  BY <1>1 DEF TypeInv
<1>2. ASSUME NEW p \in Procs, CopyFile(p) PROVE tree' \subseteq Places \X Bases \X Files
  <2>1. PICK e \in proc[p].left : tree' \subseteq tree \cup {<<proc[p].place, Base(e[1]), e[2]>>}
    BY <1>2 DEF CopyFile
  <2>2. proc[p].pc = "tool" /\ ProcType(proc[p]) BY <1>2 DEF CopyFile, Working, At, TypeInv
  <2>3. proc[p].place \in Places /\ e[1] \in Folders /\ e[2] \in Files
    BY <2>2 DEF ProcType, FilesIn
  <2> QED BY <2>1, <2>3 DEF TypeInv, Bases
<1>3. ASSUME NEW p \in Procs, ~CopyFile(p),
             Start(p) \/ OwnStep(p) \/ ToolStep(p) \/ Unprepared(p) \/ Cancel(p)
      PROVE  tree' \subseteq tree
  BY <1>3 DEF Start, OwnStep, ToolStep, Unprepared, Cancel, Refuse, Accept, MakeDirs, MakeProbe,
              RemoveProbe, FindKey, GenerateKey, PublishKey, Scan, Launch, NotLaunched, Die, DeleteFile, RsyncEnds,
              Retry, RcloneFails, RcloneEnds
<1>4. CASE \/ \E j \in Jobs : Save(j)
           \/ \E s \in Folders : Change(s)
           \/ \E d \in Removable : Unmount(d) \/ Mount(d)
           \/ NetFails \/ NetReturns \/ Kill \/ UNCHANGED vars
  BY <1>1, <1>4 DEF Save, Change, Unmount, Mount, NetFails, NetReturns, Kill, vars
<1> QED BY <1>1, <1>2, <1>3, <1>4 DEF Next

\* The path of a job leads to one of the places.
LEMMA PlacesNow ==
    ASSUME DiskInv, NEW p \in Procs, proc[p].job \in Jobs PROVE PlaceNow(p) \in Places
<1> DEFINE j == proc[p].job
<1>1. CASE ~Local(j.target) BY <1>1 DEF PlaceNow, Target, Places
<1>2. CASE Local(j.target)
  <2>1. j.target.path \in APath BY <1>2, JobsAssumption, StringsAreNames
  <2>2. DeviceOf(mtab, j.target.path) \in {l.dev : l \in Lines}
    BY <2>1, Tables, DeviceIs DEF DiskInv
  <2>3. j.target.path \in Paths BY <1>2 DEF Paths
  <2> QED BY <1>2, <2>2, <2>3 DEF PlaceNow, Target, Path, Places
<1> QED BY <1>1, <1>2

LEMMA TypeProc == Shape /\ DiskInv /\ TypeInv /\ [Next]_vars => \A p \in Procs : ProcType(proc'[p])
<1> SUFFICES ASSUME Shape, DiskInv, TypeInv, [Next]_vars, NEW q \in Procs PROVE ProcType(proc'[q])
  OBVIOUS
<1>0. ProcType(proc[q]) BY DEF TypeInv
<1>1. ASSUME NEW p \in Procs, NEW pc,
             \/ Goes(p, pc)
             \/ \E f : proc' = [proc EXCEPT ![p].pc = pc, ![p].probe = f],
             pc \notin {"tool", "check"}, ~At(p, "idle"),
             pc \in {"mkdir", "probe"} => At(p, "check") \/ At(p, "mkdir")
      PROVE  ProcType(proc'[q])
  <2>1. CASE q = p
    <3>1. /\ proc'[q].pc = pc /\ proc'[q].job = proc[q].job /\ proc'[q].rest = proc[q].rest
          /\ proc'[q].list = proc[q].list /\ proc'[q].left = proc[q].left
      <4>1. CASE Goes(p, pc) BY <2>1, <4>1, GoesShape
      <4>2. ASSUME NEW f, proc' = [proc EXCEPT ![p].pc = pc, ![p].probe = f]
            PROVE  /\ proc'[p].pc = pc /\ proc'[p].job = proc[p].job
                   /\ proc'[p].rest = proc[p].rest
                   /\ proc'[p].list = proc[p].list /\ proc'[p].left = proc[p].left
        BY <4>2 DEF Shape, IsProc, Fields
      <4> QED BY <1>1, <2>1, <4>1, <4>2
    <3> QED BY <1>0, <1>1, <2>1, <3>1 DEF ProcType, At
  <2>2. CASE q # p
    <3>1. proc'[q] = proc[q]
      <4>1. CASE Goes(p, pc) BY <2>2, <4>1, GoesShape
      <4>2. CASE ~Goes(p, pc) BY <1>1, <2>2, <4>2 DEF Shape
      <4> QED BY <4>1, <4>2
    <3> QED BY <1>0, <3>1
  <2> QED BY <2>1, <2>2
<1>2. ASSUME NEW p \in Procs, NEW code, Ends(p, code) PROVE ProcType(proc'[q])
  <2>1. ProcType(IdleProc) BY DEF ProcType, IdleProc
  <2>2. proc'[q] = IdleProc \/ proc'[q] = proc[q] BY <1>2, EndsShape
  <2> QED BY <1>0, <2>1, <2>2
\* What touches neither the list nor the job.
<1>3. ASSUME LET r == proc[q]  n == proc'[q]
             IN  /\ n.pc = r.pc /\ n.job = r.job /\ n.rest = r.rest /\ n.list = r.list
                 /\ n.left \subseteq r.left /\ n.place = r.place
      PROVE  ProcType(proc'[q])
  BY <1>0, <1>3 DEF ProcType
<1>4. ASSUME NEW p \in Procs, Start(p) PROVE ProcType(proc'[q])
  <2>1. CASE q = p
    <3>1. /\ FirstStep(job.target) \in {"check", "launch", "key", "scan"}
          /\ FirstStep(job.target) = "check" => Local(job.target)
      BY DEF FirstStep
    <3>2. /\ proc'[q].pc = FirstStep(job.target) /\ proc'[q].job = job
          /\ proc'[q].rest = job.sources /\ proc'[q].list = proc[q].list
          /\ proc'[q].left = proc[q].left
      BY <1>4, <2>1 DEF Start, Shape, IsProc, Fields
    <3> QED BY <1>0, <3>1, <3>2 DEF ProcType, TypeInv
  <2>2. CASE q # p BY <1>0, <1>4, <2>2 DEF Start, Shape
  <2> QED BY <2>1, <2>2
<1>5. ASSUME NEW p \in Procs, OwnStep(p) \/ Unprepared(p) PROVE ProcType(proc'[q])
  <2>1. CASE Launch(p)
    <3>1. PICK work \in (IF Rsync(Target(p)) THEN {proc[p].rest} ELSE {{s} : s \in proc[p].rest}) :
             proc' = [proc EXCEPT ![p] = Reading(p, work)]
      BY <2>1 DEF Launch
    <3>2. CASE q = p
      <4> DEFINE list == [s \in work |-> src[s]]
      <4>1. proc'[q] = Reading(p, work) BY <3>1, <3>2 DEF Shape
      <4>2. /\ proc'[q].pc = "tool" /\ proc'[q].job = proc[q].job
            /\ proc'[q].rest = proc[q].rest \ work /\ proc'[q].list = list
            /\ proc'[q].left \in {{}, FilesIn(list)} /\ proc'[q].place = PlaceNow(p)
        BY <3>2, <4>1 DEF Reading, Shape, IsProc, Fields
      <4>3. proc[q].pc = "launch" BY <2>1, <3>2 DEF Launch, At
      <4>4. work \subseteq proc[q].rest BY <3>1, <3>2
      <4>5. proc[q].job \in Jobs /\ proc[q].rest \subseteq proc[q].job.sources
        BY <1>0, <4>3 DEF ProcType
      <4>6. work \subseteq Folders BY <4>4, <4>5, JobsAssumption
      <4>7. PlaceNow(p) \in Places BY <3>2, <4>5, PlacesNow
      <4>8. DOMAIN list = work OBVIOUS
      <4> QED BY <4>2, <4>5, <4>6, <4>7, <4>8 DEF ProcType
    <3>3. CASE q # p BY <1>0, <3>1, <3>3 DEF Shape
    <3> QED BY <3>2, <3>3
  <2>2. CASE ~Launch(p)
    <3>1. CASE Accept(p)
      <4>1. At(p, "check") /\ \E pc \in {"mkdir", "probe"} : Goes(p, pc)
        BY <3>1 DEF Accept, AfterCheck
      <4> QED BY <1>1, <4>1 DEF At
    <3>2. CASE MakeDirs(p)
      <4>1. At(p, "mkdir") /\ (Goes(p, "probe") \/ \E code : Ends(p, code))
        BY <3>2 DEF MakeDirs
      <4>2. CASE Goes(p, "probe")
        <5>1. ~At(p, "idle") /\ "probe" \notin {"tool", "check"} BY <4>1 DEF At
        <5> QED BY <1>1, <4>1, <4>2, <5>1
      <4> QED BY <1>2, <4>1, <4>2
    <3>3. CASE MakeProbe(p)
      <4>1. \E pc \in {"probed", "launch"} :
               \/ Goes(p, pc)
               \/ \E f : proc' = [proc EXCEPT ![p].pc = pc, ![p].probe = f]
        BY <3>3 DEF MakeProbe
      <4> QED BY <1>1, <3>3, <4>1 DEF MakeProbe, At
    <3>4. CASE RemoveProbe(p)
      <4>1. /\ ~At(p, "idle") /\ "launch" \notin {"tool", "check", "mkdir", "probe"}
            /\ \E f : proc' = [proc EXCEPT ![p].pc = "launch", ![p].probe = f]
        BY <3>4 DEF RemoveProbe, At
      <4> QED BY <1>1, <4>1
    <3>5. CASE ~(Accept(p) \/ MakeDirs(p) \/ MakeProbe(p) \/ RemoveProbe(p))
      <4>1. \/ ~At(p, "idle") /\ \E pc \in {"keygen", "keypub", "scan", "launch"} : Goes(p, pc)
            \/ \E code : Ends(p, code)
        BY <1>5, <2>2, <3>5
        DEF OwnStep, Unprepared, Refuse, FindKey, AfterKey, GenerateKey, PublishKey, Scan,
            NotLaunched, Die, At
      <4> QED BY <1>1, <1>2, <4>1
    <3> QED BY <3>1, <3>2, <3>3, <3>4, <3>5
  <2> QED BY <2>1, <2>2
<1>6. ASSUME NEW p \in Procs, ToolStep(p) PROVE ProcType(proc'[q])
  <2>1. CASE CopyFile(p)
    <3>1. PICK e, moved, vanished :
             proc' = [proc EXCEPT ![p].left = @ \ {e}, ![p].moved = moved, ![p].vanished = vanished]
      BY <2>1 DEF CopyFile
    <3> QED BY <1>3, <3>1 DEF Shape, IsProc, Fields
  <2>2. CASE DeleteFile(p) BY <1>0, <2>2 DEF DeleteFile
  <2>3. CASE Retry(p)
    <3> DEFINE list == [s \in DOMAIN proc[p].list |-> src[s]]
    <3>1. proc' = [proc EXCEPT ![p].list = list, ![p].left = FilesIn(list), ![p].vanished = FALSE]
      BY <2>3 DEF Retry
    <3>2. DOMAIN list = DOMAIN proc[p].list OBVIOUS
    <3> HIDE DEF list
    <3>3. CASE q = p
      <4>1. /\ proc'[q].pc = proc[q].pc /\ proc'[q].job = proc[q].job
            /\ proc'[q].rest = proc[q].rest /\ proc'[q].list = list
            /\ proc'[q].left = FilesIn(list) /\ proc'[q].place = proc[q].place
        BY <3>1, <3>3 DEF Shape, IsProc, Fields
      <4> QED BY <1>0, <3>2, <3>3, <4>1 DEF ProcType
    <3>4. CASE q # p BY <1>0, <3>1, <3>4 DEF Shape
    <3> QED BY <3>3, <3>4
  <2>4. CASE RsyncEnds(p) \/ RcloneFails(p) BY <1>2, <2>4 DEF RsyncEnds, RcloneFails
  <2>5. CASE RcloneEnds(p)
    <3>1. proc[p].pc = "tool" BY <2>5 DEF RcloneEnds, Done, Working, At
    <3>2. ASSUME NEW errors, proc' = [proc EXCEPT ![p].pc = "launch", ![p].errors = errors]
          PROVE  ProcType(proc'[q])
      <4>1. CASE q = p
        <5>1. /\ proc'[q].pc = "launch" /\ proc'[q].job = proc[q].job
              /\ proc'[q].rest = proc[q].rest /\ proc'[q].list = proc[q].list
              /\ proc'[q].left = proc[q].left
          BY <3>2, <4>1 DEF Shape, IsProc, Fields
        <5> QED BY <1>0, <3>1, <4>1, <5>1 DEF ProcType
      <4>2. CASE q # p BY <1>0, <3>2, <4>2 DEF Shape
      <4> QED BY <4>1, <4>2
    <3> QED BY <1>2, <2>5, <3>2 DEF RcloneEnds
  <2> QED BY <1>6, <2>1, <2>2, <2>3, <2>4, <2>5 DEF ToolStep
<1>7. ASSUME NEW p \in Procs, Cancel(p) PROVE ProcType(proc'[q])
  BY <1>3, <1>7 DEF Cancel, Shape, IsProc, Fields
<1>8. CASE (\E d \in Removable : Unmount(d)) \/ NetFails
  <2>1. proc'[q] = proc[q] \/ \E gone : proc'[q] = Without(q, gone)
    BY <1>8 DEF Unmount, NetFails
  <2>2. \A gone : LET w == Without(q, gone)  r == proc[q]
                  IN  /\ w.pc = r.pc /\ w.job = r.job /\ w.rest = r.rest /\ w.list = r.list
                      /\ w.left = r.left /\ w.place = r.place
    BY DEF Without, Shape, IsProc, Fields
  <2> QED BY <1>0, <1>3, <2>1, <2>2
<1>9. CASE \/ \E j \in Jobs : Save(j)
           \/ \E s \in Folders : Change(s)
           \/ \E d \in Removable : Mount(d)
           \/ NetReturns \/ UNCHANGED vars
  BY <1>0, <1>9 DEF Save, Change, Mount, NetReturns, vars
<1>10. CASE Kill
  <2>1. proc'[q] = IdleProc BY <1>10 DEF Kill
  <2> QED BY <2>1 DEF ProcType, IdleProc
<1> QED BY <1>4, <1>5, <1>6, <1>7, <1>8, <1>9, <1>10 DEF Next

\* A reason is worth something or other.
LEMMA TypeMisled == TypeInv /\ [Next]_vars => misled' \in Worth
<1> SUFFICES ASSUME TypeInv, [Next]_vars PROVE misled' \in Worth OBVIOUS
<1>1. ASSUME misled' = misled PROVE misled' \in Worth BY <1>1 DEF TypeInv
<1>2. ASSUME NEW p \in Procs, Refuse(p) PROVE misled' \in Worth
  <2>1. Verdicts \cup VerdictsDead \subseteq Worth
    BY DEF Verdicts, VerdictsDead, Verdict, Worth
  <2> QED BY <1>1, <1>2, <2>1 DEF Refuse
<1>3. ASSUME NEW p \in Procs, Start(p) PROVE misled' \in Worth BY <1>3 DEF Start, Worth
<1>4. ASSUME NEW p \in Procs, OwnStep(p), ~Refuse(p) PROVE misled' = misled
  BY <1>4 DEF OwnStep, Accept, MakeDirs, MakeProbe, RemoveProbe, FindKey, GenerateKey,
              PublishKey, Scan, Launch, NotLaunched, Die
<1>5. ASSUME NEW p \in Procs, ToolStep(p) \/ Unprepared(p) \/ Cancel(p) PROVE misled' = misled
  BY <1>5 DEF ToolStep, Unprepared, Cancel, CopyFile, DeleteFile, RsyncEnds, Retry,
              RcloneFails, RcloneEnds
<1>6. CASE \/ \E j \in Jobs : Save(j)
           \/ \E s \in Folders : Change(s)
           \/ \E d \in Removable : Unmount(d) \/ Mount(d)
           \/ NetFails \/ NetReturns \/ Kill \/ UNCHANGED vars
  BY <1>1, <1>6 DEF Save, Change, Unmount, Mount, NetFails, NetReturns, Kill, vars
<1> QED BY <1>1, <1>2, <1>3, <1>4, <1>5, <1>6 DEF Next

\* Probe files lie in the targets of jobs or above them.
LEMMA TypeProbes == Shape /\ DiskInv /\ TypeInv /\ [Next]_vars => probes' \subseteq ProbePlaces
<1> SUFFICES ASSUME Shape, DiskInv, TypeInv, [Next]_vars PROVE probes' \subseteq ProbePlaces
  OBVIOUS
<1>1. ASSUME probes' \subseteq probes PROVE probes' \subseteq ProbePlaces BY <1>1 DEF TypeInv
<1>2. ASSUME NEW p \in Procs, MakeProbe(p) PROVE probes' \subseteq ProbePlaces
  <2> DEFINE t == proc[p].job.target.path
             e == Existing(mtab, dirs, t)
             place == <<DeviceOf(mtab, e), e>>
             free == {<<n, place>> : n \in ProbeNames} \ probes
  <2>1. /\ proc[p].job \in Jobs /\ Local(proc[p].job.target)
    BY <1>2 DEF MakeProbe, At, TypeInv, ProcType
  <2>2. t \in Paths /\ t \in APath BY <2>1, JobsAssumption, StringsAreNames DEF Paths
  <2>3. MountTable(mtab) /\ \A l \in mtab : <<l.dev, l.at>> \in dirs BY Tables
  <2>4. e \in Above(t) /\ e \in APath
    <3>1. PICK l \in mtab : l.at = <<>> BY <2>3 DEF MountTable
    <3>2. Exists(mtab, dirs, <<>>) BY <2>3, <3>1, DeviceAt DEF Exists
    <3> QED BY <2>2, <3>2, ExistingIs, AboveIs
  <2>5. DeviceOf(mtab, e) \in {l.dev : l \in Lines} BY <2>3, <2>4, DeviceIs DEF DiskInv
  <2>6. free \subseteq ProbePlaces BY <2>2, <2>4, <2>5 DEF ProbePlaces
  <2>7. CASE probes' = probes BY <1>1, <2>7
  <2>8. CASE probes' # probes
    <3>1. free # {} /\ proc' = [proc EXCEPT ![p].pc = "probed", ![p].probe = {CHOOSE f \in free : TRUE}]
          /\ probes' = probes \cup proc'[p].probe
      BY <1>2, <2>8 DEF MakeProbe, ProbeFolder, Path
    <3> HIDE DEF free
    <3>2. (CHOOSE f \in free : TRUE) \in free BY <3>1
    <3>3. proc'[p].probe = {CHOOSE f \in free : TRUE} BY <3>1 DEF Shape, IsProc, Fields
    <3> QED BY <2>6, <3>1, <3>2, <3>3 DEF TypeInv
  <2> QED BY <2>7, <2>8
<1>3. ASSUME NEW p \in Procs, OwnStep(p), ~MakeProbe(p) PROVE probes' \subseteq probes
  BY <1>3 DEF OwnStep, Refuse, Accept, MakeDirs, RemoveProbe, FindKey, GenerateKey,
              PublishKey, Scan, Launch, NotLaunched, Die
<1>4. ASSUME NEW p \in Procs, Start(p) \/ ToolStep(p) \/ Unprepared(p) \/ Cancel(p)
      PROVE  probes' = probes
  BY <1>4 DEF Start, ToolStep, Unprepared, Cancel, CopyFile, DeleteFile, RsyncEnds, Retry,
              RcloneFails, RcloneEnds
<1>5. CASE \/ \E j \in Jobs : Save(j)
           \/ \E s \in Folders : Change(s)
           \/ \E d \in Removable : Unmount(d) \/ Mount(d)
           \/ NetFails \/ NetReturns \/ Kill \/ UNCHANGED vars
  BY <1>1, <1>5 DEF Save, Change, Unmount, Mount, NetFails, NetReturns, Kill, vars
<1> QED BY <1>1, <1>2, <1>3, <1>4, <1>5 DEF Next

LEMMA TypeNext == Shape /\ DiskInv /\ KeyInv /\ TypeInv /\ [Next]_vars => TypeInv'
<1> SUFFICES ASSUME Shape, DiskInv, KeyInv, TypeInv, [Next]_vars PROVE TypeInv' OBVIOUS
<1>1. job' \in Jobs /\ src' \in [Folders -> (SUBSET Files) \cup {None}]
  <2>1. job \in Jobs /\ src \in [Folders -> (SUBSET Files) \cup {None}] BY DEF TypeInv
  <2>2. ASSUME NEW p \in Procs, Start(p) \/ OwnStep(p) \/ ToolStep(p) \/ Unprepared(p) \/ Cancel(p)
        PROVE  job' = job /\ src' = src
    BY <2>2 DEF Start, OwnStep, ToolStep, Unprepared, Cancel, Refuse, Accept, MakeDirs, MakeProbe,
                RemoveProbe, FindKey, GenerateKey, PublishKey, Scan, Launch, NotLaunched, Die, CopyFile, DeleteFile,
                RsyncEnds, Retry, RcloneFails, RcloneEnds, EnvUnchanged
  <2>3. ASSUME NEW s \in Folders, Change(s)
        PROVE  job' = job /\ src' \in [Folders -> (SUBSET Files) \cup {None}]
    BY <2>1, <2>3 DEF Change
  <2>4. ASSUME NEW j \in Jobs, Save(j) PROVE job' = j /\ src' = src BY <2>4 DEF Save
  <2>5. CASE \/ \E d \in Removable : Unmount(d) \/ Mount(d)
             \/ NetFails \/ NetReturns \/ Kill \/ UNCHANGED vars
    BY <2>1, <2>5 DEF Unmount, Mount, NetFails, NetReturns, Kill, EnvUnchanged, vars
  <2> QED BY <2>1, <2>2, <2>3, <2>4, <2>5 DEF Next
<1>2. \A p \in Procs : ProcType(proc'[p]) BY TypeProc
<1>3. (\A p \in Procs : ProcType(proc[p]))' BY <1>2 DEF ProcType, FilesIn
<1>4. misled' \in Worth /\ probes' \subseteq ProbePlaces BY TypeMisled, TypeProbes
<1> QED BY <1>1, <1>3, <1>4, TypeKey, TypeLast, TypeTree DEF TypeInv, Worth, ProbePlaces

\* The variables hold what they are meant to, and the module makes one key
\* at most.
THEOREM MirrorTypes == Spec => []TypeOK
<1>1. Init => TypeInv
  <2> SUFFICES ASSUME Init PROVE TypeInv OBVIOUS
  <2>1. ProcType(IdleProc) BY DEF ProcType, IdleProc
  <2>2. \A p \in Procs : proc[p] = IdleProc BY DEF Init
  <2>3. src \in [Folders -> (SUBSET Files) \cup {None}] BY DEF Init
  <2> QED BY <2>1, <2>2, <2>3 DEF Init, TypeInv, Worth
<1>2. Shape /\ DiskInv /\ KeyInv /\ TypeInv /\ [Next]_vars => TypeInv' BY TypeNext
<1>3. DiskInv /\ KeyInv /\ KeptInv /\ TypeInv => TypeOK
  BY DEF DiskInv, KeyInv, KeptInv, HistoryInv, TypeInv, ProcType, Bases, Worth, ProbePlaces, TypeOK
<1> QED BY <1>1, <1>2, <1>3, ShapeAlways, DiskAlways, KeyAlways, KeptAlways, PTL DEF Spec

=============================================================================
