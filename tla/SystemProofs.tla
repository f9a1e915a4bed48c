---------------------------- MODULE SystemProofs ----------------------------
(***************************************************************************)
(* What a system backup and a restore may rely on, for any number of       *)
(* services, containers, databases, cancels and broken commands.           *)
(***************************************************************************)
EXTENDS System, TLAPS

USE SystemAssumption

-----------------------------------------------------------------------------
(* Control *)

Steps == Running \cup Restoring \cup {"idle"}

Work == SUBSET (Databases \cup Services \cup Containers)

Outcomes == {"completed", "failed", "cancelled", "version_mismatch", "system_restored", None}

\* What a step of an operation of j does to its control, and to nobody else's.
Control(j) ==
    /\ \E s \in Steps : pc' = [pc EXCEPT ![j] = s]
    /\ \E t \in Work : todo' = [todo EXCEPT ![j] = t]
    /\ \E o \in {op[j], None} : op' = [op EXCEPT ![j] = o]
    /\ \E c \in Outcomes : code' = [code EXCEPT ![j] = c]
    /\ \E b \in {dead[j], TRUE} : dead' = [dead EXCEPT ![j] = b]
    /\ faults' \in 0..MaxFaults

LEMMA Faulted ==
    ASSUME TypeOK, NEW j \in Jobs, Mishap \/ faults' = faults
    PROVE  faults' \in 0..MaxFaults
BY DEF TypeOK, JobTypes, Mishap

LEMMA Commanded ==
    ASSUME TypeOK, NEW j \in Jobs, Works(j) \/ Refused(j) \/ Breaks(j)
    PROVE  (\E b \in {dead[j], TRUE} : dead' = [dead EXCEPT ![j] = b]) /\ faults' \in 0..MaxFaults
<1>1. faults' \in 0..MaxFaults BY Faulted DEF Works, Refused, Breaks
<1>2. dead' = dead \/ dead' = [dead EXCEPT ![j] = TRUE] BY DEF Works, Refused, Breaks
<1>3. dead = [dead EXCEPT ![j] = dead[j]] BY DEF TypeOK, JobTypes
<1> QED BY <1>1, <1>2, <1>3

LEMMA Undisturbed ==
    ASSUME TypeOK, NEW j \in Jobs
    PROVE  /\ dead' = dead => \E b \in {dead[j], TRUE} : dead' = [dead EXCEPT ![j] = b]
           /\ todo' = todo => \E t \in Work : todo' = [todo EXCEPT ![j] = t]
           /\ op' = op => \E o \in {op[j], None} : op' = [op EXCEPT ![j] = o]
           /\ code' = code => \E c \in Outcomes : code' = [code EXCEPT ![j] = c]
           /\ \A x : Rest(j, x) \in Work
           /\ todo[j] \in Work /\ was[j] \in Work /\ Services \in Work /\ Databases \in Work
           /\ plan[j] \in Plans => plan[j].dbs \in Work
BY DEF TypeOK, JobTypes, Work, Outcomes, Operations, Rest, Plans

LEMMA Controls ==
    ASSUME TypeOK, NEW j \in Jobs, Step(j)
    PROVE  Control(j)
<1> USE DEF Control, Steps, Running, Restoring, Synced, Outcomes
<1>0. Agrees(j) BY DEF TypeOK
<1>1. ASSUME NEW s \in Steps, NEW t \in Work, ContinueWith(j, s, t),
             Works(j) \/ Refused(j) \/ Breaks(j) \/ (dead' = dead /\ (faults' = faults \/ Mishap))
      PROVE  Control(j)
  BY <1>1, Commanded, Undisturbed, Faulted DEF ContinueWith, Continue, Goto
<1>2. ASSUME NEW s \in Steps, Continue(j, s), todo' = todo,
             Works(j) \/ Refused(j) \/ Breaks(j) \/ (dead' = dead /\ (faults' = faults \/ Mishap))
      PROVE  Control(j)
  BY <1>2, Commanded, Undisturbed, Faulted DEF Continue, Goto
<1>3. ASSUME NEW c \in Outcomes, Return(j, c), todo' = todo,
             Works(j) \/ Refused(j) \/ Breaks(j) \/ (dead' = dead /\ (faults' = faults \/ Mishap))
      PROVE  Control(j)
  BY <1>3, Commanded, Undisturbed, Faulted DEF Return, Goto
<1>4. ASSUME Fails(j),
             Works(j) \/ Refused(j) \/ Breaks(j) \/ (dead' = dead /\ (faults' = faults \/ Mishap))
      PROVE  Control(j)
  BY <1>4, Commanded, Undisturbed, Faulted DEF Fails, Goto
<1>5. CASE CopyDatabase(j) BY <1>1, <1>5, Undisturbed DEF CopyDatabase
<1>6. CASE WriteManifest(j) BY <1>2, <1>3, <1>6 DEF WriteManifest
<1>7. CASE TakeSnapshot(j) BY <1>3, <1>7 DEF TakeSnapshot
<1>8. CASE Fetch(j) BY <1>2, <1>3, <1>8 DEF Fetch
<1>9. CASE MakePlan(j) BY <1>1, <1>3, <1>9, Undisturbed DEF MakePlan
<1>10. CASE StopService(j) BY <1>1, <1>10, Undisturbed DEF StopService
<1>11. CASE StopContainers(j) BY <1>2, <1>11 DEF StopContainers
<1>12. CASE WriteOverlay(j) BY <1>2, <1>4, <1>12 DEF WriteOverlay
<1>13. CASE MountLower(j) BY <1>2, <1>4, <1>13 DEF MountLower
<1>14. CASE RevertExtras(j) BY <1>2, <1>4, <1>14 DEF RevertExtras
<1>15. CASE Sync(j)
  <2>1. Following[pc[j]] \in Steps BY <1>15 DEF Sync, Following
  <2>2. plan[j] \in Plans
    <3>1. plan[j] = Planned(snap[j]) /\ snap[j] \in Snapshots
      BY <1>0, <1>15 DEF Sync, Agrees, TypeOK, StagingTypes, JobTypes, Operations
    <3> QED BY <3>1 DEF Planned, Plans, Snapshots, Manifests
  <2> QED BY <1>1, <1>4, <1>15, <2>1, <2>2, Undisturbed DEF Sync
<1>p. CASE PassOver(j)
  <2>1. Following[pc[j]] \in Steps BY <1>p DEF PassOver, Following
  <2>2. plan[j] \in Plans
    <3>1. plan[j] = Planned(snap[j]) /\ snap[j] \in Snapshots
      BY <1>0, <1>p DEF PassOver, Agrees, TypeOK, StagingTypes, JobTypes, Operations
    <3> QED BY <3>1 DEF Planned, Plans, Snapshots, Manifests
  <2> QED BY <1>1, <1>p, <2>1, <2>2, Undisturbed DEF PassOver
<1>16. CASE RestoreDatabase(j) BY <1>1, <1>4, <1>16, Undisturbed DEF RestoreDatabase
<1>17. CASE RestoreData(j) BY <1>1, <1>4, <1>17, Undisturbed DEF RestoreData
<1>18. CASE StartContainer(j) BY <1>1, <1>18, Undisturbed DEF StartContainer
<1>19. CASE ComposeUp(j) \/ AllStarted(j)
  BY <1>19, Undisturbed, Commanded, Faulted DEF ComposeUp, AllStarted, Goto
<1>20. CASE StartService(j) BY <1>1, <1>20, Undisturbed DEF StartService
<1>21. CASE EndRestore(j)
  <2>1. code[j] \in Outcomes BY DEF TypeOK, JobTypes
  <2> QED BY <1>3, <1>21, <2>1 DEF EndRestore
<1> QED
  BY <1>5, <1>6, <1>7, <1>8, <1>9, <1>10, <1>11, <1>12, <1>13, <1>14, <1>15, <1>p, <1>16, <1>17,
     <1>18, <1>19, <1>20, <1>21 DEF Step

-----------------------------------------------------------------------------
(* Types *)

LEMMA PlannedTypes == ASSUME NEW s \in Snapshots PROVE Planned(s) \in Plans
BY DEF Planned, Plans, Snapshots, Manifests

LEMMA LogTypes == ASSUME NEW f PROVE LiveLogs(f) \in [Databases -> {"live", "raw", "none"}]
BY DEF LiveLogs

LEMMA ContentTypes == {Live, Raw, Gone} \subseteq Contents /\ \A n \in 1..MaxRuns : Copied(n) \in Contents
BY DEF Contents

\* A copy that a restore is about to put in place is there.
LEMMA PlannedCopies ==
    ASSUME TypeOK, NEW j \in Jobs, pc[j] = "back", NEW d \in todo[j]
    PROVE  d \in Databases /\ snap[j].copy[d] \in 1..MaxRuns
<1>1. plan[j] = Planned(snap[j]) /\ d \in plan[j].dbs
  BY DEF TypeOK, Agrees, Restoring
<1>2. snap[j] \in Snapshots
  BY DEF TypeOK, Agrees, Restoring, Running, JobTypes, StagingTypes, Operations
<1>3. d \in snap[j].manifest.dbs /\ snap[j].copy[d] # 0 BY <1>1 DEF Planned
<1> QED BY <1>2, <1>3 DEF Snapshots, Manifests, Copies

LEMMA BoxTyped == ASSUME TypeOK, NEW j \in Jobs, Step(j) PROVE BoxTypes'
<1> USE DEF BoxTypes, TypeOK, box
<1>1. CASE \/ CopyDatabase(j) \/ WriteManifest(j) \/ TakeSnapshot(j) \/ Fetch(j) \/ MakePlan(j)
           \/ PassOver(j) \/ AllStarted(j) \/ EndRestore(j)
  BY <1>1 DEF CopyDatabase, WriteManifest, TakeSnapshot, Fetch, MakePlan, PassOver, AllStarted,
              EndRestore
<1>2. CASE StopService(j) BY <1>2 DEF StopService
<1>3. CASE StartService(j) BY <1>3 DEF StartService
<1>4. CASE StopContainers(j) BY <1>4 DEF StopContainers
<1>5. CASE StartContainer(j)
  <2>1. todo[j] \subseteq Containers BY <1>5 DEF StartContainer, JobTypes, Agrees
  <2> QED BY <1>5, <2>1 DEF StartContainer
<1>6. CASE ComposeUp(j) BY <1>6 DEF ComposeUp
<1>7. CASE WriteOverlay(j) BY <1>7 DEF WriteOverlay, Areas
<1>8. CASE MountLower(j) BY <1>8 DEF MountLower
<1>9. CASE RevertExtras(j)
  <2>1. lower' \in BOOLEAN BY <1>9 DEF RevertExtras, JobTypes
  <2>2. extras' \in BOOLEAN BY <1>9 DEF RevertExtras
  <2>3. area' \in [Areas -> {"live", "snapshot", "merged", "partial"}] BY <1>9 DEF RevertExtras
  <2> QED BY <1>9, <2>1, <2>2, <2>3 DEF RevertExtras
<1>10. CASE Sync(j) BY <1>10, ContentTypes DEF Sync
<1>11. CASE RestoreDatabase(j) BY <1>11, ContentTypes, PlannedCopies DEF RestoreDatabase, WithoutLog
<1>12. CASE RestoreData(j) BY <1>12, ContentTypes DEF RestoreData
<1> QED BY <1>1, <1>2, <1>3, <1>4, <1>5, <1>6, <1>7, <1>8, <1>9, <1>10, <1>11, <1>12 DEF Step

LEMMA StagingTyped == ASSUME TypeOK, NEW j \in Jobs, Step(j) PROVE StagingTypes'
<1> USE DEF StagingTypes, TypeOK, staging
<1>1. CASE CopyDatabase(j)
  <2>1. no[j] \in 0..MaxRuns BY DEF JobTypes
  <2>2. copy' \in Copies BY <1>1, <2>1 DEF CopyDatabase, Copies
  <2> QED BY <1>1, <2>2 DEF CopyDatabase
<1>2. CASE WriteManifest(j) BY <1>2 DEF WriteManifest, Manifest, Manifests, JobTypes
<1>3. CASE TakeSnapshot(j)
  <2>1. no[j] \in 1..MaxRuns /\ data[j] \in BOOLEAN BY <1>3 DEF TakeSnapshot, JobTypes, Agrees
  <2>2. CASE snap' = snap BY <1>3, <2>2 DEF TakeSnapshot
  <2>3. CASE snap' # snap
    <3>1. PICK h \in Held : snap' = [snap EXCEPT ![j] = [of |-> no[j], data |-> data[j], has |-> h,
                               manifest |-> manifest, copy |-> copy, version |-> version]]
      BY <1>3, <2>3 DEF TakeSnapshot
    <3>2. h \subseteq Restored BY DEF Held
    <3> QED BY <1>3, <2>1, <3>1, <3>2 DEF TakeSnapshot, Snapshots, BoxTypes
  <2> QED BY <2>2, <2>3
<1>4. CASE ~(CopyDatabase(j) \/ WriteManifest(j) \/ TakeSnapshot(j))
  BY <1>4 DEF Step, Fetch, MakePlan, StopService, StopContainers, WriteOverlay, MountLower,
              RevertExtras, Sync, PassOver, RestoreDatabase, RestoreData, StartContainer, ComposeUp,
              AllStarted, StartService, EndRestore
<1> QED BY <1>1, <1>2, <1>3, <1>4

\* What no step of an operation changes: the number and the settings of the
\* run, and after MakePlan the plan.
LEMMA SettingsKept ==
    ASSUME TypeOK, NEW j \in Jobs, Step(j)
    PROVE  /\ no' = no /\ data' = data
           /\ snap' = snap \/ TakeSnapshot(j)
           /\ plan' = plan \/ MakePlan(j)
           /\ listed' = listed \/ CopyDatabase(j)
           /\ was' = was \/ StopContainers(j)
BY DEF Step, CopyDatabase, WriteManifest, TakeSnapshot, Fetch, MakePlan, StopService,
       StopContainers, WriteOverlay, MountLower, RevertExtras, Sync, PassOver, RestoreDatabase, RestoreData,
       StartContainer, ComposeUp, AllStarted, StartService, EndRestore

LEMMA JobTyped == ASSUME TypeOK, NEW j \in Jobs, Step(j) PROVE JobTypes'
<1> USE DEF TypeOK, JobTypes
<1>1. Control(j) BY Controls
<1>2. /\ pc' \in [Jobs -> Steps] /\ todo' \in [Jobs -> Work]
      /\ code' \in [Jobs -> Outcomes] /\ faults' \in 0..MaxFaults
  BY <1>1 DEF Control, Steps, Work, Outcomes
<1>o. op' \in [Jobs -> Operations \cup {None}] BY <1>1 DEF Control
<1>d. dead' \in [Jobs -> BOOLEAN]
  <2>1. dead \in [Jobs -> BOOLEAN] /\ dead[j] \in BOOLEAN OBVIOUS
  <2>2. dead' = [dead EXCEPT ![j] = dead[j]] \/ dead' = [dead EXCEPT ![j] = TRUE]
    BY <1>1 DEF Control
  <2>3. \A b \in BOOLEAN : [dead EXCEPT ![j] = b] \in [Jobs -> BOOLEAN] BY <2>1
  <2>4. CASE dead' = [dead EXCEPT ![j] = dead[j]] BY <2>1, <2>3, <2>4, Zenon
  <2>5. CASE dead' = [dead EXCEPT ![j] = TRUE] BY <2>3, <2>5, Zenon
  <2> QED BY <2>2, <2>4, <2>5, Zenon
<1>3. listed' \in [Jobs -> SUBSET Databases]
  <2>1. CASE CopyDatabase(j)
    <3>1. todo[j] \subseteq Databases BY <2>1 DEF CopyDatabase, Agrees, Running
    <3> QED BY <2>1, <3>1 DEF CopyDatabase
  <2> QED BY <2>1, SettingsKept
<1>4. was' \in [Jobs -> SUBSET Containers]
  BY SettingsKept DEF StopContainers, BoxTypes
<1>5. plan' \in [Jobs -> Plans \cup {None}]
  <2>1. CASE MakePlan(j)
    <3>1. snap[j] \in Snapshots
      BY <2>1 DEF MakePlan, Agrees, Restoring, Running, Operations, StagingTypes
    <3> QED BY <2>1, <3>1, PlannedTypes DEF MakePlan, NewPlan
  <2> QED BY <2>1, SettingsKept
<1> QED BY <1>2, <1>o, <1>d, <1>3, <1>4, <1>5, SettingsKept DEF Steps, Work, Outcomes

LEMMA SnapsOfOthers ==
    ASSUME TypeOK, NEW j \in Jobs, Step(j), NEW i \in Jobs, i # j
    PROVE  snap'[i] = snap[i] /\ plan'[i] = plan[i] /\ was'[i] = was[i] /\ listed'[i] = listed[i]
BY SettingsKept DEF TypeOK, StagingTypes, JobTypes, TakeSnapshot, MakePlan, NewPlan, CopyDatabase,
                    StopContainers

LEMMA ControlOfOthers ==
    ASSUME TypeOK, NEW j \in Jobs, Control(j), NEW i \in Jobs, i # j
    PROVE  /\ pc'[i] = pc[i] /\ op'[i] = op[i] /\ code'[i] = code[i]
           /\ dead'[i] = dead[i] /\ todo'[i] = todo[i]
BY DEF Control, TypeOK, JobTypes

LEMMA Agreeing == ASSUME TypeOK, NEW j \in Jobs, Step(j), NEW i \in Jobs PROVE Agrees(i)'
<1>1. CASE i # j
  <2>1. Control(j) /\ Agrees(i) BY Controls DEF TypeOK
  <2> QED BY <1>1, <2>1, ControlOfOthers, SnapsOfOthers, SettingsKept DEF Agrees
<1>2. ASSUME i = j PROVE Agrees(j)'
  <2> USE DEF Goto, Continue, ContinueWith, Return, Fails, Rest, Running, Restoring, Synced
  <2>0. /\ Agrees(j) /\ op[j] \in Operations \cup {None}
        /\ pc \in [Jobs -> Steps] /\ op \in [Jobs -> Operations \cup {None}] /\ todo \in [Jobs -> Work]
    BY DEF TypeOK, JobTypes, Steps, Work
  <2>r. ASSUME NEW c, Return(j, c) PROVE Agrees(j)'
    <3>1. pc'[j] = "idle" /\ op'[j] = None BY <2>0, <2>r
    <3>2. None \notin {"run", "restore", "force"} BY DEF Operations
    <3> QED BY <3>1, <3>2 DEF Agrees
  <2>1. CASE CopyDatabase(j) BY <2>0, <2>1 DEF Agrees, CopyDatabase
  <2>2. CASE WriteManifest(j)
    <3>1. CASE Continue(j, "restic") BY <2>0, <2>2, <3>1 DEF Agrees, WriteManifest
    <3> QED BY <2>2, <2>r, <3>1 DEF WriteManifest
  <2>3. CASE TakeSnapshot(j) BY <2>3, <2>r DEF TakeSnapshot
  <2>4. CASE Fetch(j)
    <3>1. CASE Continue(j, "plan") BY <2>0, <2>4, <3>1 DEF Agrees, Fetch
    <3> QED BY <2>4, <2>r, <3>1 DEF Fetch
  <2>5. CASE MakePlan(j)
    <3>1. plan'[j] = Planned(snap[j]) /\ snap' = snap
      BY <2>5 DEF MakePlan, NewPlan, TypeOK, JobTypes
    <3>2. CASE Continue(j, "stop") BY <2>0, <2>5, <3>1, <3>2 DEF Agrees, MakePlan
    <3> QED BY <2>5, <2>r, <3>2 DEF MakePlan
  <2>6. CASE StopService(j) \/ StopContainers(j) BY <2>0, <2>6 DEF Agrees, StopService, StopContainers
  <2>7. CASE WriteOverlay(j) BY <2>0, <2>7 DEF Agrees, WriteOverlay
  <2>8. CASE MountLower(j) \/ RevertExtras(j) BY <2>0, <2>8 DEF Agrees, MountLower, RevertExtras
  <2>9. CASE Sync(j) \/ PassOver(j) BY <2>0, <2>9 DEF Agrees, Sync, PassOver, Following
  <2>10. CASE RestoreDatabase(j) BY <2>0, <2>10 DEF Agrees, RestoreDatabase
  <2>11. CASE RestoreData(j) BY <2>0, <2>11 DEF Agrees, RestoreData
  <2>12. CASE StartContainer(j) BY <2>0, <2>12 DEF Agrees, StartContainer
  <2>13. CASE ComposeUp(j) \/ AllStarted(j) BY <2>0, <2>13 DEF Agrees, ComposeUp, AllStarted
  <2>14. CASE StartService(j) BY <2>0, <2>14 DEF Agrees, StartService
  <2>15. CASE EndRestore(j) BY <2>15, <2>r DEF EndRestore
  <2> QED
    BY <2>1, <2>2, <2>3, <2>4, <2>5, <2>6, <2>7, <2>8, <2>9, <2>10, <2>11, <2>12, <2>13, <2>14, <2>15
    DEF Step
<1> QED BY <1>1, <1>2

LEMMA StepTyped == ASSUME TypeOK, NEW j \in Jobs, Step(j) PROVE TypeOK'
BY BoxTyped, StagingTyped, JobTyped, Agreeing DEF TypeOK

\* Starts, cancels and upgrades.
LEMMA StartTyped ==
    ASSUME TypeOK, NEW j \in Jobs, StartRun(j) \/ \E o \in Operations : StartRestore(j, o)
    PROVE  TypeOK'
<1> USE DEF TypeOK, JobTypes, BoxTypes, StagingTypes, Goto, Running, Restoring, Operations
<1>1. CASE StartRun(j)
  <2>1. /\ runs + 1 \in 0..MaxRuns /\ runs + 1 # 0 /\ runs' = runs + 1
        /\ no' = [no EXCEPT ![j] = runs + 1] /\ op' = [op EXCEPT ![j] = "run"]
        /\ pc' = [pc EXCEPT ![j] = "copy"] /\ todo' = [todo EXCEPT ![j] = Databases]
        /\ listed' = [listed EXCEPT ![j] = {}] /\ dead' = [dead EXCEPT ![j] = FALSE]
        /\ code' = [code EXCEPT ![j] = None] /\ plan' = [plan EXCEPT ![j] = None]
        /\ was' = [was EXCEPT ![j] = {}]
        /\ UNCHANGED <<box, version, staging, snap, faults>>
    BY <1>1 DEF StartRun
  <2>2. data' \in [Jobs -> BOOLEAN]
    <3>1. data \in [Jobs -> BOOLEAN] /\ data[j] \in BOOLEAN OBVIOUS
    <3>2. data' = data \/ data' = [data EXCEPT ![j] = ~data[j]] BY <1>1 DEF StartRun
    <3>3. (~data[j]) \in BOOLEAN OBVIOUS
    <3>4. \A b \in BOOLEAN : [data EXCEPT ![j] = b] \in [Jobs -> BOOLEAN] BY <3>1
    <3>5. CASE data' = data BY <3>1, <3>5, Zenon
    <3>6. CASE data' = [data EXCEPT ![j] = ~data[j]] BY <3>3, <3>4, <3>6, Zenon
    <3> QED BY <3>2, <3>5, <3>6, Zenon
  <2>3. JobTypes'
    <3>1. /\ op' \in [Jobs -> Operations \cup {None}]
          /\ pc' \in [Jobs -> Running \cup Restoring \cup {"idle"}]
      BY <2>1
    <3>2. dead' \in [Jobs -> BOOLEAN] BY <2>1
    <3>3. /\ todo' \in [Jobs -> SUBSET (Databases \cup Services \cup Containers)]
          /\ listed' \in [Jobs -> SUBSET Databases]
      BY <2>1
    <3>4. no' \in [Jobs -> 0..MaxRuns] BY <2>1
    <3>5. plan' \in [Jobs -> Plans \cup {None}] /\ was' \in [Jobs -> SUBSET Containers] BY <2>1
    <3>6. code' \in [Jobs -> Outcomes] BY <2>1 DEF Outcomes
    <3> QED BY <2>1, <2>2, <3>1, <3>2, <3>3, <3>4, <3>5, <3>6 DEF Outcomes
  <2>4. BoxTypes' /\ StagingTypes' BY <2>1 DEF box, staging
  <2>5. \A i \in Jobs : Agrees(i)' BY <2>1 DEF Agrees, Synced
  <2> QED BY <2>3, <2>4, <2>5
<1>2. ASSUME NEW o \in Operations, StartRestore(j, o) PROVE TypeOK'
  <2>1. /\ op' = [op EXCEPT ![j] = o] /\ o \in {"restore", "force"} /\ snap[j] # None
        /\ pc' = [pc EXCEPT ![j] = "fetch"] /\ dead' = [dead EXCEPT ![j] = FALSE]
        /\ code' = [code EXCEPT ![j] = None] /\ plan' = [plan EXCEPT ![j] = None]
        /\ listed' = [listed EXCEPT ![j] = {}] /\ was' = [was EXCEPT ![j] = {}]
        /\ UNCHANGED <<svc, con, lower, version, staging, runs, snap, todo, no, data, faults>>
    BY <1>2 DEF StartRestore
  <2>2. JobTypes' BY <2>1
  <2>3. BoxTypes' BY <1>2, LogTypes, ContentTypes DEF StartRestore
  <2>4. StagingTypes' BY <2>1 DEF staging
  <2>5. \A i \in Jobs : Agrees(i)' BY <2>1 DEF Agrees, Synced
  <2> QED BY <2>2, <2>3, <2>4, <2>5
<1> QED BY <1>1, <1>2

LEMMA AsideTyped ==
    ASSUME TypeOK, (\E j \in Jobs : Cancel(j)) \/ (\E v \in Versions : Upgrade(v)) \/ UNCHANGED vars
    PROVE  TypeOK'
<1> USE DEF TypeOK, JobTypes, BoxTypes, StagingTypes
<1>1. ASSUME NEW j \in Jobs, Cancel(j) PROVE TypeOK'
  <2>1. dead' = [dead EXCEPT ![j] = TRUE] /\ faults' \in 0..MaxFaults
    BY <1>1, Faulted DEF Cancel
  <2>2. JobTypes' BY <1>1, <2>1 DEF Cancel
  <2>3. BoxTypes' /\ StagingTypes' BY <1>1 DEF Cancel, box, staging
  <2>4. \A i \in Jobs : Agrees(i)' BY <1>1 DEF Cancel, Agrees
  <2> QED BY <2>2, <2>3, <2>4
<1>2. ASSUME NEW v \in Versions, Upgrade(v) PROVE TypeOK'
  <2>1. db' \in [Databases -> Contents] /\ wal' \in [Databases -> {"live", "raw", "none"}]
    BY <1>2, LogTypes, ContentTypes DEF Upgrade
  <2>2. BoxTypes' BY <1>2, <2>1 DEF Upgrade
  <2>3. JobTypes' BY <1>2 DEF Upgrade
  <2>4. StagingTypes' BY <1>2 DEF Upgrade, staging
  <2>5. \A i \in Jobs : Agrees(i)' BY <1>2 DEF Upgrade, Agrees
  <2> QED BY <2>2, <2>3, <2>4, <2>5
<1>3. CASE UNCHANGED vars
  BY <1>3 DEF vars, Agrees
<1> QED BY <1>1, <1>2, <1>3

LEMMA TypeNext == TypeOK /\ [Next]_vars => TypeOK'
BY StepTyped, StartTyped, AsideTyped DEF Next

LEMMA InitTypes == Init => TypeOK
<1> SUFFICES ASSUME Init PROVE TypeOK OBVIOUS
<1> USE DEF Init
<1>1. BoxTypes
  <2>1. db \in [Databases -> Contents] BY ContentTypes
  <2>2. wal \in [Databases -> {"live", "raw", "none"}] BY LogTypes
  <2>3. area \in [Areas -> {"live", "snapshot", "merged", "partial"}] OBVIOUS
  <2> QED BY <2>1, <2>2, <2>3 DEF BoxTypes
<1>2. StagingTypes BY DEF StagingTypes, Manifests, Copies
<1>3. JobTypes BY DEF JobTypes, Operations
<1>4. \A j \in Jobs : Agrees(j) BY DEF Agrees, Running, Restoring, Synced, Operations
<1> QED BY <1>1, <1>2, <1>3, <1>4 DEF TypeOK

\* Every variable keeps its type, and a job's step, operation, snapshot and
\* plan agree: a restore never goes on without a snapshot or with the plan
\* of an earlier one (runner.go, Restore; restore.go, Apply).
THEOREM TypeCorrect == Spec => []TypeOK
<1>1. Init => TypeOK BY InitTypes
<1>2. TypeOK /\ [Next]_vars => TypeOK' BY TypeNext
<1> QED BY <1>1, <1>2, PTL DEF Spec

-----------------------------------------------------------------------------
(* The module's own data *)

\* A run, and a restore that has not begun with step 1, leave the box alone.
LEMMA BoxQuiet ==
    ASSUME TypeOK, NEW j \in Jobs, Step(j), pc[j] \notin Restoring \ {"fetch", "plan"}
    PROVE  UNCHANGED box
<1>1. CASE \/ CopyDatabase(j) \/ WriteManifest(j) \/ TakeSnapshot(j) \/ Fetch(j) \/ MakePlan(j)
           \/ PassOver(j) \/ AllStarted(j) \/ EndRestore(j)
  BY <1>1 DEF CopyDatabase, WriteManifest, TakeSnapshot, Fetch, MakePlan, PassOver, AllStarted,
              EndRestore
<1>2. ~(StopService(j) \/ StopContainers(j) \/ WriteOverlay(j) \/ MountLower(j) \/ RevertExtras(j))
  BY DEF StopService, StopContainers, WriteOverlay, MountLower, RevertExtras, Restoring
<1>3. ~(Sync(j) \/ PassOver(j) \/ RestoreDatabase(j) \/ RestoreData(j) \/ StartContainer(j) \/ ComposeUp(j)
         \/ StartService(j))
  BY DEF Sync, PassOver, RestoreDatabase, RestoreData, StartContainer, ComposeUp, StartService, Restoring,
         Synced
<1> QED BY <1>1, <1>2, <1>3 DEF Step

LEMMA ModuleNext == TypeOK /\ ModuleKept /\ [Next]_vars => ModuleKept'
<1> SUFFICES ASSUME TypeOK, ModuleKept, [Next]_vars PROVE ModuleKept' OBVIOUS
<1> USE DEF ModuleKept
<1>0. area \in [Areas -> {"live", "snapshot", "merged", "partial"}] BY DEF TypeOK, BoxTypes
<1>1. ASSUME NEW j \in Jobs, Step(j) PROVE ModuleKept'
  <2>1. CASE Sync(j)
    <3>1. pc[j] \in Synced /\ Below[pc[j]] \ Excluded[pc[j]] \in SUBSET (Areas \ {"own", "image"})
      BY <2>1 DEF Sync, Synced, Below, Excluded, Areas
    <3> QED BY <1>0, <2>1, <3>1 DEF Sync, Areas
  <2>2. CASE RestoreData(j) BY <1>0, <2>2 DEF RestoreData, Areas, DataAreas, DataExcluded
  <2>3. CASE WriteOverlay(j) \/ RevertExtras(j) BY <1>0, <2>3 DEF WriteOverlay, RevertExtras, Areas
  <2>4. CASE ~(Sync(j) \/ RestoreData(j) \/ WriteOverlay(j) \/ RevertExtras(j))
    BY <1>1, <2>4 DEF Step, CopyDatabase, WriteManifest, TakeSnapshot, Fetch, MakePlan, StopService,
       StopContainers, MountLower, PassOver, RestoreDatabase, StartContainer, ComposeUp, AllStarted,
       StartService, EndRestore, box
  <2> QED BY <2>1, <2>2, <2>3, <2>4
<1>2. ASSUME NEW j \in Jobs, StartRun(j) \/ Cancel(j) PROVE ModuleKept'
  BY <1>2 DEF StartRun, Cancel, box
<1>3. ASSUME NEW j \in Jobs, NEW o \in Operations, StartRestore(j, o) PROVE ModuleKept'
  BY <1>3 DEF StartRestore, Areas
<1>4. CASE (\E v \in Versions : Upgrade(v)) \/ UNCHANGED vars BY <1>4 DEF Upgrade, vars
<1> QED BY <1>1, <1>2, <1>3, <1>4 DEF Next

\* No restore, wherever it breaks off, touches the module's own data or its
\* own image below the directories it makes equal to the snapshot
\* (restore.go, syncState, Apply step 5).
THEOREM ModuleIsKept == Spec => []ModuleKept
<1>1. Init => ModuleKept BY DEF Init, ModuleKept, Areas
<1>2. TypeOK /\ ModuleKept /\ [Next]_vars => ModuleKept' BY ModuleNext
<1> QED BY <1>1, <1>2, TypeCorrect, PTL DEF Spec

-----------------------------------------------------------------------------
(* One restore at a time *)

Asked == \A j \in Jobs : op[j] # None => <<j, op[j]>> \in Requests

Restores(j) == op[j] \in {"restore", "force"}

LEMMA OneRestorer ==
    ASSUME Asked, NEW i \in Jobs, NEW j \in Jobs, Restores(i), Restores(j)
    PROVE  i = j
<1>1. <<i, op[i]>> \in Requests /\ <<j, op[j]>> \in Requests
  BY DEF Asked, Restores, Operations
<1>2. op[i] # "run" /\ op[j] # "run" BY DEF Restores
<1> QED BY <1>1, <1>2

LEMMA NoneIsNoOperation == None \notin {"run", "restore", "force"}
BY DEF Operations

\* Who starts a restore is the only one who restores.
LEMMA StarterIsAlone ==
    ASSUME Asked, NEW i \in Jobs, NEW o \in Operations, StartRestore(i, o), NEW j \in Jobs
    PROVE  ~Restores(j)
<1> SUFFICES ASSUME Restores(j) PROVE FALSE OBVIOUS
<1>1. <<i, o>> \in Requests /\ o # "run" /\ op[i] = None BY DEF StartRestore
<1>2. <<j, op[j]>> \in Requests /\ op[j] # "run" /\ op[j] # None
  BY NoneIsNoOperation DEF Asked, Restores
<1>3. i = j BY <1>1, <1>2
<1> QED BY <1>1, <1>2, <1>3

\* What a step of another job leaves to a job that restores.
LEMMA RestorerUndisturbed ==
    ASSUME TypeOK, Asked, NEW i \in Jobs, Step(i), NEW j \in Jobs, Restores(j), i # j
    PROVE  /\ UNCHANGED <<box, version>>
           /\ pc'[j] = pc[j] /\ op'[j] = op[j] /\ code'[j] = code[j] /\ dead'[j] = dead[j]
           /\ todo'[j] = todo[j] /\ snap'[j] = snap[j] /\ plan'[j] = plan[j] /\ was'[j] = was[j]
<1>1. ~Restores(i) BY OneRestorer
<1>2. pc[i] \notin Restoring
  BY <1>1 DEF TypeOK, Agrees, JobTypes, Restores, Operations, Running, Restoring, Synced
<1>3. UNCHANGED box BY <1>2, BoxQuiet
<1>4. version' = version
  BY DEF Step, CopyDatabase, WriteManifest, TakeSnapshot, Fetch, MakePlan, StopService,
       StopContainers, WriteOverlay, MountLower, RevertExtras, Sync, PassOver, RestoreDatabase, RestoreData,
       StartContainer, ComposeUp, AllStarted, StartService, EndRestore
<1> QED BY <1>3, <1>4, Controls, ControlOfOthers, SnapsOfOthers

LEMMA AskedNext == TypeOK /\ Asked /\ [Next]_vars => Asked'
<1> SUFFICES ASSUME TypeOK, Asked, [Next]_vars PROVE Asked' OBVIOUS
<1> USE DEF Asked, TypeOK, JobTypes
<1>1. ASSUME NEW j \in Jobs, Step(j) PROVE Asked' BY <1>1, Controls DEF Control
<1>2. ASSUME NEW j \in Jobs, StartRun(j) PROVE Asked' BY <1>2 DEF StartRun
<1>3. ASSUME NEW j \in Jobs, NEW o \in Operations, StartRestore(j, o) PROVE Asked'
  BY <1>3 DEF StartRestore
<1>4. CASE (\E j \in Jobs : Cancel(j)) \/ (\E v \in Versions : Upgrade(v)) \/ UNCHANGED vars
  BY <1>4 DEF Cancel, Upgrade, vars
<1> QED BY <1>1, <1>2, <1>3, <1>4 DEF Next

LEMMA AskedAlways == Spec => []Asked
<1>1. Init => Asked BY DEF Init, Asked
<1>2. TypeOK /\ Asked /\ [Next]_vars => Asked' BY AskedNext
<1> QED BY <1>1, <1>2, TypeCorrect, PTL DEF Spec

-----------------------------------------------------------------------------
(* Another version, and stopped services *)

\* A restore that is not forced gets past MakePlan only with a snapshot of
\* the running version.
Guarded ==
    \A j \in Jobs : op[j] = "restore" /\ pc[j] \notin {"fetch", "plan"} => snap[j].version = version

\* Once Apply is done, each service it has not still to start was started.
Restarted ==
    \A j \in Jobs : pc[j] = "start" /\ ~dead[j] =>
        \A s \in Services : s \in todo[j] \/ svc[s] # "inactive"

LEMMA StartIsRestore ==
    ASSUME TypeOK, NEW j \in Jobs, pc[j] \in Restoring PROVE Restores(j)
BY DEF TypeOK, Agrees, JobTypes, Restores, Operations, Running, Restoring, Synced

LEMMA GuardedNext == TypeOK /\ Asked /\ Guarded /\ [Next]_vars => Guarded'
<1> SUFFICES ASSUME TypeOK, Asked, Guarded, [Next]_vars,
                    NEW j \in Jobs, op'[j] = "restore", pc'[j] \notin {"fetch", "plan"}
             PROVE  snap'[j].version = version'
  BY DEF Guarded
<1> USE DEF TypeOK, JobTypes
<1>0. "restore" # None BY NoneIsNoOperation
<1>1. ASSUME NEW i \in Jobs, i # j, Step(i) PROVE snap'[j].version = version'
  <2>1. op[j] = "restore" BY <1>1, Controls, ControlOfOthers
  <2>2. Restores(j) BY <2>1 DEF Restores
  <2> QED BY <1>1, <2>1, <2>2, RestorerUndisturbed DEF Guarded
<1>2. ASSUME Step(j) PROVE snap'[j].version = version'
  <2>1. op[j] = "restore" BY <1>0, <1>2, Controls DEF Control
  <2>2. snap' = snap
    BY <1>2, <2>1, SettingsKept DEF TakeSnapshot
  <2>3. version' = version
    BY <1>2 DEF Step, CopyDatabase, WriteManifest, TakeSnapshot, Fetch, MakePlan, StopService,
         StopContainers, WriteOverlay, MountLower, RevertExtras, Sync, PassOver, RestoreDatabase,
         RestoreData, StartContainer, ComposeUp, AllStarted, StartService, EndRestore
  <2>4. CASE pc[j] \notin {"fetch", "plan"} BY <2>1, <2>2, <2>3, <2>4 DEF Guarded
  <2>5. CASE pc[j] = "fetch"
    <3>1. Fetch(j)
      BY <1>2, <2>5 DEF Step, CopyDatabase, WriteManifest, TakeSnapshot, MakePlan, StopService,
         StopContainers, WriteOverlay, MountLower, RevertExtras, Sync, PassOver, RestoreDatabase,
         RestoreData, StartContainer, ComposeUp, AllStarted, StartService, EndRestore, Synced
    <3> QED BY <1>0, <3>1 DEF Fetch, Continue, Goto, Return
  <2>6. CASE pc[j] = "plan"
    <3>1. MakePlan(j)
      BY <1>2, <2>6 DEF Step, CopyDatabase, WriteManifest, TakeSnapshot, Fetch, StopService,
         StopContainers, WriteOverlay, MountLower, RevertExtras, Sync, PassOver, RestoreDatabase,
         RestoreData, StartContainer, ComposeUp, AllStarted, StartService, EndRestore, Synced
    <3>2. Applicable(j) BY <1>0, <3>1 DEF MakePlan, Return
    <3> QED BY <2>1, <2>2, <2>3, <3>2 DEF Applicable
  <2> QED BY <2>4, <2>5, <2>6
<1>3. ASSUME NEW i \in Jobs, StartRun(i) PROVE snap'[j].version = version'
  BY <1>3 DEF StartRun, Goto, Guarded
<1>4. ASSUME NEW i \in Jobs, NEW o \in Operations, StartRestore(i, o) PROVE snap'[j].version = version'
  BY <1>4 DEF StartRestore, Goto, Guarded
<1>5. CASE (\E i \in Jobs : Cancel(i)) \/ UNCHANGED vars
  BY <1>5 DEF Cancel, vars, Guarded
<1>6. CASE \E v \in Versions : Upgrade(v) BY <1>0, <1>6 DEF Upgrade
<1> QED BY <1>1, <1>2, <1>3, <1>4, <1>5, <1>6 DEF Next

\* A snapshot of another version changes nothing on the box unless the
\* restore is forced (restore.go, MakePlan and Apply).
THEOREM VersionIsGuarded == Spec => VersionGuard
<1> DEFINE Kept == \A j \in Jobs :
              op[j] = "restore" /\ op'[j] \in {"restore", None} /\ snap[j].version # version
                  => UNCHANGED box
<1>1. Init => Guarded BY NoneIsNoOperation DEF Init, Guarded
<1>2. TypeOK /\ Asked /\ Guarded /\ [Next]_vars => Guarded' BY GuardedNext
<1>3. TypeOK /\ Asked /\ Guarded /\ [Next]_vars => [Kept]_vars
  <2> SUFFICES ASSUME TypeOK, Asked, Guarded, [Next]_vars, NEW j \in Jobs,
                      op[j] = "restore", op'[j] \in {"restore", None}, snap[j].version # version
               PROVE  UNCHANGED box
    OBVIOUS
  <2>0. pc[j] \in {"fetch", "plan"} /\ Restores(j) /\ op[j] # None
    BY NoneIsNoOperation DEF Guarded, Restores
  <2>1. ASSUME NEW i \in Jobs, Step(i) PROVE UNCHANGED box
    <3>1. CASE i = j BY <2>0, <2>1, <3>1, BoxQuiet
    <3>2. CASE i # j BY <2>0, <2>1, <3>2, RestorerUndisturbed
    <3> QED BY <3>1, <3>2
  <2>2. ASSUME NEW i \in Jobs, StartRun(i) \/ Cancel(i) PROVE UNCHANGED box
    BY <2>2 DEF StartRun, Cancel
  <2>3. ASSUME NEW i \in Jobs, NEW o \in Operations, StartRestore(i, o) PROVE UNCHANGED box
    BY <2>0, <2>3, StarterIsAlone
  <2>4. ~ \E v \in Versions : Upgrade(v) BY <2>0 DEF Upgrade
  <2>5. UNCHANGED vars => UNCHANGED box BY DEF vars, box
  <2> QED BY <2>1, <2>2, <2>3, <2>4, <2>5 DEF Next
<1> QED BY <1>1, <1>2, <1>3, TypeCorrect, AskedAlways, PTL DEF Spec, VersionGuard

LEMMA RestartedNext == TypeOK /\ Asked /\ Restarted /\ [Next]_vars => Restarted'
<1> SUFFICES ASSUME TypeOK, Asked, Restarted, [Next]_vars,
                    NEW j \in Jobs, pc'[j] = "start", ~dead'[j], NEW s \in Services
             PROVE  s \in todo'[j] \/ svc'[s] # "inactive"
  BY DEF Restarted
<1> USE DEF TypeOK, JobTypes, BoxTypes
<1>1. ASSUME NEW i \in Jobs, i # j, Step(i) PROVE s \in todo'[j] \/ svc'[s] # "inactive"
  <2>1. pc[j] = "start" BY <1>1, Controls, ControlOfOthers
  <2>2. Restores(j) BY <2>1, StartIsRestore DEF Restoring
  <2> QED BY <1>1, <2>1, <2>2, RestorerUndisturbed DEF Restarted, box
<1>2. ASSUME Step(j) PROVE s \in todo'[j] \/ svc'[s] # "inactive"
  <2>1. ASSUME todo' = [todo EXCEPT ![j] = Services] PROVE s \in todo'[j] BY <2>1
  <2>2. CASE Fails(j) BY <2>1, <2>2 DEF Fails
  <2>3. CASE ComposeUp(j) \/ AllStarted(j) BY <2>1, <2>3 DEF ComposeUp, AllStarted
  <2>4. CASE StartService(j)
    <3>1. PICK t \in todo[j] : StartService(j)!2!(t) BY <2>4 DEF StartService
    <3>2. ~dead[j] BY <1>2, Controls DEF Control
    <3>3. todo' = [todo EXCEPT ![j] = todo[j] \ {t}] BY <3>1 DEF ContinueWith, Rest
    <3>4. \E a \in {"active", "failed"} : svc' = [svc EXCEPT ![t] = a]
      BY <3>1, <3>2 DEF Refused
    <3>5. s \in todo[j] \/ svc[s] # "inactive" BY <2>4, <3>2 DEF StartService, Restarted
    <3> QED BY <3>3, <3>4, <3>5
  <2>5. \A x : pc' = [pc EXCEPT ![j] = x] => x = "start"
    OBVIOUS
  <2>6. CASE CopyDatabase(j) \/ WriteManifest(j) \/ TakeSnapshot(j) \/ Fetch(j) \/ MakePlan(j)
    BY <2>5, <2>6 DEF CopyDatabase, WriteManifest, TakeSnapshot, Fetch, MakePlan, Continue,
         ContinueWith, Return, Goto
  <2>7. CASE StopService(j) \/ StopContainers(j) \/ StartContainer(j) \/ EndRestore(j)
    BY <2>5, <2>7 DEF StopService, StopContainers, StartContainer, EndRestore, Continue,
         ContinueWith, Return, Goto
  <2>8. CASE WriteOverlay(j) \/ MountLower(j) \/ RevertExtras(j)
    BY <2>2, <2>5, <2>8 DEF WriteOverlay, MountLower, RevertExtras, Continue, Goto
  <2>9. CASE Sync(j) \/ PassOver(j)
    BY <2>2, <2>5, <2>9 DEF Sync, PassOver, ContinueWith, Continue, Goto, Following, Synced
  <2>10. CASE RestoreDatabase(j) \/ RestoreData(j)
    BY <2>2, <2>5, <2>10 DEF RestoreDatabase, RestoreData, ContinueWith, Continue, Goto
  <2> QED BY <1>2, <2>3, <2>4, <2>6, <2>7, <2>8, <2>9, <2>10 DEF Step
<1>3. ASSUME NEW i \in Jobs, StartRun(i) PROVE s \in todo'[j] \/ svc'[s] # "inactive"
  BY <1>3 DEF StartRun, Goto, Restarted, box
<1>4. ASSUME NEW i \in Jobs, NEW o \in Operations, StartRestore(i, o)
      PROVE  s \in todo'[j] \/ svc'[s] # "inactive"
  BY <1>4 DEF StartRestore, Goto, Restarted
<1>5. CASE (\E i \in Jobs : Cancel(i)) \/ UNCHANGED vars
  BY <1>5 DEF Cancel, vars, Restarted, box
<1>6. CASE \E v \in Versions : Upgrade(v) BY <1>6 DEF Upgrade, Agrees
<1> QED BY <1>1, <1>2, <1>3, <1>4, <1>5, <1>6 DEF Next

\* A restore that ended without being cancelled has asked every service to
\* start again, at whichever step it broke off (restore.go, Apply's defer).
THEOREM ServicesRestart == Spec => EndedRestoreRestarts
<1> DEFINE Again == \A j \in Jobs :
              op[j] # "run" /\ op'[j] = None /\ ~dead'[j] /\ pc[j] \notin {"idle", "fetch", "plan"}
                  => \A s \in Services : svc'[s] # "inactive"
<1>1. Init => Restarted BY DEF Init, Restarted
<1>2. TypeOK /\ Asked /\ Restarted /\ [Next]_vars => Restarted' BY RestartedNext
<1>3. TypeOK /\ Restarted /\ [Next]_vars => [Again]_vars
  <2> SUFFICES ASSUME TypeOK, Restarted, [Next]_vars, NEW j \in Jobs, op[j] # "run", op'[j] = None,
                      ~dead'[j], pc[j] \notin {"idle", "fetch", "plan"}
               PROVE  \A s \in Services : svc'[s] # "inactive"
    OBVIOUS
  <2> USE DEF TypeOK, JobTypes
  <2>1. op[j] # None /\ Restores(j)
    BY DEF Agrees, Restores, Operations
  <2>2. CASE Step(j)
    <3>1. EndRestore(j)
      BY <2>1, <2>2 DEF Step, CopyDatabase, WriteManifest, TakeSnapshot, Fetch, MakePlan,
         StopService, StopContainers, WriteOverlay, MountLower, RevertExtras, Sync, PassOver,
         RestoreDatabase, RestoreData, StartContainer, ComposeUp, AllStarted, StartService,
         Continue, ContinueWith, Fails
    <3> QED BY <3>1 DEF EndRestore, Restarted, box
  <2>3. ASSUME NEW i \in Jobs, i # j, Step(i) PROVE FALSE
    BY <2>1, <2>3, Controls, ControlOfOthers
  <2>4. ASSUME NEW i \in Jobs, StartRun(i) \/ Cancel(i) PROVE FALSE
    BY <2>1, <2>4, NoneIsNoOperation DEF StartRun, Cancel
  <2>5. ASSUME NEW i \in Jobs, NEW o \in Operations, StartRestore(i, o) PROVE FALSE
    BY <2>1, <2>5, NoneIsNoOperation DEF StartRestore
  <2>6. ~(\E v \in Versions : Upgrade(v)) /\ ~UNCHANGED vars BY <2>1 DEF Upgrade, vars
  <2> QED BY <2>2, <2>3, <2>4, <2>5, <2>6 DEF Next
<1> QED BY <1>1, <1>2, <1>3, TypeCorrect, AskedAlways, PTL DEF Spec, EndedRestoreRestarts

-----------------------------------------------------------------------------
(* Snapshots and whole restores *)

\* All system jobs share one staging directory; what follows is about boxes on
\* which no two of them back up at the same time.
OneRun == \A i, j \in Jobs : op[i] = "run" /\ op[j] = "run" => i = j
RunsAlone == []OneRun

\* Boxes of which this is certain have one system job.
OneSystemJob == \A q, r \in Requests : q[1] = r[1]

\* The copies a run has listed are its own, and the manifest it wrote stays.
Collecting(j) ==
    /\ \A d \in listed[j] : copy[d] = no[j]
    /\ pc[j] = "copy" => listed[j] \cap todo[j] = {}
    /\ pc[j] = "restic" => manifest = Manifest(j)

StagingInv ==
    /\ SnapshotIsOfItsRun
    /\ \A j \in Jobs : op[j] = "run" => Collecting(j)

LEMMA SnapshotsKept ==
    ASSUME SnapshotIsOfItsRun, snap' = snap PROVE SnapshotIsOfItsRun'
BY DEF SnapshotIsOfItsRun

LEMMA StagingNext ==
    ASSUME OneRun, OneRun', TypeOK, StagingInv, [Next]_vars PROVE StagingInv'
<1> USE DEF TypeOK, JobTypes, StagingTypes, staging
<1>0. None # "run" BY NoneIsNoOperation
<1>1. ASSUME NEW j \in Jobs, Step(j) PROVE StagingInv'
  <2>1. op[j] = "run" => \A i \in Jobs : op'[i] = "run" => i = j
    BY <1>0, <1>1, Controls, ControlOfOthers DEF OneRun
  <2>2. CASE CopyDatabase(j)
    <3>1. PICK d \in todo[j] : CopyDatabase(j)!2!(d) BY <2>2 DEF CopyDatabase
    <3>2. pc'[j] = "copy" /\ todo'[j] = todo[j] \ {d} /\ op[j] = "run" /\ op' = op
      BY <2>2, <3>1 DEF CopyDatabase, ContinueWith, Continue, Goto, Rest
    <3>3. listed[j] \cap todo[j] = {} /\ \A e \in listed[j] : copy[e] = no[j]
      BY <2>2, <3>2 DEF CopyDatabase, StagingInv, Collecting
    <3>4. d \in Databases
      BY <2>2, <3>1 DEF CopyDatabase, Agrees, Running
    <3>5. \A e \in Databases \ {d} : copy'[e] = copy[e]
      BY <3>1 DEF Copies
    <3>6. \/ listed'[j] = listed[j]
          \/ listed'[j] = listed[j] \cup {d} /\ copy'[d] = no[j]
      BY <3>1, <3>4 DEF Copies
    <3>7. no' = no /\ snap' = snap BY <2>2 DEF CopyDatabase
    <3>8. listed[j] \subseteq Databases OBVIOUS
    <3>9. Collecting(j)' BY <3>2, <3>3, <3>5, <3>6, <3>7, <3>8, <3>1 DEF Collecting
    <3> QED BY <2>1, <3>2, <3>7, <3>9, SnapshotsKept DEF StagingInv
  <2>3. CASE WriteManifest(j)
    <3>1. \A d \in listed[j] : copy[d] = no[j] BY <2>3 DEF WriteManifest, StagingInv, Collecting
    <3>2. /\ UNCHANGED <<copy, snap, no, data, listed>>
          /\ (manifest' = Manifest(j) /\ pc'[j] = "restic") \/ op'[j] = None
      BY <2>3 DEF WriteManifest, Continue, Return, Goto
    <3>3. op'[j] = "run" => Collecting(j)' BY <1>0, <3>1, <3>2 DEF Collecting, Manifest
    <3>4. op[j] = "run" BY <2>3 DEF WriteManifest
    <3> QED BY <2>1, <3>2, <3>3, <3>4, SnapshotsKept DEF StagingInv
  <2>4. CASE TakeSnapshot(j)
    <3>1. op'[j] = None BY <2>4 DEF TakeSnapshot, Return
    <3>2. manifest = Manifest(j) /\ \A d \in listed[j] : copy[d] = no[j]
      BY <2>4 DEF TakeSnapshot, StagingInv, Collecting
    <3>3. ASSUME NEW i \in Jobs, snap'[i] # None
          PROVE  /\ snap'[i].manifest.run = snap'[i].of
                 /\ snap'[i].manifest.data = snap'[i].data
                 /\ \A d \in snap'[i].manifest.dbs : snap'[i].copy[d] = snap'[i].of
      <4>1. CASE snap'[i] = snap[i] BY <3>3, <4>1 DEF StagingInv, SnapshotIsOfItsRun
      <4>2. CASE snap'[i] # snap[i]
        <5>1. PICK h \in Held : snap' = [snap EXCEPT ![j] = [of |-> no[j], data |-> data[j], has |-> h,
                                   manifest |-> manifest, copy |-> copy, version |-> version]]
          BY <2>4, <4>2 DEF TakeSnapshot
        <5> QED BY <3>2, <4>2, <5>1 DEF Manifest
      <4> QED BY <4>1, <4>2
    <3>4. op[j] = "run" BY <2>4 DEF TakeSnapshot
    <3> QED BY <1>0, <2>1, <3>1, <3>3, <3>4 DEF StagingInv, SnapshotIsOfItsRun
  <2>5. CASE ~(CopyDatabase(j) \/ WriteManifest(j) \/ TakeSnapshot(j))
    <3>1. op[j] # "run" /\ snap' = snap
      BY <1>1, <2>5 DEF Agrees, Running, Synced, Step, Fetch, MakePlan, StopService, StopContainers,
         WriteOverlay, MountLower, RevertExtras, Sync, PassOver, RestoreDatabase, RestoreData,
         StartContainer, ComposeUp, AllStarted, StartService, EndRestore
    <3>2. op'[j] # "run" BY <1>0, <1>1, <3>1, Controls DEF Control
    <3>3. UNCHANGED <<staging, no, data, listed>>
      BY <1>1, <2>5 DEF Step, Fetch, MakePlan, StopService, StopContainers, WriteOverlay, MountLower,
         RevertExtras, Sync, PassOver, RestoreDatabase, RestoreData, StartContainer, ComposeUp, AllStarted,
         StartService, EndRestore
    <3>4. ASSUME NEW i \in Jobs, op'[i] = "run" PROVE Collecting(i)'
      <4>1. i # j /\ op[i] = "run" /\ pc'[i] = pc[i] /\ todo'[i] = todo[i]
        BY <1>1, <3>2, <3>4, Controls, ControlOfOthers
      <4>2. Collecting(i) BY <4>1 DEF StagingInv
      <4> QED BY <3>3, <4>1, <4>2 DEF Collecting, Manifest
    <3> QED BY <3>1, <3>4, SnapshotsKept DEF StagingInv
  <2> QED BY <2>2, <2>3, <2>4, <2>5
<1>2. ASSUME NEW j \in Jobs, StartRun(j) PROVE StagingInv'
  <2>1. op' = [op EXCEPT ![j] = "run"] /\ snap' = snap /\ listed'[j] = {} /\ pc'[j] = "copy"
    BY <1>2 DEF StartRun, Goto
  <2>2. \A i \in Jobs : op'[i] = "run" => i = j BY <2>1 DEF OneRun
  <2> QED BY <2>1, <2>2, SnapshotsKept DEF StagingInv, Collecting
<1>3. ASSUME NEW j \in Jobs, NEW o \in Operations, StartRestore(j, o) PROVE StagingInv'
  <2>1. op' = [op EXCEPT ![j] = o] /\ o # "run" /\ snap' = snap /\ pc' = [pc EXCEPT ![j] = "fetch"]
        /\ listed' = [listed EXCEPT ![j] = {}]
        /\ UNCHANGED <<staging, todo, no, data>>
    BY <1>3 DEF StartRestore, Goto
  <2>2. \A i \in Jobs : op'[i] = "run" => op[i] = "run" /\ pc'[i] = pc[i] /\ listed'[i] = listed[i]
    BY <2>1
  <2> QED BY <2>1, <2>2, SnapshotsKept DEF StagingInv, Collecting, Manifest
<1>4. CASE (\E j \in Jobs : Cancel(j)) \/ (\E v \in Versions : Upgrade(v)) \/ UNCHANGED vars
  BY <1>4, SnapshotsKept DEF Cancel, Upgrade, vars, StagingInv, Collecting, Manifest
<1> QED BY <1>1, <1>2, <1>3, <1>4 DEF Next

LEMMA StagingAlways == Spec /\ RunsAlone => []StagingInv
<1>1. Init => StagingInv BY NoneIsNoOperation DEF Init, StagingInv, SnapshotIsOfItsRun
<1>2. OneRun /\ OneRun' /\ TypeOK /\ StagingInv /\ [Next]_vars => StagingInv' BY StagingNext
<1> QED BY <1>1, <1>2, TypeCorrect, PTL DEF Spec, RunsAlone

\* While no two system jobs back up at the same time a snapshot describes
\* itself: it has the manifest of its run, and each database named there as
\* that run's copy (runner.go, Run; system.go, Prepare).
THEOREM SnapshotsDescribeThemselves == Spec /\ RunsAlone => []SnapshotIsOfItsRun
<1>1. StagingInv => SnapshotIsOfItsRun BY DEF StagingInv
<1> QED BY <1>1, StagingAlways, PTL

\* A box with one system job keeps to that.
THEOREM OneJobRunsAlone == ASSUME OneSystemJob PROVE Spec => RunsAlone
<1>1. Asked => OneRun
  <2> SUFFICES ASSUME Asked, NEW i \in Jobs, NEW j \in Jobs, op[i] = "run", op[j] = "run"
               PROVE  i = j
    BY DEF OneRun
  <2>1. <<i, op[i]>> \in Requests /\ <<j, op[j]>> \in Requests BY NoneIsNoOperation DEF Asked
  <2> QED BY <2>1 DEF OneSystemJob
<1> QED BY <1>1, AskedAlways, PTL DEF RunsAlone

\* What has been dealt with when a restore comes to a step.
Behind ==
    [overlay |-> {}, extras |-> {}, casaos |-> {"etc"}, icewhale |-> {"etc", "casaos"},
     extensions |-> {"etc", "casaos", "icewhale"},
     appdata |-> {"etc", "casaos", "icewhale", "extensions"},
     back |-> Restored]

\* An area as a restore leaves it, and the areas only its last steps touch.
Wanted(j, a) == IF a \in snap[j].has THEN "snapshot" ELSE "live"

Spared(j) == {"user"} \cup (Restored \ snap[j].has)

InPlace(j, d) == db[d] = Copied(snap[j].copy[d]) /\ wal[d] = "none"

\* How far a restore is: step by step more of the box is the snapshot's, and
\* no later step takes back what an earlier one did.
Progress(j) ==
    /\ pc[j] \in DOMAIN Behind => \A a \in Behind[pc[j]] : area[a] = Wanted(j, a)
    /\ pc[j] \in Restoring \ {"containers", "start"} => \A a \in Spared(j) : area[a] = "live"
    /\ pc[j] = "extras" => "etc" \in snap[j].has
    /\ pc[j] = "back" => \A d \in plan[j].dbs \ todo[j] : InPlace(j, d)
    /\ pc[j] = "containers" => Whole(j)

WholeInv == SuccessIsWhole /\ \A j \in Jobs : Restores(j) => Progress(j)

LEMMA Progressing ==
    ASSUME TypeOK, StagingInv, NEW j \in Jobs, Step(j), Restores(j), Progress(j),
           pc[j] = "start" /\ code[j] = "system_restored" => Whole(j)
    PROVE  /\ Progress(j)'
           /\ pc'[j] = "start" /\ code'[j] = "system_restored" => Whole(j)'
<1> USE DEF TypeOK, JobTypes, BoxTypes
<1>0. /\ pc \in [Jobs -> Steps] /\ Agrees(j) /\ snap[j] # None /\ snap[j] \in Snapshots
      /\ DOMAIN Behind = {"overlay", "extras", "casaos", "icewhale", "extensions", "appdata", "back"}
      /\ area \in [Areas -> {"live", "snapshot", "merged", "partial"}]
      /\ "etc" \in Areas /\ "user" \in Areas /\ Synced \subseteq Areas
      /\ snap[j].has \subseteq Restored /\ Restored = Synced \cup {"etc"}
      /\ op[j] # "run"
  BY DEF Steps, Restores, Agrees, StagingTypes, Behind, Areas, Restored, Snapshots
<1> DEFINE Goal == /\ Progress(j)'
                   /\ pc'[j] = "start" /\ code'[j] = "system_restored" => Whole(j)'
<1> SUFFICES Goal OBVIOUS
<1>s. snap' = snap
  BY <1>0, SettingsKept DEF TakeSnapshot
<1>w. (\A a : Wanted(j, a)' = Wanted(j, a)) /\ Spared(j)' = Spared(j)
  BY <1>s DEF Wanted, Spared
<1>m. pc[j] \in Restoring \ {"containers", "start"} => \A a \in Spared(j) : area[a] = "live"
  BY DEF Progress
<1>f. ASSUME Fails(j) PROVE Goal
  <2>1. pc'[j] = "start" /\ code'[j] = "failed" BY <1>f DEF Fails, Goto
  <2> QED BY <1>0, <2>1 DEF Progress
<1>r. ASSUME NEW c, Return(j, c) PROVE Goal
  <2>1. pc'[j] = "idle" BY <1>r DEF Return, Goto
  <2> QED BY <1>0, <2>1 DEF Progress, Restoring, Synced
<1> HIDE DEF Goal
<1>1. CASE Fetch(j)
  <2>1. CASE Continue(j, "plan")
    <3>1. pc'[j] = "plan" /\ area' = area /\ pc[j] \in {"fetch", "plan"}
      BY <1>1, <2>1 DEF Fetch, Continue, Goto, box
    <3> QED BY <1>0, <1>m, <1>w, <3>1 DEF Goal, Progress, Restoring
  <2> QED BY <1>1, <1>r, <2>1 DEF Fetch
<1>2. CASE MakePlan(j)
  <2>1. CASE Continue(j, "stop")
    <3>1. pc'[j] = "stop" /\ area' = area /\ pc[j] \in {"fetch", "plan"}
      BY <1>2, <2>1 DEF MakePlan, Continue, Goto, box
    <3> QED BY <1>0, <1>m, <1>w, <3>1 DEF Goal, Progress, Restoring
  <2> QED BY <1>2, <1>r, <2>1 DEF MakePlan, ContinueWith
<1>3. CASE StopService(j) \/ StopContainers(j)
  <2>1. pc'[j] \in {"stop", "overlay"} /\ area' = area /\ pc[j] = "stop"
    BY <1>3 DEF StopService, StopContainers, ContinueWith, Continue, Goto
  <2> QED BY <1>0, <1>m, <1>w, <2>1 DEF Goal, Progress, Behind, Restoring
<1>4. CASE WriteOverlay(j) \/ MountLower(j) \/ RevertExtras(j)
  <2>1. CASE ~Fails(j)
    <3>0. pc[j] \in {"overlay", "extras"} /\ \A a \in Spared(j) : area[a] = "live"
      BY <1>4, <1>m DEF WriteOverlay, MountLower, RevertExtras, Restoring
    <3>1. /\ \A a \in Areas : a # "etc" => area'[a] = area[a]
          /\ \/ pc'[j] = "extras" /\ "etc" \in snap[j].has
             \/ pc'[j] = "casaos" /\ area'["etc"] = Wanted(j, "etc")
          /\ "etc" \in snap[j].has \/ area' = area
      <4>1. CASE WriteOverlay(j)
        <5>1. CASE "etc" \in snap[j].has
          BY <1>0, <2>1, <4>1, <5>1 DEF WriteOverlay, Continue, Goto, Wanted
        <5>2. CASE "etc" \notin snap[j].has
          <6>1. area' = area /\ pc'[j] = "casaos"
            BY <1>0, <4>1, <5>2 DEF WriteOverlay, Continue, Goto
          <6>2. area["etc"] = "live" BY <1>0, <3>0, <5>2 DEF Spared
          <6> QED BY <5>2, <6>1, <6>2 DEF Wanted
        <5> QED BY <5>1, <5>2
      <4>2. CASE MountLower(j)
        <5>1. pc[j] = "extras" /\ pc'[j] = "extras" /\ area' = area
          BY <1>0, <2>1, <4>2 DEF MountLower, Continue, Goto
        <5> QED BY <5>1 DEF Progress
      <4>3. CASE RevertExtras(j)
        <5>1. /\ pc[j] = "extras" /\ pc'[j] = "casaos"
              /\ area' = [area EXCEPT !["etc"] = "snapshot"]
          BY <1>0, <2>1, <4>3 DEF RevertExtras, Continue, Goto
        <5>2. "etc" \in snap[j].has BY <5>1 DEF Progress
        <5> QED BY <1>0, <5>1, <5>2 DEF Wanted
      <4> QED BY <1>4, <4>1, <4>2, <4>3
    <3>2. \A a \in Spared(j) : area'[a] = "live"
      <4>1. \A a \in Spared(j) : a \in Areas /\ (a = "etc" => "etc" \notin snap[j].has)
        BY <1>0 DEF Spared
      <4> QED BY <3>0, <3>1, <4>1
    <3>3. \A a \in Behind["casaos"] : a = "etc" BY DEF Behind
    <3>4. Behind["extras"] = {} BY DEF Behind
    <3> QED BY <1>0, <1>s, <1>w, <3>1, <3>2, <3>3, <3>4 DEF Goal, Progress
  <2> QED BY <1>f, <2>1
<1>5. CASE Sync(j)
  <2>1. CASE ~Fails(j)
    <3> DEFINE dir == pc[j]
    <3>1. /\ dir \in Synced /\ pc'[j] = Following[dir] /\ todo'[j] = plan[j].dbs
          /\ plan' = plan
          /\ area' = [a \in Areas |-> IF a \in Below[dir] \ Excluded[dir] THEN "snapshot" ELSE area[a]]
      BY <1>5, <2>1 DEF Sync, ContinueWith, Continue, Goto
    <3>2. dir \in Below[dir] \ Excluded[dir] /\ Below[dir] \cap (Restored \cup {"user"}) = {dir}
      <4>1. \A d \in Synced : d \in Below[d] \ Excluded[d] /\ Below[d] \cap (Restored \cup {"user"}) = {d}
        BY DEF Synced, Below, Excluded, Restored
      <4> QED BY <3>1, <4>1
    <3>h. dir \in snap[j].has BY <1>5 DEF Sync
    <3>3. /\ Following[dir] \in {"icewhale", "extensions", "appdata", "back"}
          /\ Behind[Following[dir]] = Behind[dir] \cup {dir}
          /\ Behind[dir] \subseteq Restored \ {dir}
      BY <3>1 DEF Following, Behind, Synced, Restored
    <3>4. \A a \in Behind[dir] : area[a] = Wanted(j, a)
      BY <1>0, <3>1 DEF Progress, Synced
    <3>5. \A a \in Behind[dir] \cup {dir} : area'[a] = Wanted(j, a)
      <4>1. \A a \in Restored \ {dir} : area'[a] = area[a] BY <1>0, <3>1, <3>2
      <4>2. area'[dir] = "snapshot" BY <1>0, <3>1, <3>2
      <4>3. Wanted(j, dir) = "snapshot" BY <3>h DEF Wanted
      <4> QED BY <3>3, <3>4, <4>1, <4>2, <4>3
    <3>6. \A a \in Spared(j) : area'[a] = "live"
      <4>1. \A a \in Spared(j) : a \in Areas /\ a \notin Below[dir] /\ area[a] = "live"
        <5>1. \A a \in Spared(j) : area[a] = "live" BY <1>m, <3>1 DEF Restoring, Synced
        <5>2. \A a \in Spared(j) : a \in Areas /\ a \in Restored \cup {"user"} /\ a # dir
          <6>1. dir # "user" BY <3>1 DEF Synced
          <6> QED BY <1>0, <3>h, <6>1 DEF Spared
        <5> QED BY <3>2, <5>1, <5>2
      <4> QED BY <3>1, <4>1
    <3>7. \A a \in Behind[pc'[j]] : area'[a] = Wanted(j, a) BY <3>1, <3>3, <3>5
    <3>8. pc'[j] \in {"icewhale", "extensions", "appdata", "back"} BY <3>1, <3>3
    <3>9. plan'[j].dbs \ todo'[j] = {} BY <3>1
    <3> HIDE DEF dir
    <3>10. Progress(j)' BY <1>w, <3>6, <3>7, <3>8, <3>9 DEF Progress
    <3> QED BY <3>8, <3>10 DEF Goal
  <2> QED BY <1>f, <2>1
<1>p. CASE PassOver(j)
  <2> DEFINE dir == pc[j]
  <2>1. /\ dir \in Synced /\ dir \notin snap[j].has
        /\ pc'[j] = Following[dir] /\ todo'[j] = plan[j].dbs
        /\ plan' = plan /\ area' = area
    BY <1>p DEF PassOver, ContinueWith, Continue, Goto, box
  <2>2. /\ Following[dir] \in {"icewhale", "extensions", "appdata", "back"}
        /\ Behind[Following[dir]] = Behind[dir] \cup {dir}
    BY <2>1 DEF Following, Behind, Synced, Restored
  <2>3. \A a \in Spared(j) : area[a] = "live" BY <1>m, <2>1 DEF Restoring, Synced
  <2>4. \A a \in Behind[dir] : area[a] = Wanted(j, a) BY <1>0, <2>1 DEF Progress, Synced
  <2>5. area[dir] = Wanted(j, dir) BY <1>0, <2>1, <2>3 DEF Wanted, Spared
  <2>6. \A a \in Behind[pc'[j]] : area[a] = Wanted(j, a) BY <2>1, <2>2, <2>4, <2>5
  <2> HIDE DEF dir
  <2> QED BY <1>0, <1>w, <2>1, <2>2, <2>3, <2>6 DEF Goal, Progress
<1>6. CASE RestoreDatabase(j)
  <2>1. CASE ~Fails(j)
    <3>0. PICK d \in todo[j] :
             /\ ContinueWith(j, "back", Rest(j, d)) /\ wal' = WithoutLog(d)
             /\ db' = [db EXCEPT ![d] = Copied(snap[j].copy[d])]
      BY <1>6, <2>1 DEF RestoreDatabase
    <3>1. /\ pc'[j] = "back" /\ todo'[j] = todo[j] \ {d}
          /\ db' = [db EXCEPT ![d] = Copied(snap[j].copy[d])] /\ wal' = [wal EXCEPT ![d] = "none"]
          /\ UNCHANGED <<area, snap, plan>>
      <4>1. UNCHANGED <<area, snap, plan>> BY <1>6 DEF RestoreDatabase
      <4>2. pc'[j] = "back" /\ todo'[j] = todo[j] \ {d}
        BY <1>0, <3>0 DEF ContinueWith, Continue, Goto, Rest
      <4> QED BY <3>0, <4>1, <4>2 DEF WithoutLog
    <3>2. pc[j] = "back" /\ d \in Databases /\ plan[j].dbs \subseteq Databases
      <4>1. pc[j] = "back" BY <1>6 DEF RestoreDatabase
      <4>2. plan[j] = Planned(snap[j]) BY <1>0, <4>1 DEF Agrees, Restoring
      <4>3. Planned(snap[j]) \in Plans BY <1>0, PlannedTypes
      <4> QED BY <4>1, <4>2, <4>3, PlannedCopies DEF Plans
    <3>3. \A e \in plan[j].dbs \ todo[j] : InPlace(j, e) BY <3>2 DEF Progress
    <3>4. \A e \in plan[j].dbs \ (todo[j] \ {d}) :
             db'[e] = Copied(snap[j].copy[e]) /\ wal'[e] = "none"
      BY <3>1, <3>2, <3>3 DEF InPlace
    <3>5. \A e \in plan'[j].dbs \ todo'[j] : InPlace(j, e)' BY <3>1, <3>4 DEF InPlace
    <3>6. (\A a \in Spared(j) : area[a] = "live") /\ \A a \in Behind["back"] : area[a] = Wanted(j, a)
      BY <1>0, <3>2 DEF Progress, Restoring
    <3> QED BY <1>0, <1>w, <3>1, <3>5, <3>6 DEF Goal, Progress
  <2> QED BY <1>f, <2>1
<1>7. CASE RestoreData(j)
  <2>1. CASE ~Fails(j)
    <3> DEFINE hit == IF plan[j].data THEN DataAreas \ DataExcluded ELSE {}
    <3>1. /\ pc[j] = "back" /\ todo[j] = {} /\ pc'[j] = "containers"
          /\ area' = [a \in Areas |-> IF a \in hit /\ area[a] = "live" THEN "merged" ELSE area[a]]
          /\ db' = [d \in Databases |->
                       IF d \in {e \in Databases : Home[e] \in hit} THEN Raw ELSE db[d]]
          /\ UNCHANGED <<wal, snap, plan>>
      BY <1>7, <2>1 DEF RestoreData, ContinueWith, Continue, Goto
    <3>2. hit = IF plan[j].data THEN {"user"} ELSE {}
      <4>1. DataAreas \ DataExcluded = {"user"}
        BY DEF DataAreas, DataExcluded, Areas, Synced
      <4> QED BY <4>1
    <3>3. db' = db
      <4> HIDE DEF hit
      <4>1. \A d \in Databases : Home[d] # "user" BY SystemAssumption
      <4>2. \A d \in Databases : Home[d] \notin hit BY <3>2, <4>1
      <4>3. db' = [d \in Databases |-> db[d]] BY <3>1, <4>2
      <4> QED BY <4>3
    <3>4. plan[j] = Planned(snap[j]) BY <1>0, <3>1 DEF Agrees, Restoring
    <3>5. plan[j].data = snap[j].data
      BY <1>0, <3>4 DEF Planned, StagingInv, SnapshotIsOfItsRun
    <3>6. area["user"] = "live" /\ \A a \in Restored : area[a] = Wanted(j, a)
      BY <1>0, <3>1 DEF Progress, Restoring, Behind, Spared
    <3>7. area'["user"] = IF snap[j].data THEN "merged" ELSE "live"
      <4>1. area'["user"] = IF "user" \in hit /\ area["user"] = "live" THEN "merged" ELSE area["user"]
        BY <1>0, <3>1
      <4> HIDE DEF hit
      <4>2. "user" \in hit <=> snap[j].data BY <3>2, <3>5
      <4> QED BY <3>6, <4>1, <4>2
    <3>8. \A a \in Restored : area'[a] = Wanted(j, a)
      <4>1. "user" \notin Restored BY DEF Restored, Synced
      <4> HIDE DEF hit
      <4>2. \A a \in Restored : a \in Areas /\ a \notin hit BY <1>0, <3>2, <4>1
      <4> QED BY <3>1, <3>6, <4>2
    <3>9. \A d \in plan[j].dbs : db[d] = Copied(snap[j].copy[d]) /\ wal[d] = "none"
      BY <3>1 DEF Progress, InPlace
    <3>10. Whole(j)'
      <4> HIDE DEF hit
      <4>1. UNCHANGED <<wal, snap, plan>> BY <3>1
      <4> QED BY <4>1, <3>3, <3>7, <3>8, <3>9 DEF Whole, Wanted
    <3>11. pc'[j] = "containers" BY <3>1
    <3> QED BY <1>0, <3>10, <3>11 DEF Goal, Progress
  <2> QED BY <1>f, <2>1
<1>8. CASE StartContainer(j) \/ ComposeUp(j) \/ AllStarted(j)
  <2>1. UNCHANGED <<area, db, wal, snap, plan>> /\ pc'[j] \in {"containers", "start"} /\ Whole(j)
    BY <1>8 DEF StartContainer, ComposeUp, AllStarted, ContinueWith, Continue, Goto, box, Progress
  <2>2. Whole(j)' BY <2>1 DEF Whole
  <2> QED BY <1>0, <2>1, <2>2 DEF Goal, Progress
<1>9. CASE StartService(j)
  <2>1. UNCHANGED <<area, db, wal, snap, plan, code>> /\ pc[j] = "start" /\ pc'[j] = "start"
    BY <1>9 DEF StartService, ContinueWith, Continue, Goto
  <2>2. Whole(j) => Whole(j)' BY <2>1 DEF Whole
  <2> QED BY <1>0, <2>1, <2>2 DEF Goal, Progress
<1>10. CASE EndRestore(j) BY <1>10, <1>r DEF EndRestore
<1>11. ~(CopyDatabase(j) \/ WriteManifest(j) \/ TakeSnapshot(j))
  BY <1>0 DEF CopyDatabase, WriteManifest, TakeSnapshot
<1> QED BY <1>1, <1>2, <1>3, <1>4, <1>5, <1>p, <1>6, <1>7, <1>8, <1>9, <1>10, <1>11 DEF Step

LEMMA WholeNext ==
    TypeOK /\ Asked /\ StagingInv /\ WholeInv /\ [Next]_vars => WholeInv'
<1> SUFFICES ASSUME TypeOK, Asked, StagingInv, WholeInv, [Next]_vars,
                    NEW j \in Jobs
             PROVE  /\ Restores(j)' => Progress(j)'
                    /\ pc'[j] = "start" /\ code'[j] = "system_restored" => Whole(j)'
  BY DEF WholeInv, SuccessIsWhole
<1> USE DEF TypeOK, JobTypes
<1> DEFINE Goal == /\ Restores(j)' => Progress(j)'
                   /\ pc'[j] = "start" /\ code'[j] = "system_restored" => Whole(j)'
<1>1. ASSUME UNCHANGED <<area, db, wal>>, snap'[j] = snap[j], plan'[j] = plan[j], todo'[j] = todo[j],
             pc'[j] = pc[j], code'[j] = code[j], op'[j] = op[j]
      PROVE  Goal
  <2>1. Whole(j) => Whole(j)' BY <1>1 DEF Whole
  <2>2. \A d : InPlace(j, d) => InPlace(j, d)' BY <1>1 DEF InPlace
  <2>3. (\A a : Wanted(j, a)' = Wanted(j, a)) /\ Spared(j)' = Spared(j) BY <1>1 DEF Wanted, Spared
  <2> QED BY <1>1, <2>1, <2>2, <2>3 DEF WholeInv, SuccessIsWhole, Restores, Progress
<1>2. ASSUME ~Restores(j)', pc'[j] # "start" PROVE Goal BY <1>2
<1>3. ASSUME NEW i \in Jobs, Step(i) PROVE Goal
  <2>1. CASE Restores(j) /\ i # j BY <1>1, <1>3, <2>1, RestorerUndisturbed DEF box
  <2>2. CASE Restores(j) /\ i = j
    <3>1. Progress(j) /\ (pc[j] = "start" /\ code[j] = "system_restored" => Whole(j))
      BY <2>2 DEF WholeInv, SuccessIsWhole
    <3> QED BY <1>3, <2>2, <3>1, Progressing
  <2>3. CASE ~Restores(j)
    <3>1. op'[j] \in {op[j], None}
      BY <1>3, Controls, ControlOfOthers DEF Control
    <3>2. ~Restores(j)' BY <2>3, <3>1, NoneIsNoOperation DEF Restores
    <3>3. TypeOK' BY <1>3, StepTyped
    <3>4. pc'[j] # "start" BY <3>2, <3>3 DEF Agrees, Restores, Operations, Running
    <3> QED BY <1>2, <3>2, <3>4
  <2> QED BY <2>1, <2>2, <2>3
<1>4. ASSUME NEW i \in Jobs, StartRun(i) PROVE Goal
  <2>1. CASE i = j BY <1>2, <1>4, <2>1 DEF StartRun, Goto, Restores
  <2>2. CASE i # j BY <1>1, <1>4, <2>2 DEF StartRun, Goto, box
  <2> QED BY <2>1, <2>2
<1>5. ASSUME NEW i \in Jobs, NEW o \in Operations, StartRestore(i, o) PROVE Goal
  <2>1. CASE i = j
    <3>1. pc'[j] = "fetch" /\ \A a \in Areas : area'[a] = "live" BY <1>5, <2>1 DEF StartRestore, Goto
    <3>2. Spared(j)' \subseteq Areas BY DEF Spared, Restored, Areas
    <3> QED BY <3>1, <3>2 DEF Progress, Behind
  <2>2. CASE i # j
    <3>1. ~Restores(j) BY <1>5, StarterIsAlone
    <3>2. op'[j] = op[j] /\ pc'[j] = pc[j] BY <1>5, <2>2 DEF StartRestore, Goto
    <3>3. pc[j] # "start" BY <3>1, StartIsRestore DEF Restoring
    <3> QED BY <1>2, <3>1, <3>2, <3>3 DEF Restores
  <2> QED BY <2>1, <2>2
<1>6. CASE (\E i \in Jobs : Cancel(i)) \/ UNCHANGED vars BY <1>1, <1>6 DEF Cancel, vars, box
<1>7. CASE \E v \in Versions : Upgrade(v)
  <2>1. op'[j] = None /\ pc'[j] = "idle" BY <1>7 DEF Upgrade, Agrees
  <2> QED BY <1>2, <2>1, NoneIsNoOperation DEF Restores
<1> QED BY <1>3, <1>4, <1>5, <1>6, <1>7 DEF Next

\* While no two system jobs back up at the same time, a restore whose outcome
\* is system_restored put everything back, whatever broke on the way and
\* whatever another job backed up meanwhile (restore.go, Apply).
THEOREM SuccessfulRestoreIsWhole == Spec /\ RunsAlone => []SuccessIsWhole
<1>1. Init => WholeInv BY NoneIsNoOperation DEF Init, WholeInv, SuccessIsWhole, Restores
<1>2. TypeOK /\ Asked /\ StagingInv /\ WholeInv /\ [Next]_vars => WholeInv' BY WholeNext
<1>3. WholeInv => SuccessIsWhole BY DEF WholeInv
<1> QED BY <1>1, <1>2, <1>3, TypeCorrect, AskedAlways, StagingAlways, PTL DEF Spec

=============================================================================
