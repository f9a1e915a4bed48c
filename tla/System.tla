------------------------------- MODULE System -------------------------------
(***************************************************************************)
(* System jobs: Runner.Run collects a manifest and copies of the databases *)
(* in the staging directory and backs the box up; Runner.Restore puts a    *)
(* snapshot back onto the running box (Apply).                             *)
(*                                                                         *)
(* The box is abstracted to areas: an area is as the box has it ("live"),  *)
(* as the snapshot has it ("snapshot"), the snapshot's files laid over the *)
(* box's ("merged"), or stopped half way ("partial").  Commands (systemctl,*)
(* docker, rsync, mount, sqlite3, restic) are external: they work, break   *)
(* half way, or, when the context is cancelled, do not start at all.       *)
(***************************************************************************)
EXTENDS Integers, FiniteSets

CONSTANTS
    Jobs,         \* system jobs
    Requests,     \* the operations asked for: pairs of a job and an operation
    Services,     \* the services that write the state
    Containers,   \* the containers of the box
    Databases,    \* the SQLite databases of the state
    Home,         \* Home[d]: the area the database d lies in
    Lacking,      \* what a box may lack: sets of areas
    Versions,     \* versions of the system
    None,
    MaxRuns,      \* bound: runs of system jobs
    MaxFaults     \* bound: cancels and commands that break

Operations == {"run", "restore", "force"}

\* The state directories, in the order Apply syncs them.
Synced == {"casaos", "icewhale", "extensions", "appdata"}

\* "own" is the module's data directory, "image" its own system extension.
Areas == Synced \cup {"etc", "user", "own", "image"}

ASSUME SystemAssumption ==
    /\ Requests \subseteq Jobs \X Operations
    /\ Home \in [Databases -> {"casaos", "icewhale"}]
    /\ Lacking \subseteq SUBSET {"etc", "icewhale", "extensions"} /\ {} \in Lacking
    /\ MaxRuns \in Nat
    /\ MaxFaults \in Nat
    /\ \A q, r \in Requests : "run" \notin {q[2], r[2]} => q[1] = r[1]
    /\ None \notin Versions /\ None \notin Operations /\ None \notin Jobs

VARIABLES
    area,       \* area[a]: how it relates to the snapshot being restored
    db, wal,    \* db[d]: [kind, run] of a database; wal[d]: whose log lies beside it
    svc, con,   \* svc[s]: a service's state; the containers that run
    version,    \* of the running system
    extras,     \* /etc has files the snapshot lacks
    lower,      \* the read-only root is mounted below the staging directory
    manifest,   \* staging: [run, dbs, data] of the manifest
    copy,       \* staging: copy[d] is the run that made the copy, 0 if none
    runs,       \* how many runs there were
    snap,       \* snap[j]: the newest snapshot of j
    op, pc, dead, todo,
    no,         \* no[j]: the number of j's run
    data,       \* data[j]: j's run includes the whole of /DATA
    listed,     \* listed[j]: the databases j's run has copied
    was,        \* was[j]: the containers that ran before j's restore
    plan,       \* plan[j]: what j's restore found in its snapshot
    code,       \* code[j]: the outcome so far, None while there is none
    faults

box      == <<area, db, wal, svc, con, extras, lower>>
staging  == <<manifest, copy>>
vars == <<area, db, wal, svc, con, version, extras, lower, manifest, copy, runs, snap, op, pc,
          dead, todo, no, data, listed, was, plan, code, faults>>

Live == [kind |-> "live", run |-> 0]
Raw  == [kind |-> "raw", run |-> 0]
Gone == [kind |-> "gone", run |-> 0]
Copied(n) == [kind |-> "copy", run |-> n]

LiveLogs(f) == [d \in Databases |-> IF f[d] = Gone THEN "none" ELSE "live"]

-----------------------------------------------------------------------------
(* Commands and control *)

Mishap == faults < MaxFaults /\ faults' = faults + 1

Goto(j, step) == pc' = [pc EXCEPT ![j] = step]

\* A command does its work.
Works(j) == ~dead[j] /\ UNCHANGED <<dead, faults>>

\* A command is not started: the context is dead.
Refused(j) == dead[j] /\ UNCHANGED <<dead, faults>>

\* A command breaks half way, by itself or because the context dies.
Breaks(j) ==
    /\ ~dead[j] /\ Mishap
    /\ dead' \in {dead, [dead EXCEPT ![j] = TRUE]}

Return(j, result) ==
    /\ Goto(j, "idle")
    /\ op' = [op EXCEPT ![j] = None]
    /\ code' = [code EXCEPT ![j] = result]

\* Slip: nothing is deferred, the services are not started again after an error.
SlipNoDefer(j) == Return(j, "failed") /\ UNCHANGED todo

\* Apply returns an error: what it deferred, the start of the services, is
\* still to come.
Fails(j) ==
    /\ Goto(j, "start")
    /\ todo' = [todo EXCEPT ![j] = Services]
    /\ code' = [code EXCEPT ![j] = "failed"]
    /\ UNCHANGED op

Continue(j, step) == Goto(j, step) /\ UNCHANGED <<op, code>>

ContinueWith(j, step, set) ==
    Continue(j, step) /\ todo' = [todo EXCEPT ![j] = set]

\* Slip: what a dead context refused is tried again.
SlipRetried(j, x) == IF dead[j] THEN todo[j] ELSE todo[j] \ {x}

\* A loop goes on after x, whatever became of it.
Rest(j, x) == todo[j] \ {x}

-----------------------------------------------------------------------------
Init ==
    /\ area = [a \in Areas |-> "live"]
    /\ db \in [Databases -> {Live, Gone}]
    /\ wal = LiveLogs(db)
    /\ svc = [s \in Services |-> "active"]
    /\ con \in SUBSET Containers
    /\ version \in Versions
    /\ extras = FALSE
    /\ lower = FALSE
    /\ manifest = [run |-> 0, dbs |-> {}, data |-> FALSE]
    /\ copy = [d \in Databases |-> 0]
    /\ runs = 0
    /\ snap = [j \in Jobs |-> None]
    /\ op = [j \in Jobs |-> None]
    /\ pc = [j \in Jobs |-> "idle"]
    /\ dead = [j \in Jobs |-> FALSE]
    /\ todo = [j \in Jobs |-> {}]
    /\ no = [j \in Jobs |-> 0]
    /\ data = [j \in Jobs |-> FALSE]
    /\ listed = [j \in Jobs |-> {}]
    /\ was = [j \in Jobs |-> {}]
    /\ plan = [j \in Jobs |-> None]
    /\ code = [j \in Jobs |-> None]
    /\ faults = 0

-----------------------------------------------------------------------------
(* Runner.Run *)

StartRun(j) ==
    /\ <<j, "run">> \in Requests
    /\ op[j] = None
    /\ runs < MaxRuns
    /\ runs' = runs + 1
    /\ no' = [no EXCEPT ![j] = runs + 1]
    /\ op' = [op EXCEPT ![j] = "run"]
    /\ Goto(j, "copy")
    /\ todo' = [todo EXCEPT ![j] = Databases]
    /\ data' \in {data, [data EXCEPT ![j] = ~@]}   \* the job may have been edited
    /\ listed' = [listed EXCEPT ![j] = {}]
    /\ dead' = [dead EXCEPT ![j] = FALSE]
    /\ code' = [code EXCEPT ![j] = None]
    /\ plan' = [plan EXCEPT ![j] = None]
    /\ was' = [was EXCEPT ![j] = {}]
    /\ UNCHANGED <<box, version, staging, snap, faults>>

\* Prepare copies one database with sqlite3, after it removed the copy of
\* an earlier run.  A database that is not there is passed over.
CopyDatabase(j) ==
    /\ pc[j] = "copy" /\ op[j] = "run"
    /\ \E d \in todo[j] :
        /\ ContinueWith(j, "copy", Rest(j, d))
        /\ \/ db[d] = Gone /\ UNCHANGED <<copy, listed, dead, faults>>
           \/ /\ db[d] # Gone /\ Works(j)
              /\ copy' = [copy EXCEPT ![d] = no[j]]
              /\ listed' = [listed EXCEPT ![j] = @ \cup {d}]
           \/ /\ db[d] # Gone /\ (Refused(j) \/ Breaks(j))
              /\ copy' = [copy EXCEPT ![d] = 0]
              /\ UNCHANGED listed
    /\ UNCHANGED <<box, version, manifest, runs, snap, no, data, was, plan>>

\* Slip: the manifest names every database of the box.
SlipListsAll(j) == [run |-> no[j], dbs |-> Databases, data |-> data[j]]

Manifest(j) == [run |-> no[j], dbs |-> listed[j], data |-> data[j]]

WriteManifest(j) ==
    /\ pc[j] = "copy" /\ op[j] = "run" /\ todo[j] = {}
    /\ \/ manifest' = Manifest(j) /\ Continue(j, "restic") /\ UNCHANGED faults
       \/ Mishap /\ Return(j, "failed") /\ UNCHANGED manifest
    /\ UNCHANGED <<box, version, copy, runs, snap, dead, todo, no, data, listed, was, plan>>

Restored == Synced \cup {"etc"}

\* What a snapshot of the box may hold: the areas the box has.
Held == {h \in {Restored \ l : l \in Lacking} : \A d \in Databases : db[d] # Gone => Home[d] \in h}

\* The backup runner takes the snapshot: the state, and what lies in the
\* staging directory.
TakeSnapshot(j) ==
    /\ pc[j] = "restic" /\ op[j] = "run"
    /\ \/ /\ Works(j) /\ Return(j, "completed")
          /\ \E h \in Held :
                snap' = [snap EXCEPT ![j] = [of |-> no[j], data |-> data[j], has |-> h,
                                             manifest |-> manifest, copy |-> copy,
                                             version |-> version]]
       \/ (Refused(j) \/ Breaks(j)) /\ Return(j, "failed") /\ UNCHANGED snap
    /\ UNCHANGED <<box, version, staging, runs, todo, no, data, listed, was, plan>>

-----------------------------------------------------------------------------
(* Runner.Restore *)

StartRestore(j, o) ==
    /\ <<j, o>> \in Requests /\ o \in {"restore", "force"}
    /\ op[j] = None
    /\ snap[j] # None
    /\ op' = [op EXCEPT ![j] = o]
    /\ Goto(j, "fetch")
    /\ dead' = [dead EXCEPT ![j] = FALSE]
    /\ code' = [code EXCEPT ![j] = None]
    /\ plan' = [plan EXCEPT ![j] = None]
    /\ area' = [a \in Areas |-> "live"]
    /\ db' = [d \in Databases |-> IF db[d] = Gone THEN Gone ELSE Live]
    /\ wal' = LiveLogs(db)
    /\ extras' \in BOOLEAN
    /\ listed' = [listed EXCEPT ![j] = {}]
    /\ was' = [was EXCEPT ![j] = {}]
    /\ UNCHANGED <<svc, con, lower, version, staging, runs, snap, todo, no, data, faults>>

\* restic restores the snapshot into the scratch directory.
Fetch(j) ==
    /\ pc[j] = "fetch"
    /\ \/ Works(j) /\ Continue(j, "plan")
       \/ (Refused(j) \/ Breaks(j)) /\ Return(j, IF dead'[j] THEN "cancelled" ELSE "failed")
    /\ UNCHANGED <<box, version, staging, runs, snap, todo, no, data, listed, was, plan>>

\* MakePlan: of the databases the manifest names those whose copy is there.
Planned(s) ==
    [dbs  |-> {d \in s.manifest.dbs : s.copy[d] # 0},
     data |-> s.manifest.data]

\* Slip: the version is not looked at.
SlipAnyVersion(j) == TRUE

Applicable(j) == snap[j].version = version \/ op[j] = "force"

\* Slip: the plan of the last restore is used.
SlipStalePlan(j) == plan

NewPlan(j) == [plan EXCEPT ![j] = Planned(snap[j])]

MakePlan(j) ==
    /\ pc[j] = "plan"
    /\ plan' = NewPlan(j)
    /\ IF Applicable(j) THEN ContinueWith(j, "stop", Services)
       ELSE Return(j, "version_mismatch") /\ UNCHANGED todo
    /\ UNCHANGED <<box, version, staging, runs, snap, dead, no, data, listed, was, faults>>

\* 1. systemctl stop, one service after the other; a failure is noted.
StopService(j) ==
    /\ pc[j] = "stop"
    /\ \E s \in todo[j] :
        /\ ContinueWith(j, "stop", Rest(j, s))
        /\ \/ Works(j) /\ svc' = [svc EXCEPT ![s] = "inactive"]
           \/ Refused(j) /\ UNCHANGED svc
           \/ Breaks(j) /\ svc' \in {svc, [svc EXCEPT ![s] = "inactive"]}
    /\ UNCHANGED <<area, db, wal, con, extras, lower, version, staging, runs, snap, no, data, listed, was, plan>>

\* docker ps and docker stop.  Without an answer no container is stopped.
StopContainers(j) ==
    /\ pc[j] = "stop" /\ todo[j] = {}
    /\ \/ Works(j) /\ was' = [was EXCEPT ![j] = con] /\ con' = {}
       \/ (Refused(j) \/ Breaks(j)) /\ was' = [was EXCEPT ![j] = {}] /\ UNCHANGED con
       \/ Breaks(j) /\ was' = [was EXCEPT ![j] = con] /\ con' \in SUBSET con
    /\ Continue(j, "overlay")
    /\ UNCHANGED <<area, db, wal, svc, extras, lower, version, staging, runs, snap, todo, no, data, listed, plan>>

\* 2. /etc: the snapshot's files are written one by one, which no context
\* stops; only the files it lacks need commands.  A snapshot without /etc
\* is passed over.
WriteOverlay(j) ==
    /\ pc[j] = "overlay"
    /\ \/ /\ "etc" \notin snap[j].has
          /\ Continue(j, "casaos")
          /\ UNCHANGED <<dead, faults, todo, area>>
       \/ /\ "etc" \in snap[j].has
          /\ UNCHANGED <<dead, faults, todo>>
          /\ area' = [area EXCEPT !["etc"] = IF extras THEN "merged" ELSE "snapshot"]
          /\ Continue(j, IF extras THEN "extras" ELSE "casaos")
       \/ /\ "etc" \in snap[j].has
          /\ Mishap /\ UNCHANGED dead
          /\ area' = [area EXCEPT !["etc"] = "partial"] /\ Fails(j)
    /\ UNCHANGED <<db, wal, svc, con, extras, lower, version, staging, runs, snap, no, data, listed, was, plan>>

\* findmnt and mount of the read-only root, then each file the snapshot
\* lacks is replaced by the root's or removed.
MountLower(j) ==
    /\ pc[j] = "extras" /\ ~lower
    /\ \/ Works(j) /\ lower' = TRUE /\ Continue(j, "extras") /\ UNCHANGED todo
       \/ (Refused(j) \/ Breaks(j)) /\ UNCHANGED lower /\ Fails(j)
    /\ UNCHANGED <<area, db, wal, svc, con, extras, version, staging, runs, snap, no, data, listed, was, plan>>

\* The deferred umount goes through the same context.
RevertExtras(j) ==
    /\ pc[j] = "extras" /\ lower
    /\ lower' = dead[j]
    /\ \/ /\ area' = [area EXCEPT !["etc"] = "snapshot"] /\ extras' = FALSE
          /\ Continue(j, "casaos") /\ UNCHANGED <<todo, faults>>
       \/ Mishap /\ area' = [area EXCEPT !["etc"] = "partial"] /\ Fails(j) /\ UNCHANGED extras
    /\ UNCHANGED <<db, wal, svc, con, dead, version, staging, runs, snap, no, data, listed, was, plan>>

\* 3. What lies below a state directory, and what rsync is told to leave.
Below ==
    [casaos |-> {"casaos"}, icewhale |-> {"icewhale"},
     extensions |-> {"extensions", "image"}, appdata |-> {"appdata", "own"}]

\* Slip: rsync --delete without the excludes.
SlipExcludesNothing == [dir \in Synced |-> {}]

Excluded ==
    [casaos |-> {}, icewhale |-> {}, extensions |-> {"image"}, appdata |-> {"own"}]

Following ==
    [casaos |-> "icewhale", icewhale |-> "extensions", extensions |-> "appdata", appdata |-> "back"]

\* rsync --delete makes the directory the snapshot's, databases and their
\* logs included.
Sync(j) ==
    /\ pc[j] \in Synced /\ pc[j] \in snap[j].has
    /\ LET dir == pc[j]
           hit == Below[dir] \ Excluded[dir]
           dbs == {d \in Databases : Home[d] = dir}
       IN  \/ /\ Works(j)
              /\ area' = [a \in Areas |-> IF a \in hit THEN "snapshot" ELSE area[a]]
              /\ db' = [d \in Databases |-> IF d \in dbs THEN Raw ELSE db[d]]
              /\ wal' = [d \in Databases |-> IF d \in dbs THEN "raw" ELSE wal[d]]
              /\ ContinueWith(j, Following[dir], plan[j].dbs)
           \/ Refused(j) /\ UNCHANGED <<area, db, wal>> /\ Fails(j)
           \/ /\ Breaks(j) /\ Fails(j)
              /\ area' = [a \in Areas |-> IF a \in hit THEN "partial" ELSE area[a]]
              /\ UNCHANGED <<db, wal>>
    /\ UNCHANGED <<svc, con, extras, lower, version, staging, runs, snap, no, data, listed, was, plan>>

\* A directory the snapshot lacks is passed over.
PassOver(j) ==
    /\ pc[j] \in Synced /\ pc[j] \notin snap[j].has
    /\ ContinueWith(j, Following[pc[j]], plan[j].dbs)
    /\ UNCHANGED <<box, version, staging, runs, snap, dead, no, data, listed, was, plan, faults>>

\* The database and its log are removed before the copy takes their place.
WithoutLog(d) == [wal EXCEPT ![d] = "none"]

\* 4. One database: remove, copy, integrity_check.
RestoreDatabase(j) ==
    /\ pc[j] = "back"
    /\ \E d \in todo[j] :
        /\ wal' = WithoutLog(d)
        /\ \/ /\ Works(j)
              /\ db' = [db EXCEPT ![d] = Copied(snap[j].copy[d])]
              /\ ContinueWith(j, "back", Rest(j, d))
           \/ (Refused(j) \/ Breaks(j)) /\ Fails(j) /\ db' = [db EXCEPT ![d] = Copied(snap[j].copy[d])]
           \/ Mishap /\ UNCHANGED dead /\ Fails(j) /\ db' = [db EXCEPT ![d] = Gone]
    /\ UNCHANGED <<area, svc, con, extras, lower, version, staging, runs, snap, no, data, listed, was, plan>>

\* 5. The rest of /DATA, without what steps 3 and 4 put back.
DataAreas == Areas \ {"etc"}

\* Slip: the rest of /DATA is all of /DATA.
SlipDataOverAll == {}

DataExcluded == {"casaos", "icewhale", "extensions", "image", "appdata", "own"}

RestoreData(j) ==
    /\ pc[j] = "back" /\ todo[j] = {}
    /\ LET hit == IF plan[j].data THEN DataAreas \ DataExcluded ELSE {}
           dbs == {d \in Databases : Home[d] \in hit}
       IN  \/ /\ hit = {} \/ ~dead[j]
              /\ UNCHANGED <<dead, faults>>
              /\ area' = [a \in Areas |-> IF a \in hit /\ area[a] = "live" THEN "merged" ELSE area[a]]
              /\ db' = [d \in Databases |-> IF d \in dbs THEN Raw ELSE db[d]]
              /\ ContinueWith(j, "containers", was[j])
           \/ hit # {} /\ Refused(j) /\ UNCHANGED <<area, db>> /\ Fails(j)
           \/ /\ hit # {} /\ Breaks(j) /\ Fails(j)
              /\ area' = [a \in Areas |-> IF a \in hit THEN "merged" ELSE area[a]]
              /\ UNCHANGED db
    /\ UNCHANGED <<wal, svc, con, extras, lower, version, staging, runs, snap, no, data, listed, was, plan>>

\* 6. Each container that ran is started again; a failure is counted.
StartContainer(j) ==
    /\ pc[j] = "containers" /\ was[j] # {}
    /\ \E c \in todo[j] :
        /\ ContinueWith(j, "containers", Rest(j, c))
        /\ \/ Works(j) /\ con' = con \cup {c}
           \/ (Refused(j) \/ Breaks(j)) /\ UNCHANGED con
    /\ UNCHANGED <<area, db, wal, svc, extras, lower, version, staging, runs, snap, no, data, listed, was, plan>>

\* A box without running containers brings its apps up with compose.
ComposeUp(j) ==
    /\ pc[j] = "containers" /\ was[j] = {}
    /\ \/ Works(j) /\ con' = Containers
       \/ Refused(j) /\ UNCHANGED con
       \/ Breaks(j) /\ con' \in {c \in SUBSET Containers : con \subseteq c}
    /\ code' = [code EXCEPT ![j] = "system_restored"]
    /\ Goto(j, "start") /\ todo' = [todo EXCEPT ![j] = Services] /\ UNCHANGED op
    /\ UNCHANGED <<area, db, wal, svc, extras, lower, version, staging, runs, snap, no, data, listed, was, plan>>

AllStarted(j) ==
    /\ pc[j] = "containers" /\ was[j] # {} /\ todo[j] = {}
    /\ code' = [code EXCEPT ![j] = "system_restored"]
    /\ Goto(j, "start") /\ todo' = [todo EXCEPT ![j] = Services] /\ UNCHANGED op
    /\ UNCHANGED <<box, version, staging, runs, snap, dead, no, data, listed, was, plan, faults>>

\* 7. Deferred: systemctl start, through the context of the run.
StartService(j) ==
    /\ pc[j] = "start"
    /\ \E s \in todo[j] :
        /\ ContinueWith(j, "start", Rest(j, s))
        /\ \/ Works(j) /\ svc' = [svc EXCEPT ![s] = "active"]
           \/ Refused(j) /\ UNCHANGED svc
           \/ /\ Breaks(j)
              /\ \E a \in {"active", "failed"} \cup (IF dead'[j] THEN {svc[s]} ELSE {}) :
                     svc' = [svc EXCEPT ![s] = a]
    /\ UNCHANGED <<area, db, wal, con, extras, lower, version, staging, runs, snap, no, data, listed, was, plan>>

EndRestore(j) ==
    /\ pc[j] = "start" /\ todo[j] = {}
    /\ Return(j, code[j])
    /\ UNCHANGED <<box, version, staging, runs, snap, dead, todo, no, data, listed, was, plan, faults>>

-----------------------------------------------------------------------------
(* Around it *)

Cancel(j) ==
    /\ op[j] # None /\ ~dead[j] /\ Mishap
    /\ dead' = [dead EXCEPT ![j] = TRUE]
    /\ UNCHANGED <<box, version, staging, runs, snap, op, pc, todo, no, data, listed, was, plan, code>>

\* The box is updated and boots: everything that was stopped is started,
\* and the other version may have other databases.
Upgrade(v) ==
    /\ \A j \in Jobs : op[j] = None
    /\ v # version
    /\ version' = v
    /\ db' \in [Databases -> {Live, Gone}] /\ wal' = LiveLogs(db')
    /\ svc' = [s \in Services |-> "active"] /\ lower' = FALSE
    /\ con' \in SUBSET Containers
    /\ UNCHANGED <<area, extras, staging, runs, snap, op, pc, dead, todo, no, data, listed, was, plan, code, faults>>

Step(j) ==
    \/ CopyDatabase(j) \/ WriteManifest(j) \/ TakeSnapshot(j)
    \/ Fetch(j) \/ MakePlan(j) \/ StopService(j) \/ StopContainers(j)
    \/ WriteOverlay(j) \/ MountLower(j) \/ RevertExtras(j) \/ Sync(j) \/ PassOver(j)
    \/ RestoreDatabase(j) \/ RestoreData(j) \/ StartContainer(j) \/ ComposeUp(j) \/ AllStarted(j)
    \/ StartService(j) \/ EndRestore(j)

Next ==
    \/ \E j \in Jobs : Step(j) \/ StartRun(j) \/ Cancel(j)
    \/ \E j \in Jobs, o \in Operations : StartRestore(j, o)
    \/ \E v \in Versions : Upgrade(v)

Spec == Init /\ [][Next]_vars

\* The goroutine of an operation keeps going, and every command ends.
FairSpec == Spec /\ \A j \in Jobs : WF_vars(Step(j))

-----------------------------------------------------------------------------
(* Types *)

Contents == {Live, Raw, Gone} \cup {Copied(n) : n \in 1..MaxRuns}

Copies == [Databases -> 0..MaxRuns]

Manifests == [run : 0..MaxRuns, dbs : SUBSET Databases, data : BOOLEAN]

Snapshots == [of : 1..MaxRuns, data : BOOLEAN, has : SUBSET Restored, manifest : Manifests,
              copy : Copies, version : Versions]

Plans == [dbs : SUBSET Databases, data : BOOLEAN]

Running == {"copy", "restic"}

Restoring == {"fetch", "plan", "stop", "overlay", "extras", "back", "containers", "start"} \cup Synced

BoxTypes ==
    /\ area \in [Areas -> {"live", "snapshot", "merged", "partial"}]
    /\ db \in [Databases -> Contents]
    /\ wal \in [Databases -> {"live", "raw", "none"}]
    /\ svc \in [Services -> {"active", "inactive", "failed"}]
    /\ con \subseteq Containers
    /\ version \in Versions
    /\ extras \in BOOLEAN /\ lower \in BOOLEAN

StagingTypes ==
    /\ manifest \in Manifests
    /\ copy \in Copies
    /\ runs \in 0..MaxRuns
    /\ snap \in [Jobs -> Snapshots \cup {None}]

JobTypes ==
    /\ op \in [Jobs -> Operations \cup {None}]
    /\ pc \in [Jobs -> Running \cup Restoring \cup {"idle"}]
    /\ dead \in [Jobs -> BOOLEAN]
    /\ todo \in [Jobs -> SUBSET (Databases \cup Services \cup Containers)]
    /\ no \in [Jobs -> 0..MaxRuns]
    /\ data \in [Jobs -> BOOLEAN]
    /\ listed \in [Jobs -> SUBSET Databases]
    /\ was \in [Jobs -> SUBSET Containers]
    /\ plan \in [Jobs -> Plans \cup {None}]
    /\ code \in [Jobs -> {"completed", "failed", "cancelled", "version_mismatch", "system_restored", None}]
    /\ faults \in 0..MaxFaults

Agrees(j) ==
    /\ (op[j] = None) = (pc[j] = "idle")
    /\ op[j] = "run" => pc[j] \in Running /\ no[j] # 0
    /\ op[j] \in {"restore", "force"} => pc[j] \in Restoring /\ snap[j] # None
    /\ pc[j] \in Restoring \ {"fetch", "plan"} => plan[j] = Planned(snap[j])
    /\ pc[j] \in Running => todo[j] \subseteq Databases
    /\ pc[j] = "back" => todo[j] \subseteq plan[j].dbs
    /\ pc[j] = "containers" => todo[j] \subseteq was[j]

\* Every variable keeps its type, and a job's step, operation, snapshot and
\* plan agree: no step of a restore is taken for a job without a snapshot or
\* with the plan of another one (Runner.Restore, Apply).
TypeOK ==
    /\ BoxTypes /\ StagingTypes /\ JobTypes
    /\ \A j \in Jobs : Agrees(j)

-----------------------------------------------------------------------------
(* Properties *)

\* No restore, completed or broken off anywhere, overwrites or deletes the
\* module's own data (the store of the running daemon, the staging directory
\* with the very snapshot being restored) or its own image, although both lie
\* inside directories that rsync --delete makes equal to the snapshot.
ModuleKept == area["own"] = "live" /\ area["image"] = "live"

\* While no other system job uses the staging directory, a snapshot
\* describes itself: it carries the manifest of the run that took it, and
\* every database the manifest names lies in it as that run's copy - also
\* when a copy failed, or an earlier run left the copy of a database the box
\* no longer has.
SnapshotIsOfItsRun ==
    \A j \in Jobs : snap[j] # None =>
        /\ snap[j].manifest.run = snap[j].of
        /\ snap[j].manifest.data = snap[j].data
        /\ \A d \in snap[j].manifest.dbs : snap[j].copy[d] = snap[j].of

Whole(j) ==
    /\ \A a \in Restored : area[a] = (IF a \in snap[j].has THEN "snapshot" ELSE "live")
    /\ \A d \in plan[j].dbs : db[d] = Copied(snap[j].copy[d]) /\ wal[d] = "none"
    /\ area["user"] = (IF snap[j].data THEN "merged" ELSE "live")

\* A restore whose outcome is system_restored put everything back: /etc and
\* every state directory are the snapshot's, or left alone where it has none,
\* every database the snapshot has a consistent copy of is that copy, with no
\* log of another file beside it and not overwritten again by a later step,
\* and the user's files are merged only when the snapshot holds them -
\* whatever command broke on the way.
SuccessIsWhole ==
    \A j \in Jobs : pc[j] = "start" /\ code[j] = "system_restored" => Whole(j)

\* A snapshot of another version changes nothing on the box unless the
\* restore is forced: no service or container stops, no file is replaced
\* (MakePlan before Apply's first step), however often it is tried.
VersionGuard ==
    [][\A j \in Jobs :
          op[j] = "restore" /\ op'[j] \in {"restore", None} /\ snap[j].version # version
              => UNCHANGED box]_vars

\* A restore that ended without being cancelled leaves no service stopped,
\* at whichever step it broke off: each one was at least asked to start.
EndedRestoreRestarts ==
    [][\A j \in Jobs :
          op[j] # "run" /\ op'[j] = None /\ ~dead'[j] /\ pc[j] \notin {"idle", "fetch", "plan"}
              => \A s \in Services : svc'[s] # "inactive"]_vars

\* A restore that is started ends, whatever breaks and whenever it is
\* cancelled: no step waits for a command that was never started.
RestoreEnds == \A j \in Jobs : []<>(op[j] \notin {"restore", "force"})

\* What restore.go:16-19 and 119 say: the services that were stopped are
\* started again after a restore.  A cancel or a timeout during one of the
\* steps also kills the context the deferred start needs, and they stay down.
ServicesStartedAgain ==
    [][\A j \in Jobs : pc[j] = "start" /\ pc'[j] = "idle" => \A s \in Services : svc'[s] # "inactive"]_vars

=============================================================================
