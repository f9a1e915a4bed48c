# zima-backup: TLA+ models, model checks and proofs

zima-backup is a backup module for ZimaOS: one daemon, `zbackupd`, runs backups
(restic), mirrors (rsync, rclone) and system backups for a web page. This
directory holds specifications of the daemon, written from its Go code, the TLC
configurations that check them on small instances, and proofs that TLAPS checks
for every value of the constants. `PROJECT.json` is the machine-readable index:
which definition models which lines, what each run checks, which mistake each
property was seen to catch, the hazards of the code, and the findings.

Paths below are relative to the repository; `engine.go` is
`internal/engine/engine.go`, `restore.go` is `internal/system/restore.go`, and
so on.

    tlc -workers 2 -config MCEngineSerial.cfg MCEngine     # check one instance
    tlapm EngineFiles.tla                                  # check the proofs

## 1. Inventory of the system

| Component | State it keeps | Operations | What is hard | What makes it correct |
|---|---|---|---|---|
| **Engine** `internal/engine/engine.go` | registry, histories, cancel funcs, output; one RW mutex | New, Start/Stop, fireDue, Put, Delete, SetEnabled, ClearLogs, Cancel, Run, Execute, record | ticker, runs and requests interleave; decisions outlive the lock they were made under; crashes | runs of a job never overlap; the flag, the cancel map and the goroutine agree; a due job is served; edits survive a crash |
| **Store** `internal/store` | jobs.json, logs/, keys/, settings.json | load, save, delete, each by temp file and rename | errors and crashes between two files | files agree with each other and with the registry |
| **API** `internal/api` | none of its own | about 20 routes; validation; starts runs, checks, previews and restores | looks a job up, acts on it later | a request acts on what it was checked against; a job that passes validation cannot destroy its own copy |
| **Attention** `internal/engine/attention.go` | none (reads histories) | Attention, attentionFor | histories that are cut, cleared, lost or mixed with restores and checks | a job that fails, or that silently stopped running, is listed |
| **Dashboard keeper** `internal/dashboard` | shown, started, last error | Round once a minute | lost messages and answers, reloads, restarts | in the end the card shows exactly while something needs the user |
| **Backup runner** `internal/backup` | the restic repository (outside) | Run, Restore, Check, Snapshots, List, ensureRepo, unlock | two jobs on one repository, locks, exit codes, cancels and deadlines | a success names a good snapshot; the newest good copy is never pruned; nothing works beside a prune |
| **Mirror runner** `internal/mirror` | the target tree (outside) | Run, Preview | sources that change or vanish while deletion is switched on, partial transfers, a preview beside a run | what was mirrored stays; a preview changes nothing; codes tell the truth |
| **System backup** `internal/system` | staging directory, scratch | Prepare, Run, Restore, PlanFor, Apply (7 steps) | failure or cancel in the middle; data of earlier runs in the staging directory | services run again afterwards; the module's own state is never overwritten; success means all is back |
| **Local targets, mounts** `internal/localfs`, `internal/mounts` | none (reads the mount table) | EnsureTarget, Check, List, IsCloudMount | a disk unmounted between check and use | nothing is written below an empty mount point; what is offered is accepted |
| **SSH key** `internal/sshkey` | key pair, known_hosts | Public, Ensure, HostKeyTypes | first use by two callers | a key that was shown stays the key |
| **Network diagnosis** `internal/netpath` | none | Explain | five questions, each answered late or not at all | a reason leads to what is broken |
| **Discovery** `internal/discover` | none | Find | none for a model | — |
| **Schedules** `vendor/.../schedule` | none | Next, validate | calendar boundaries; it looks no further than 366 days | the earliest matching minute after the given one, or none |
| **Daemon** `cmd/zbackupd` | — | start, route registration, SIGTERM | order of stopping | running jobs are cancelled |
| **Web UI** `raw/.../zbackup` | page only | forms, polling | — | — |

How they interact. The *ticker* goroutine of the engine calls `fireDue` every
30 seconds; each due job gets a goroutine `Run` → `Execute` → `Runner.Run`. An
API handler calls the engine directly and starts `Run` or `Execute` in a
goroutine for run, check and the restores. Execute hands the runner a *copy* of
the job and the secrets it read from the key file, a context with a deadline
that Cancel, Delete and Stop can end, and callbacks for progress and output that
know only the job's id. The store has a mutex of its own, per file operation;
what is atomic over several files is decided by the engine's mutex, which some
file operations are made under (`persistJobsLocked`, Put, Delete) and others are
not (`LoadSecrets` in Execute, `SaveLogs` in record and ClearLogs). A runner
knows nothing of the engine: what two runs share is outside the daemon — a
repository, a target, the staging directory, the ssh key. Browsing snapshots and
previews go past the engine, from the handler to the runner. A system job wraps
the backup runner: it collects the staging directory, has it backed up, and
puts back what the backup runner restored. The keeper reads Attention, which
reads the histories, and posts to the message bus of the dashboard.

The hazards of this code, each at its line, are listed in `PROJECT.json`.

## 2. Modules

| Module | Contents |
|---|---|
| `Engine` | engine, store files, requests, ticker, crash and restart |
| `JobRuns` | the abstract promise about runs: Begin only when idle, End, Die; `Engine` implements it |
| `EngineInvariants` | the inductive invariants and the conditions they hold under |
| `Backup` | operations of jobs on one restic repository |
| `Copies` | the abstract promise of a backup job: a newest good copy that never gets older; `Backup` implements it |
| `System` | system backup and restore on one box |
| `Attention` | the judgement of every job from its history, and the keeper of the dashboard's card |
| `Targets` | operators only: where a path lies, what is offered as a target, why a host is not there |
| `Mirror` | runs and previews of a sync job; composes `Targets`, validation, the ssh key and the two tools |
| `MC…` | instances for TLC: values of the constants |
| `EngineProofs`, `EngineFiles`, `EngineRuns` | types, no overlap and the refinement of `JobRuns`; what the files promise; timers, output and secrets |
| `TargetsProofs` | the operators of `Targets`: what is accepted, offered and explained |
| `BackupProofs`, `SystemProofs`, `AttentionProofs`, `MirrorProofs` | the theorems about each of these modules |

The modules meet at the places the code's packages meet: `Engine` keeps
operations of one job apart, which `Backup`, `System` and `Mirror` take for
granted (`Start` waits for the job to be idle: `NoOverlap` is why it may);
`Attention` takes histories as entries that runs, restores and checks append.

### Engine

Goroutines are members of `Workers` (runs) and `Handlers` (requests in flight);
the ticker has no state of its own but `due`. A worker's `pc` says where it is:

    idle → lookup (Run) → execute → load → op → append → finish → record → save → idle

and a request is at the name of the operation it asks for, from the moment its
handler has looked the job up (`Accept`, `api.go:99-131`), or drawn a new id
(`Post`), until it gets the mutex. This window is what lets a PUT overtake a
DELETE.

One action is one critical section of `Engine.mu`, or one file operation outside
of it. Put and Delete make several file operations while they hold the mutex;
they are several actions with `mu` in between, because the daemon may die
there and runs read the key file and save histories without the mutex. Every
action that takes the mutex has the guard `mu = None`.

| Code | Actions |
|---|---|
| New, Start, Stop, process end | `Init`, `Stop`, `Restart` |
| fireDue | `FireDue` (under the read lock), `SpawnDue` (after it); time is `ClockPasses` and `Calendar` |
| POST, job lookup of the other requests | `Post`, `Accept` |
| Put | `Put` (registry, SaveSecrets), `PutSaveJobs` |
| Delete | `Delete` (cancel, registry, jobs.json), `DeleteLogs`, `DeleteSecrets` |
| SetEnabled, Cancel | `SetEnabled`, `Cancel` |
| ClearLogs | `ClearLogs` (under the lock), `SaveClearedLogs` (after it) |
| go Run / go Execute in the API | `Launch` |
| Run | `Run` |
| Execute | `ExecuteMissing`, `ExecuteSkips`, `ExecuteStarts`, `LoadSecrets`, `Log`, `Expire`, `OpReturns`, `AppendResult`, `Finish` |
| record | `Record` (under the lock), `SaveLogs` (after it) |

Abstractions. NextRunAt is `never`, `later` or `due`. A schedule is `manual`,
`timed` (a time of it is always within a year) or `dated`: a cron expression
like February 29th, for which schedule.Next finds a time only while a date is
`ahead` by 366 days or less (`HasNext`). `Calendar` lets the date come, and years
pass. A secret is the number of its edit, so that old and new can be
told apart; the two secrets of a job (passphrase, target secret) are one. A
result is its code, and every code with Success is `completed`. A history is a
sequence of codes. A missing history file and an empty one are the same. The
output of a job is the set of runs whose lines it holds. A file is replaced as a
whole or not at all. Calling a cancel func a moment after it was fetched is the
same as calling it at once: its run has ended by then or not. A daemon that
cannot read jobs.json does not start; that is a later `Restart`.

### Backup

`Jobs` have one target: the passphrase its repository was created with (`key`),
`snaps`, and `locks`. The `Local` ones reach it as a folder on a mounted disk.
While the disk is not there (`up` is false) the same path is a folder of the system
disk, a second place: restic finds no repository there, `InitRepo` makes one, and
`key["system"]`, the snapshots and the locks of that place are kept apart. A
process goes on where it began (`site`) and fails when that is gone (`There`).
`away` is a history variable: the disk went since the operation began. A lock names its process, whether it is exclusive, and
whether its process is alive. An operation is a sequence of restic processes:

    run:      prepare → probe → probing → (init |) unlock → backup → backing_up → forget → forgetting
    restore:  prepare → unlock → restore → restoring
    check:    prepare → unlock → check → checking

A step ending in *-ing* is a process at work, holding its lock; the step before
it tries to start it. `Refusal` says why a command cannot begin (a remote target does not answer, no
repository at the path, wrong passphrase, locked), `Verdict` and `Explain` are exec's and
explain's translation of an exit into a code, `Retains`, `Code` and
`Unsummarised` are Run's treatment of the summary.

| Code (`backup.go`) | Actions |
|---|---|
| Run, Restore, Check called by the engine | `Start` |
| target check, environment | `Prepare` |
| ensureRepo | `Probe`, `ProbeExits`, `ProbeDeadline`, `InitRepo` |
| unlock | `Unlock` |
| Run | `BackUp`, `BackupExits`, `Forget`, `ForgetExits` |
| Restore, Check | `RestoreStarts`, `RestoreExits`, `CheckStarts`, `CheckExits` |
| Snapshots, List | `Browse`, `BrowseExits`, `BrowserLeaves` |
| Cancel, delete, time limit | `Cancel` |

restic is external: which command takes which lock, that `forget --tag` keeps
the newest snapshot of the tag and may lose any older one when it is stopped,
and which failure gives which exit are taken from how the code and its tests use it.
A process that is killed, or that cannot reach the repository any more, leaves
its lock. The target may go away and return at any moment.

### System

An *area* (a state directory, `/etc`, the user's files, the module's own data and
image) is as the box has it, as the snapshot has it, merged, or broken off half
way; a database is live, raw (a copied file), gone, or the consistent copy of a
numbered run, with or without a foreign log beside it.

| Code | Actions |
|---|---|
| Runner.Run, Prepare (`runner.go`, `system.go`) | `StartRun`, `CopyDatabase` per database, `WriteManifest`, `TakeSnapshot` |
| Runner.Restore, MakePlan | `StartRestore`, `Fetch`, `MakePlan` |
| Apply 1: services, containers | `StopService` each, `StopContainers` |
| Apply 2: overlay | `WriteOverlay`, `MountLower`, `RevertExtras` |
| Apply 3: state directories | `Sync` each, `PassOver` for one the snapshot lacks |
| Apply 4: databases | `RestoreDatabase` each |
| Apply 5: rest of /DATA | `RestoreData` |
| Apply 6: containers, compose | `StartContainer` each, `ComposeUp`, `AllStarted` |
| Apply 7, the deferred start | `StartService` each, `EndRestore` |

Every external command `Works`, is `Refused` (the context is dead:
exec.CommandContext starts nothing) or `Breaks` half way. Whether an error goes
on (services, containers) or ends Apply (`Fails`) is the code's choice at each.
`Upgrade` changes the version between operations, and with it which databases
exist. A box may lack areas (`Lacking`); Sources leaves them out of the snapshot
(`Held`), and the restore passes over them. The constants let only one job be *restored* (an assumption of the
module): a box is restored by one person at one page.

### Attention

`Judged`, `Failing`, `Overdue` and `Listed` are attentionFor and Attention over
the histories; `Look` and `Send` are the two halves of `Keeper.Round`, between
which the world goes on. A message is delivered and answered, delivered without
an answer, or lost. A schedule is an interval or a set of dates; `NextRun` finds a
date only within a `Year` (366 days) and else gives the zero time, which `Late`
takes for "nothing due". `Accepted` is what validate refuses of that, once, when
the job is saved. `lastOk` and `lastRun` are history variables: what is so,
against which the properties hold what the shortened history says.

### Targets and Mirror

`Targets` has no state: `MountPoint` and `Check` are localfs' walk up to the
device boundary, `Candidates`, `NamedBy` and `Volumes` are mounts.List,
`Explain` is netpath.Explain. A *world* is what is so in the network: how the share
names the host, where the name leads and through which network, tailscaled, its
word on the machine, and whether the machine takes connections. `Found` is what
netpath finds of it: an answer that comes too late is none (`late`; all of them in
a run that was cancelled), and findPeer compares names as they are written.
`Holds` judges the reason by the world alone: "the share is missing and nothing
else" exactly when the machine answers, and Tailscale only when it is the way
there. `Excused` names what netpath cannot know.

`Mirror` has two processes, `run` and `preview`, over one job that may be edited
meanwhile:

    local:  check → mkdir → probe → probed → launch → tool   (a preview makes no folders)
    ssh:    key → (keygen → keypub →) launch → tool
    sftp:   key → … → scan → launch → tool → launch → tool … (one folder each)
            (with a password: scan → launch → …)
    cloud:  launch → tool → launch → tool …

`Valid` is what the API accepts; `Refuse`, `Accept` and `MakeDirs` are
EnsureTarget with its gap between check and MkdirAll; `MakeProbe` and `RemoveProbe`
are probeTarget; `FindKey`, `GenerateKey`,
`PublishKey` and `Scan` are sshkey. While it works a tool has a *list* (what it
read from the sources), copies a file at a time, skips one that is gone by then,
and deletes what is not in its list, under the rules of rsync and rclone for
errors while reading. `RsyncExits`, `RsyncCode`, `RcloneErrors` and `RcloneCode` are
the exits and their classification, `Judged` the look at the dead context
before them. `Kill` ends the daemon with what it was at. `steady`, `kept`, `told`
and `misled` are history variables.

Definitions named `Slip...` are mistakes, one before each definition it could
have been made in; they are not part of the specifications. `PROJECT.json` lists
which property fails when the mistake is made.

## 3. What the runs check

Deadlock is checked except in `Mirror`, where a user who asks for nothing more
and a world that has used its changes really leave nothing to happen. Symmetry is
over goroutines and requests, and is not used in runs that check liveness. Each
instance has the requests its properties turn on; between them they have all.

| Run | Instance | Shows |
|---|---|---|
| `serial` | 1 job, 2 runs, 1 request at a time (create, edit, delete, pause, cancel or run), crashes, SIGTERM | `NoOverlap`, `RunningMeansARun`, `OutputOfOneRun`, `ImplementsJobRuns`: with one request at a time runs never overlap; `DueIsServed`, `RunEnds` |
| `concurrent` | 1 job, 1 run, 2 editing requests at a time (PUTs racing DELETEs), timed and dated schedules, 2 secrets, crashes | `KeyNotOlderThanJob`, `RegistryIsDurable`, `ArmedAsScheduled`, `NoStaleSecret` |
| `faults` | 1 job, 1 run, reads, writes and timeouts fail at will, history of 1 | `TypeOK` (with the cap of the history), `DeletedStaysDeleted` |
| `backup` | 2 jobs on one target whose repository may exist with another passphrase, one that reaches it as a disk, asked for everything and pruning, one backing up beside it from afar, a browser, 1 fault | `PruneIsAlone`, `SuccessHasSnapshot`, `CancelledMeansStopped`, `NewestGoodKept`, `ImplementsCopies`, `SharedLeftoverCleared`, `OperationEnds` |
| `system` | 1 system job, 2 databases, 2 services, 1 container, 2 runs, 1 fault, an upgrade, a box that may lack two areas | `ModuleKept`, `SnapshotIsOfItsRun`, `SuccessIsWhole`, `VersionGuard`, `EndedRestoreRestarts`, `RestoreEnds` |
| `attention` | 1 job on an interval or with one date further off than `Year`, 4 moments, histories of 2 entries, 1 dashboard, 1 restart or lost message | `FailureIsListed`, `SilenceIsListed`, `TroubleIsShown`, `CardIsWithdrawn` |
| `mirror` | 7 kinds of jobs over 3 folders, two of one name; a USB disk bound twice, a share, a cloud drive; 2 runs or previews, 1 edit, 1 change of a folder, disk or net, 1 error of a tool or kill of the daemon; every world of netpath with every set of late answers | `KeptIsThere`, `WritesHome`, `OfferedIsAccepted`, `NeverMisled`, `OneKey`, `PreviewTouchesNothing`, `CancelIsHonest` |
| `overlap`, `stuck`, `services`, `empty`, `inner` | smallest instances | violated: the findings below |

Each passing run of a module also checks its one `TypeOK`, whose constraints say
more than types where the code promises more: the cap of a history, that a
history is newest first, that every operation ends with a code of model.go or with `repo_missing`,
that a restore works with the plan of its own snapshot. `repo_missing` is admitted there under
its own name, `Internal`, because it does leave the runner (observations).

Bounds.
*Engine.* One job is enough for the properties of one id, because the actions of
different ids share only `mu`, `jobs.json` and the goroutines; what two jobs can
do to each other through them is covered by the proofs, which are for any number of
jobs. Two runs are the least that can overlap; `overlap` has three, because the
violation needs an old run, a new one, and the request's start of the latter.
Two requests are the least that can race. `MaxSecrets` bounds how often a user
enters a secret (a guard of Put); two tell an old one from a new one.
`MaxLogEntries` is 200 in the code; one or two entries reach the cap.
The number of restarts and of requests is not bounded. `MaxLogEntries = 0` leaves the
history out of the instances that are not about it: record then keeps an empty one.
*Backup.* Two jobs are the least that can disturb each other, `MaxSnapshots = 2`
the least of which one is older. `MaxFaults = 1`: one cancel, deadline or
outage at any moment, and what it leaves behind meets everything else. Operations
are not bounded. In `stuck` one job is enough.
*System.* Two runs: the second meets what the first left in the staging
directory. One fault at every step of Apply, a cancel that comes with a broken
command included. Two databases lie in different state directories.
*Attention.* A history of two entries cuts off the last success after two
others; four moments let a job be due, late, and judged again.
*Mirror.* `MaxRuns = 2` gives a run beside a preview and a run after a run; one
edit turns deletion on or the target round; one change takes a file, a folder, a
disk or the host away. The theorems have no bounds, faults or sizes.

Fairness. Each `FairSpec` asks only for what the code or its surroundings give.
*Engine.* The ticker's channel keeps firing (weak, `FireDue`) and
the clock moves (weak). A goroutine started is eventually run, and one that waits
for the mutex eventually gets it: Go's RWMutex does not starve a waiter, so that
a step that is enabled again and again is taken (strong, `RunStep`, `SpawnDue`).
Operations return because their context has a deadline. A request that holds the
mutex goes on (weak, `LockedStep`). Nothing forces clients to send requests,
the daemon to stop or a stopped one to be started again.
*Backup.* An operation goes on (weak, `Step`): each restic process ends, by
itself or by the time limit of the run, which is a `Cancel`. The scheduler starts
the next run when the job is idle (`Start(j, "run")`), a listing ends, and an
outage ends; without the last two a stale lock would rightly stay. The number
of faults is bounded by the constant, so the liveness properties speak of the
time after the last one.
*System.* The goroutine of an operation goes on (weak, `Step`); nothing else.
*Attention.* The keeper's loop goes on (weak, `Look` and `Send`): a round a
minute, each request with a time limit. Jobs, users and dashboards owe nothing.
*Mirror* has no liveness property: an operation ends as in Backup, but the
instance that shows its interleavings is too large for TLC's liveness check.

### Findings

Each is a run in which TLC shows that the code does not do what a comment, the
changelog or the README of the repository says; `PROJECT.json` quotes the lines.

1. `overlap` — Put does not check again that the job exists. A PUT that found
   its job before a DELETE brings it back with Running unset while the cancelled
   run still winds down; a second run starts beside it, and the end of the old
   one removes the cancel func and the flag of the new one (engine.go:218, 423).
2. `stuck` — unlock is reached only after the probe of the repository succeeded
   (backup.go:459-461), and the probe takes a lock itself. A run cancelled or timed
   out while `forget --prune` works leaves an exclusive lock; every later run
   ends with `repo_locked` at its probe and nothing unlocks. A restore or a
   check by hand does, because they begin with unlock.
3. `services` — the deferred start of the services goes through the context of
   the run. A cancel or the time limit during one of the steps leaves every
   stopped service stopped, while the log says they were started again
   (restore.go:162-167).
4. `empty` — with sftp and cloud targets a source folder that is empty at run
   time ends as a green `completed`; the yellow code exists for rsync only
   (mirror.go:407).
5. `inner` — the README (278-281) and localfs.go:1-2 promise that a backup never
   lands in the empty folder of a disk that is not there. mounts.List also offers
   disks and pools that are mounted inside `/DATA` (mounts.go:128, 140). Without
   such a disk the nearest existing folder is on `/DATA`, which is no container
   mount (main.go:56): the check accepts it, and the run fills the system disk
   and ends as `completed` (localfs.go:57).

### Observations

Met while modelling. Most contradict no written promise, or only a vague one; where
one does, the line is named. No run is spent on them: a property that holds, with
the case as its named exception, is checked and proved instead.

Engine and store.
- Running is set in memory only (engine.go:382); jobs.json has the flag only if
  something else saved it meanwhile. New therefore rarely learns of the runs it
  "marks as cancelled", and they leave no trace in the history.
- validate refuses a cron expression that has no date in the next 366 days, but
  looks only when the job is saved (api.go:249). Run, SetEnabled and New ask
  schedule.Next again; when the next February 29th is then years away they get the
  zero time, and NextRunAt is 0 (engine.go:319-323): the job is enabled and
  unarmed, and nobody looks again until it is edited, run by hand, or the daemon
  restarts. `ArmedAsScheduled` therefore promises a next time only to an
  enabled job whose schedule always has one.
- A job paused after fireDue looked at it runs nevertheless (engine.go:170-177).
- Put ignores the error of LoadSecrets (engine.go:212): an edit without a secret
  overwrites a key file that could not be read at the moment.
- If SaveSecrets fails, Put reports the error, but the definition is in the registry
  already and the next save of any job writes it (engine.go:231).
- record and ClearLogs save the history after they gave the lock back
  (engine.go:490, 283): two saves may overtake each other, so that what the user
  cleared, or a lost entry, shows after a restart; and the save of a run that
  was on its way recreates the file of a deleted job.
- settings and settingsLang load, change and save without a lock between
  (api.go:674): the later save wins.

Attention.
- A restore or check that failed, was cancelled or timed out is recorded with a
  plain code and is judged like a failed run of the job (attention.go:33).
- `empty` counts as a success in model.go:35 and as failing here.
- After ClearLogs a healthy job is "overdue" until its next run, and after 200
  entries without a success the card says it never completed (attention.go:23).
- If a card was delivered but its answer lost, and the list then empties, the
  keeper does not know of the card and leaves it; `CardIsWithdrawn` excludes it.
- The job of the first observation is not "overdue" either: attentionFor finds the
  due time zero (attention.go:95) and lists nothing, although "a run was due and
  none happened" (attention.go:18). The same goes for a job that missed its one
  date, once that is the last known success and more than 366 days away from the next.
  `SilenceIsListed` is about schedules without such gaps (`Regular`), and about
  the others while a date is near enough (`Foreseen`).
- A restart schedules every job from now: an interval job on a box that restarts
  more often never runs. `SilenceIsListed` shows that the user is told.

Backup and system.
- `repo_missing`, "internal only; never reaches the UI" by its comment
  (backup.go:497), leaves Restore and Check, and Run when the repository goes after
  the probe (backup.go:135-137); model.go does not declare it and the page has no text
  for it. In `TypeOK` it stands apart from the declared codes, as `Internal`.
- EnsureTarget looks at the target once (backup.go:79). When the disk goes after
  that, the path is a folder of the system disk: `cat config` reports no
  repository, `restic init` makes one there (backup.go:463-491), and the run ends
  as `completed` although nothing is on the disk - what README.md:278-281 says must
  never happen. The next run without the disk is refused, and with it uses the real
  repository; the stray one stays below the mount point. `SuccessHasSnapshot`,
  `NewestGoodKept` and `Copies` name this as their exception (`away`): a run whose
  disk went or came back on the way may report a copy made elsewhere, and its
  retention may work in another repository than its backup did.
- A cancel between two restic commands is reported as `failed`, not `cancelled`.
- A run whose sources were all empty applies retention; the newest snapshot kept
  is then the empty one, after the last one with files may have been pruned.
- The prune of one job makes the other's run fail with `repo_locked`.
- Two system jobs share one staging directory (runner.go:41): beside each other,
  the snapshot of one carries the manifest of the other. The theorems about
  snapshots are therefore about behaviours in which no two system jobs back up at
  the same time (`RunsAlone`). Two plan requests share a scratch
  directory in the same way.
- After an error in steps 2 to 5 of Apply containers stay stopped. If `docker ps`
  fails, the box is taken for one without containers. A cancel before step 2
  still overwrites /etc. A cancel in step 6 still reports `system_restored`.
  A cancel during step 2 leaves the read-only root mounted.

Mirror and targets.
- Between EnsureTarget's check and MkdirAll, or the start of rsync, the disk may go;
  the copy then lands on the system disk, which the repository's README
  (280-283) says must never happen. `WritesHome` allows exactly this window and
  shows that the folder left behind does not admit the *next* run.
- An emptied source with deletion switched on empties the copy; rsync then says `empty`.
- rclone reports a missing source folder as `target_unavailable`.
- Two jobs may name the same target folder; nothing checks that their sources
  have different names.
- Two first uses of the ssh key: one of the runs fails. A daemon killed between the
  halves of the key pair leaves a key that no run accepts and none replaces.
- A preview "creates nothing" (mirror.go:135), but writes, changes and removes a probe
  file in the target or the nearest folder above it (mirror.go:148, 255-277), as a run
  does. Killed in between, or over a disk that goes in between, it leaves it there.
  `PreviewTouchesNothing` allows these two cases and no other.
- A run that is cancelled, or at its time limit, while Explain asks gets every answer
  as a failure: the result is `target_unavailable` and says that Tailscale is
  down or the machine does not answer (localfs.go:101, netpath.go:140-146, 250).
  The same when one answer takes longer than its 3 or 5 seconds. And Tailscale's
  word "offline" is passed on without a call (netpath.go:229).
- Addresses in 100.64.0.0/10 that are not Tailscale's, and a name of one's own for a
  peer, which findPeer does not know (netpath.go:104-118), make netpath say
  that Tailscale is down or that the machine is not in this box's network.
  `NeverMisled` has these and the late answers as `Excused`, and shows there are no others.
- findPeer's match of a short MagicDNS name cannot happen in a run: a share is only
  recognised when its host carries a dot (localfs.go:77-85).

## 4. What is proved

The proofs are about the `Spec` of each module, for any sets of jobs, goroutines,
requests, services, databases, folders, disks and worlds, any faults and any
bounds. They use the assumptions on the constants in the modules and nothing
else, besides what the table names.

| Theorem | Assumes | Says |
|---|---|---|
| `EngineProofs!TypeCorrect` | — | `[]TypeOK` |
| `RunsCorrect`, `RunsNeverOverlap`, `RunningIsReachable` | `NoPutRevives` | `[]RunsInv`, `[]NoOverlap`, `[]RunningMeansARun` |
| `EngineImplementsJobRuns` | `NoPutRevives` | `ImplementsJobRuns` |
| `CarefulClients` | `NoPutRacesDelete` | `NoPutRevives` |
| `LockCorrect` | — | `[]LockInv` |
| `KeysCorrect`, `KeysNeverOlder` | `NoFileErrors` | `[]KeysInv`, `[]KeyNotOlderThanJob` |
| `EditsAreDurable` | no write errors | `[]RegistryIsDurable` |
| `DeletedIsFinal` | `NoPutRevives` | `[]DeletedStaysDeleted`, whatever fails |
| `TimersArmed` | — | `[]ArmedAsScheduled` |
| `OutputIsOfOneRun` | `NoPutRevives` | `[]OutputOfOneRun` |
| `SecretsAreFresh` | `NoPutRevives`, `NoFileErrors` | `[]NoStaleSecret` |
| `BackupProofs!TypeCorrect` | — | `[]TypeOK` |
| `PrunesAlone`, `CancelledIsStopped`, `SuccessIsThere` | — | `[]PruneIsAlone`, `[]CancelledMeansStopped`, `[]SuccessHasSnapshot` |
| `GoodIsKept` | — | `NewestGoodKept` |
| `RunnerImplementsCopies` | — | `ImplementsCopies` |
| `SystemProofs!TypeCorrect`, `ModuleIsKept` | — | `[]TypeOK`, `[]ModuleKept` |
| `VersionIsGuarded`, `ServicesRestart` | — | `VersionGuard`, `EndedRestoreRestarts` |
| `SnapshotsDescribeThemselves`, `SuccessfulRestoreIsWhole` | `RunsAlone` | `[]SnapshotIsOfItsRun`, `[]SuccessIsWhole` |
| `OneJobRunsAlone` | `OneSystemJob` | `RunsAlone` |
| `AttentionProofs!TypeCorrect`, `FailuresAreListed`, `SilenceIsAlwaysListed` | — | `[]TypeOK`, `[]FailureIsListed`, `[]SilenceIsListed` |
| `TargetsProofs!AcceptedLiesOnADisk` | a mount table | an accepted path has a mount above it that is no container mount |
| `OfferedIsTaken` | a mount table, `ContainersApart` | what is offered is accepted |
| `ReasonsAreSo` | `Sensible` worlds | the reason netpath gives holds, or is excused |
| `MirrorTypes` | — | `[]TypeOK` |
| `MirroredStays`, `KeyIsForLife` | — | `[]KeptIsThere`, `[]OneKey` |
| `PreviewsTouchNothing`, `CancelledIsHonest` | — | `PreviewTouchesNothing`, `CancelIsHonest` |
| `OfferedRunsAccept`, `ReasonsNeverMislead` | — | `[]OfferedIsAccepted`, `[]NeverMisled` |
| `RunsWriteHome` | `OneDiskAbove` | `[]WritesHome` |

What is assumed about behaviours is what the findings show to be necessary, and
no more.

- `NoPutRevives`: no PUT that found its job is applied after the job was deleted.
  This is the step of finding 1, and only this: requests may race otherwise. The
  code does not ensure it. `CarefulClients` shows which clients do: those that send
  one request at a time, or no PUT, or no DELETE (`NoPutRacesDelete`).
- `NoFileErrors`: needed because Put ignores errors of the key file (observations).
- `Sensible`: only Tailscale gives the names it gives, and without it nobody vouches
  for a machine. `Worlds` holds nothing else (`WorldsAssumption`).
- `RunsAlone`: no two system jobs back up at the same time, because of the shared
  staging directory. It holds on a box with one system job (`OneJobRunsAlone`);
  restores may go on beside a backup.
- `OneDiskAbove`: no disk is mounted inside `/DATA` or inside another disk, as far
  as the targets of the jobs lie on it. Finding 5 shows what happens otherwise.

*No overlap.* `NoOverlap` is not inductive. A second run is turned away because
the job is marked running, so `RunIsMarked` is needed: while a goroutine holds an
existing job, its flag is set. Delete removes the job while its run goes on;
the flag would be missing if the same id came back, so `FreshIds` says that ids
of new jobs are unknown to every goroutine, and `NoPutRevives` that an edit finds
its job. `RunningMeansARun` rides along: Finish clears the entry of its own id,
and by `NoOverlap` no other run can own it. `RunsFrame` handles at once all steps
that change none of this; each other action has its lemma. For careful clients a
PUT under way still finds its job (`PutFindsJob`), because no DELETE comes between.

*Files.* `FileSteps` sorts the steps: those that write no key and jobs.json only
as a whole (`Harmless`), Restart, and the steps of Put and Delete. `LockInv` says
that a request between two file operations holds the mutex, and that a Delete
that has got beyond jobs.json has taken the job out of the registry and the file.
The key file is never behind the registry (`KeyNotOlderThanMemory`), and jobs.json has
only what the registry had: so it is never behind jobs.json. jobs.json is behind
the registry only inside a Put (`DurableInv`). An id that was deleted has been
handed out before, so no POST gets it again, and no PUT is applied to it (`DeletedInv`).

*Runs.* A run begins with an empty output and is the only writer while it holds
the job (`OutputInv`, with `NoOverlap`). A run that has not yet loaded its secret
finds a key file at least as new as its definition (`KeyAhead`); only Delete
makes a key older, and it has reached the run before: a run whose job is gone
has been cancelled (`Orphans`, by `RunIsMarked` and `RunningMeansARun`).

*Refinement of JobRuns.* `working[j]` is the set of goroutines that hold j.
ExecuteStarts is Begin (nobody holds the job, by `RunIsMarked`), Finish is End,
Restart is Die, and every other step leaves the sets alone.

*Timers.* `ArmedAsScheduled` is inductive (`ArmedStep`): a step that changes a
job's definition or its Running flag, or loads it, reschedules it
(`RescheduledIsArmed`, `LoadedIsArmed`), and only `Calendar` moves the date: it makes
due the jobs that wait for it in the step in which it is over.

*Backup.* A process at work holds its own live lock (`Held`), so nobody gets past
`Refusal` beside an exclusive one, and unlock takes only locks whose process is
gone (`LockInv`). A result is `cancelled` only under a dead context
(`StoppedInv`). A run works on the system disk, or its disk is gone, only if the disk
went since its check (`AwayInv`). The snapshot that is about to be pruned for, and
the one a result names, is the newest of its job at the job's place, or at the
place the run was led astray to (`SnapInv`): forget removes only what has a newer
one of the same tag at the same place. A good snapshot goes only if a newer one
stays there, or by the retention of a run whose disk went or came back in between
(`GoodStep`). For the refinement, `good[j]` is the newest good snapshot at home,
`told[j]` the one reported and `astray[j]` a report of one elsewhere. `Start` is
Forget, a backup that saves a good snapshot at home is Copy (and Tell, if it is the
end), the end of a prune is Tell or, under `away`, Stray, and every other step is an
Outage or a stutter.

*System.* `Agrees`, a part of `TypeOK`, ties a job's step to its operation,
snapshot and plan. Only one job restores (`OneRestorer`), so only its steps touch
the box. Past MakePlan an unforced restore's snapshot has the running version
(`Guarded`); after Apply each service is active or still to be started, unless
the run was cancelled (`Restarted`). What a run has listed is its own copy and
the manifest it wrote stays (`Collecting`, `StagingInv`). `Behind` names, for each
step of Apply, the areas that are dealt with by then; `Progress` says that they are
the snapshot's, or untouched if it lacks them (`Spared`), and
follows the databases through steps 3 and 4 (`WholeInv`).

*Attention.* The newest run entry of a history is the last run's, and no entry
tells of a success later than the last success: cutting, clearing and losing keep
both, because they take a whole history or its oldest entries. A job whose schedule is regular, or has a date
within a year of what the history shows (`Foreseen`), has a next time, and it is the
first after the success the history shows, which is no later than the real one
(`EarliestIs`, `NextRunIsFirst`): so what is overdue is late.

*Targets.* The folders above a path are its beginnings, ordered by length
(`AboveIs`, `AboveOrder`); of any set of them one is deepest and one highest
(`DeepestIs`, `HighestExists`, from the well-foundedness of the naturals). From it:
the device of a folder is that of the mount closest above it (`DeviceIs`), a device
changes only where something is mounted (`DeviceChanges`), so localfs' walk up to
the device boundary ends at a mount, and all folders from there down are on its
device (`MountPointDevice`). A volume that is offered is no container mount nor above one,
and on another device than the containers above it, so the walk from a folder on it
does not end at a container mount. `ReasonsAreSo` splits Explain by the answers it can give: each must hold in the world,
of which Explain saw only `Found`, or be one of the excused; a machine that answers
is found to (`CallsIfItCan`).

*Mirror.* `Shape` has the fields of the two processes. `KeptInv` says that the
history variables tell what is so (`HistoryInv`), and what the run has read and
copied (`RunInv`, `ToolInv`): its list was read when what is kept was in the source,
so that neither its deletions nor those for another folder take it away - no two
folders of a job have one name in the target (`NamesDiffer`), and only because of
that. `KeyInv`: a key that is there is not made again. `PreviewInv`: a preview never
gets to `mkdir` and has nothing to copy. `DiskInv`: what is always mounted is, nothing else
is mounted than the lines that may be, and the root folder of each exists on its
device; with it `OfferedIsTaken` applies in every state. `HomeInv` is about where a run writes: past
its check everything that may be mounted above the target is mounted, or went
after the check, and a tool works on the disk its job names, or that disk went.
`AcceptedIsThere` is the step that counts: whatever earlier races left in the folder
below a container mount, an accepted path has a mount above it that is none
(`AcceptedLiesOnADisk`), and with `OneDiskAbove` that mount is the only one missing
there could be.
`ProbeInv` says whose the probe files are: a process that made one is about to remove
it, and no two share one; so one stays behind only if its disk went, or in `Kill`.
`ReasonsNeverMislead` needs no invariant besides `ReasonsAreSo`: the reason is made
in the step that refuses, and none of the verdicts of a live or a dead context is
wrong (`NothingWrong`). The assumptions `JobsAssumption`, `MountsAssumption`,
`ContainersAssumption` and `WorldsAssumption` say what the constants are: jobs that
pass validation, mount tables without two lines at one place, the container
mounts of main.go on the system disk, sensible worlds.

Only model-checked: the liveness properties `DueIsServed`, `RunEnds`,
`SharedLeftoverCleared`, `OperationEnds`, `RestoreEnds`, `TroubleIsShown` and
`CardIsWithdrawn`. TLAPS has no rules for ENABLED, so nothing that follows from
fairness can be proved with it. Every invariant and every action property that a
passing run checks is the statement of a theorem. Induction over recursive data
is out of the prover's reach too; the models have none.

## 5. Plan

What would be next, in this order.

1. `Store`: writeJSONAtomic as temp file and rename with a crash in between,
   shown to implement the atomic files `Engine` uses; the lost update of settings.
2. `Schedule`: Next against the earliest matching minute of a small calendar,
   daylight saving included (vendored, but every timer rests on it).
3. Two system jobs, with the observations on the staging directory as a run, and
   PlanFor as an action.
4. Excludes of a mirror: what rsync and rclone protect from deletion with them.
5. Proofs: the same for `Store` and `Schedule` once they are modelled.

## 6. Not modelled

Progress and transfer figures, notifications, formatting, and the parsing of tool
output (no property is about them); discovery (it lists, and changes nothing);
the vendored auth, gateway, httpx, notify and schedule libraries (of schedule, only
what its callers rest on: `HasNext`, `NextRun`); the web page. Of
the API: log-in, browsing of folders, settings, and discovery. Of the mirror:
excludes, owners and modes, the listing a preview shows. PlanFor fills and reads a
folder of its own and is not an action of `System`. The temp file below an atomic
write is not modelled. The two races on Go memory that the API's serialising of a
job just put into the registry may make with the engine are not modelled either:
they can only garble the answer.
