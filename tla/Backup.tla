------------------------------- MODULE Backup -------------------------------
(***************************************************************************)
(* The backup runner: jobs that share one restic repository.  An operation *)
(* of a job is a sequence of restic processes, each of which takes a lock  *)
(* in the repository.  A cancelled context kills the process of the moment *)
(* and leaves its lock behind; the target may go away at any moment.       *)
(*                                                                         *)
(* A job may reach the target as a folder on a mounted disk.  While the    *)
(* disk is not there the same path is an empty folder of the system disk,  *)
(* and restic takes it for a place like any other: it finds no repository  *)
(* there, or the one an earlier run has made there.                        *)
(*                                                                         *)
(* restic itself is external: which command takes which lock, what prune   *)
(* may remove and which exit status a failure has are modelled from how    *)
(* backup.go and its tests use it.                                         *)
(***************************************************************************)
EXTENDS Naturals, FiniteSets

CONSTANTS
    Jobs,          \* jobs whose target is this repository
    Local,         \* those that reach it as a folder on a mounted disk
    Pruning,       \* those with a retention rule
    Requests,      \* the operations asked for: pairs of a job and an operation
    Passphrases,   \* the passphrases users chose
    pass,          \* pass[j]: the passphrase of job j
    yields,        \* yields[j]: the kinds of snapshots j's sources may give
    Failures,      \* the unnamed ways restic may fail (subset of DOMAIN Explain)
    None,          \* "no repository", "no operation", "no result"
    MaxSnapshots,  \* bound: snapshots ever written
    MaxFaults      \* bound: cancels, deadlines and outages

Operations == {"run", "restore", "check"}
Kinds      == {"complete", "incomplete", "empty"}

\* What explain makes of a restic exit.  Named exits first; the rest is
\* told apart by the text on stderr.
Explain ==
    [missing     |-> "repo_missing",      locked   |-> "repo_locked",
     password    |-> "passphrase_wrong",  http500  |-> "repo_unreadable",
     auth        |-> "target_auth",       share    |-> "target_share_missing",
     unreachable |-> "target_unavailable", other   |-> "failed"]

\* What exec makes of the way a process ended.  restic's own exits count
\* before a cancel only if they are clean; errors about owners and modes
\* alone do not make a restore fail.
Verdict(exit, stopped) ==
    IF exit = "done" THEN "ok"
    ELSE IF stopped THEN "cancelled"
    ELSE IF exit = "attributes" THEN "ok"
    ELSE IF exit = "unread" THEN "source_unread"
    ELSE Explain[exit]

\* The result codes the UI knows (model.go); this runner uses some of them.
Declared ==
    {"completed", "empty", "failed", "partial", "incomplete", "timeout", "skipped_running",
     "target_unavailable", "target_auth", "target_share_missing", "repo_unreadable",
     "runner_missing", "cancelled", "passphrase_wrong", "repo_locked", "restored", "check_ok",
     "check_failed", "system_restored", "version_mismatch"}

\* What backup.go keeps to itself - and exec's callers hand out all the same.
Internal == {"repo_missing"}

Codes == Declared \cup Internal

ASSUME BackupAssumption ==
    /\ pass \in [Jobs -> Passphrases]
    /\ yields \in [Jobs -> SUBSET Kinds]
    /\ Local \subseteq Jobs
    /\ Pruning \subseteq Jobs
    /\ Requests \subseteq Jobs \X Operations
    /\ Failures \subseteq DOMAIN Explain
    /\ MaxSnapshots \in Nat
    /\ MaxFaults \in Nat
    /\ None \notin Passphrases /\ None \notin Operations /\ None \notin {"home", "system"}
    /\ None \notin [code : Codes, id : Nat]
    /\ "reader" \notin Jobs

\* The target, and the folder of the system disk below its mount point.
Places == {"home", "system"}

VARIABLES
    up,        \* the target answers (a disk: it is mounted)
    key,       \* key[at]: the passphrase the repository there was created with, or None
    snaps,     \* the snapshots: [id, job, kind, at], numbered in the order written
    lastId,    \* how many were ever written
    locks,     \* the lock files: [proc, exclusive, live, at]
    op, pc,    \* op[j]: the operation of j; pc[j]: its next or running step
    site,      \* site[j]: where j's running process works, None if none runs
    dead,      \* dead[j]: the context of j's operation is cancelled
    work,      \* work[j]: the snapshot j's operation wrote or restores, NoSnap before
    away,      \* away[j]: j's disk has gone since its last operation began (history variable)
    result,    \* result[j]: the last operation's [code, id], None while one goes on
    reading,   \* where a request lists snapshots or browses one, None if none does
    faults     \* how many faults there were

repository == <<key, snaps, lastId, locks>>
jobVars    == <<op, pc, site, dead, work, away, result>>
vars       == <<up, key, snaps, lastId, locks, op, pc, site, dead, work, away, result, reading,
                faults>>

NoSnap == [id |-> 0, kind |-> "complete"]

-----------------------------------------------------------------------------
(* Places and locks *)

\* Where a command of j that starts now will look for the repository.
Where(j) == IF j \in Local /\ ~up THEN "system" ELSE "home"

\* Nobody answers.  A path always does.
Unreachable(j) == j \notin Local /\ ~up

\* A process that began there still finds its files: the disk has not gone
\* from above it, nor come back over it.
There(at) == IF at = "home" THEN up ELSE ~up

Exclusive == {"forgetting", "checking"}
Running   == {"probing", "backing_up", "forgetting", "restoring", "checking"}

Lock(p, step, place) ==
    [proc |-> p, exclusive |-> step \in Exclusive, live |-> TRUE, at |-> place]

\* restic refuses to work beside a lock that excludes it, stale or not.
Blocked(step, place) == \E l \in locks : l.at = place /\ (l.exclusive \/ step \in Exclusive)

Released(p) == {l \in locks : ~(l.proc = p /\ l.live)}

\* What a killed process leaves.
Abandoned(p) == {[l EXCEPT !.live = l.live /\ l.proc # p] : l \in locks}

\* A process that ends by itself removes its lock, if it can reach it.
Dropped(p, place) == IF There(place) THEN Released(p) ELSE Abandoned(p)

\* Slips: unlock with --remove-all; unlock that removes nothing.
SlipRemoveAll(place) == {}
SlipLeavesStale(place) == locks

\* restic unlock removes the locks of processes that are gone.
Unlocked(place) == {l \in locks : l.live \/ l.at # place}

-----------------------------------------------------------------------------
(* Steps of an operation *)

\* The exit of a command that cannot begin its work, "ok" if it can.
Refusal(j, step) ==
    IF Unreachable(j) THEN "unreachable"
    ELSE IF key[Where(j)] = None THEN "missing"
    ELSE IF pass[j] # key[Where(j)] THEN "password"
    ELSE IF Blocked(step, Where(j)) THEN "locked"
    ELSE "ok"

\* One of the things that go wrong only so often.
Mishap == faults < MaxFaults /\ faults' = faults + 1

\* A process works where its command found the repository when it began.
Goto(j, step) ==
    /\ pc' = [pc EXCEPT ![j] = step]
    /\ site' = [site EXCEPT ![j] = IF step \in Running THEN Where(j) ELSE None]

Finish(j, code, id) ==
    /\ Goto(j, "idle")
    /\ op' = [op EXCEPT ![j] = None]
    /\ work' = [work EXCEPT ![j] = NoSnap]
    /\ result' = [result EXCEPT ![j] = [code |-> code, id |-> id]]

Continue(j, step) == Goto(j, step) /\ UNCHANGED <<op, work, result>>

\* A command runs: it holds its lock from here on.
Launch(j, step) ==
    /\ Refusal(j, step) = "ok"
    /\ locks' = locks \cup {Lock(j, step, Where(j))}
    /\ Continue(j, step)

\* Slip: the error of Start is dropped.
SlipStartIgnored(j) == dead[j] /\ Continue(j, pc[j])

\* exec could not start the process because the context is already dead.
NotStarted(j) == dead[j] /\ Finish(j, "failed", 0)

\* The command ended without doing its work.
Fails(j, step) ==
    /\ Refusal(j, step) # "ok"
    /\ Finish(j, Explain[Refusal(j, step)], 0)

\* The context died while a command ran: its process group is killed.
Killed(j) ==
    /\ dead[j]
    /\ locks' = Abandoned(j)

\* The running command exits with a failure it names.
Breaks(j) ==
    /\ locks' = Dropped(j, site[j])
    /\ \E e \in Failures \cup (IF There(site[j]) THEN {} ELSE {"unreachable"}) :
          Finish(j, Verdict(e, dead[j]), 0)

-----------------------------------------------------------------------------
Init ==
    /\ up \in BOOLEAN
    /\ key \in [Places -> Passphrases \cup {None}]
    /\ key["system"] = None
    /\ snaps = {}
    /\ lastId = 0
    /\ locks = {}
    /\ op = [j \in Jobs |-> None]
    /\ pc = [j \in Jobs |-> "idle"]
    /\ site = [j \in Jobs |-> None]
    /\ dead = [j \in Jobs |-> FALSE]
    /\ work = [j \in Jobs |-> NoSnap]
    /\ away = [j \in Jobs |-> FALSE]
    /\ result = [j \in Jobs |-> None]
    /\ reading = None
    /\ faults = 0

\* The engine starts an operation; it never starts two of one job.
Start(j, o) ==
    /\ <<j, o>> \in Requests
    /\ op[j] = None
    /\ op' = [op EXCEPT ![j] = o]
    /\ Goto(j, "prepare")
    /\ dead' = [dead EXCEPT ![j] = FALSE]
    /\ \/ o # "restore" /\ UNCHANGED work
       \/ /\ o = "restore"
          /\ \E s \in snaps : s.job = j /\ work' = [work EXCEPT ![j] = [id |-> s.id, kind |-> s.kind]]
    /\ away' = [away EXCEPT ![j] = FALSE]
    /\ result' = [result EXCEPT ![j] = None]
    /\ UNCHANGED <<up, repository, reading, faults>>

\* Slip: the target is not looked at.
SlipUnchecked(j) == FALSE

Unmounted(j) == op[j] = "run" /\ j \in Local /\ ~up

\* The target of a local job must be there (only a run asks), and the
\* environment needs a passphrase, a key pair or an obscured password.
Prepare(j) ==
    /\ pc[j] = "prepare"
    /\ \/ Unmounted(j) /\ Finish(j, "target_unavailable", 0) /\ UNCHANGED faults
       \/ Mishap /\ Finish(j, "failed", 0)
       \/ /\ ~Unmounted(j)
          /\ Continue(j, IF op[j] = "run" THEN "probe" ELSE "unlock")
          /\ UNCHANGED faults
    /\ away' = [away EXCEPT ![j] = FALSE]
    /\ UNCHANGED <<up, repository, dead, reading>>

\* ensureRepo asks for the repository's config.
Probe(j) ==
    /\ pc[j] = "probe"
    /\ \/ dead[j] /\ Finish(j, "cancelled", 0) /\ UNCHANGED locks
       \/ ~dead[j] /\ Launch(j, "probing")
       \/ /\ ~dead[j] /\ UNCHANGED locks
          /\ IF Refusal(j, "probing") = "missing" THEN Continue(j, "init")
             ELSE Fails(j, "probing")
    /\ UNCHANGED <<up, key, snaps, lastId, dead, away, reading, faults>>

ProbeExits(j) ==
    /\ pc[j] = "probing"
    /\ \/ /\ There(site[j]) /\ UNCHANGED faults
          /\ locks' = Released(j) /\ Continue(j, "unlock")
       \/ Killed(j) /\ Finish(j, "cancelled", 0) /\ UNCHANGED faults
       \/ ~There(site[j]) /\ Breaks(j) /\ UNCHANGED faults
       \/ There(site[j]) /\ Breaks(j) /\ Mishap
    /\ UNCHANGED <<up, key, snaps, lastId, dead, away, reading>>

\* Slip: every context error is taken for a cancel.
SlipDeadlineIsCancel(j) == "cancelled"

TooSlow(j) == IF dead[j] THEN "cancelled" ELSE "repo_unreadable"

\* The probe has a deadline of its own, which is not a cancel of the user.
ProbeDeadline(j) ==
    /\ pc[j] = "probing" \/ (pc[j] = "probe" /\ Unreachable(j) /\ ~dead[j])
    /\ Mishap
    /\ locks' = Abandoned(j)
    /\ Finish(j, TooSlow(j), 0)
    /\ UNCHANGED <<up, key, snaps, lastId, dead, away, reading>>

\* restic unlock, best effort; a restore and a check begin with it.
Unlock(j) ==
    /\ pc[j] = "unlock"
    /\ locks' = IF ~Unreachable(j) /\ key[Where(j)] = pass[j] /\ ~dead[j]
                THEN Unlocked(Where(j)) ELSE locks
    /\ Continue(j, IF op[j] = "run" THEN "backup" ELSE op[j])
    /\ UNCHANGED <<up, key, snaps, lastId, dead, away, reading, faults>>

\* restic init, killed half way, may have made the repository or not.
Creates(j) == key[Where(j)] = None /\ key' = [key EXCEPT ![Where(j)] = pass[j]]

\* Where the probe found no repository the first run creates one: another
\* job may be faster, init may fail in all the ways restic has - and the
\* place may be the system disk, if the job's disk went after Prepare.
InitRepo(j) ==
    /\ pc[j] = "init"
    /\ \/ /\ dead[j] /\ Finish(j, "cancelled", 0)
          /\ \/ ~Unreachable(j) /\ Creates(j)
             \/ UNCHANGED key
       \/ ~dead[j] /\ Unreachable(j) /\ Finish(j, "target_unavailable", 0) /\ UNCHANGED key
       \/ ~dead[j] /\ ~Unreachable(j) /\ Creates(j) /\ Continue(j, "backup")
       \/ /\ ~dead[j] /\ ~Unreachable(j) /\ UNCHANGED key
          /\ \/ key[Where(j)] # None /\ Finish(j, "failed", 0)
             \/ \E e \in Failures : Finish(j, Explain[e], 0)
    /\ UNCHANGED <<up, snaps, lastId, locks, dead, away, reading, faults>>

BackUp(j) ==
    /\ pc[j] = "backup"
    /\ \/ NotStarted(j) /\ UNCHANGED locks
       \/ ~dead[j] /\ Launch(j, "backing_up")
       \/ ~dead[j] /\ Fails(j, "backing_up") /\ UNCHANGED locks
    /\ UNCHANGED <<up, key, snaps, lastId, dead, away, reading, faults>>

\* restic saves the snapshot before it exits.
Saves(j, kind) ==
    /\ There(site[j])
    /\ lastId < MaxSnapshots
    /\ lastId' = lastId + 1
    /\ snaps' = snaps \cup {[id |-> lastId + 1, job |-> j, kind |-> kind, at |-> site[j]]}

SavesNothing == UNCHANGED <<snaps, lastId>>

\* Slips: pruning after every run; success for every snapshot; the
\* internal verdict handed out as the code.
SlipAlwaysPrunes(j, kind) == j \in Pruning
SlipAlwaysCompleted(kind) == "completed"
SlipInternalCode(verdict) == verdict

\* An incomplete run does not prune: what it could not read may only be in
\* older snapshots.
Retains(j, kind) == j \in Pruning /\ kind # "incomplete"

\* The code of a run that has its summary.
Code(kind) == IF kind = "complete" THEN "completed" ELSE kind

\* The summary names the snapshot; retention comes next, if there is any.
Summarised(j, kind) ==
    IF ~Retains(j, kind) THEN Finish(j, Code(kind), lastId + 1)
    ELSE /\ Goto(j, "forget")
         /\ work' = [work EXCEPT ![j] = [id |-> lastId + 1, kind |-> kind]]
         /\ UNCHANGED <<op, result>>

\* The code of a run without a summary, or with one that does not count.
Unsummarised(verdict) == IF verdict = "cancelled" THEN "cancelled" ELSE "failed"

BackupExits(j) ==
    /\ pc[j] = "backing_up"
    /\ \/ \E kind \in yields[j], exit \in {"done", "attributes", "unread"}, summary \in BOOLEAN :
             LET verdict == Verdict(exit, dead[j]) IN
             /\ kind = "incomplete" <=> exit = "unread"
             /\ Saves(j, kind) /\ locks' = Released(j)
             /\ IF summary /\ verdict # "cancelled" THEN Summarised(j, kind)
                ELSE Finish(j, Unsummarised(verdict), 0)
       \/ /\ Killed(j) /\ Finish(j, "cancelled", 0)
          /\ SavesNothing \/ \E kind \in yields[j] : Saves(j, kind)
       \/ Breaks(j) /\ SavesNothing
    /\ UNCHANGED <<up, key, dead, away, reading, faults>>

\* forget --prune --tag; whatever becomes of it, the run was a success.
Forget(j) ==
    /\ pc[j] = "forget"
    /\ \/ ~dead[j] /\ Launch(j, "forgetting")
       \/ /\ dead[j] \/ Refusal(j, "forgetting") # "ok"
          /\ Finish(j, Code(work[j].kind), work[j].id) /\ UNCHANGED locks
    /\ UNCHANGED <<up, key, snaps, lastId, dead, away, reading, faults>>

\* Every rule keeps the newest snapshot of the tag; of the older ones any
\* may go, also when the process is stopped half way.
Older(j) ==
    {s \in snaps : /\ s.job = j /\ s.at = site[j]
                   /\ \E t \in snaps : t.job = j /\ t.at = site[j] /\ t.id > s.id}

ForgetExits(j) ==
    /\ pc[j] = "forgetting"
    /\ \E gone \in SUBSET Older(j) : snaps' = snaps \ gone
    /\ locks' = Dropped(j, site[j]) \/ Killed(j)
    /\ Finish(j, Code(work[j].kind), work[j].id)
    /\ UNCHANGED <<up, key, lastId, dead, away, reading, faults>>

RestoreStarts(j) ==
    /\ pc[j] = "restore"
    /\ \/ NotStarted(j) /\ UNCHANGED locks
       \/ ~dead[j] /\ Launch(j, "restoring")
       \/ ~dead[j] /\ Fails(j, "restoring") /\ UNCHANGED locks
    /\ UNCHANGED <<up, key, snaps, lastId, dead, away, reading, faults>>

RestoreExits(j) ==
    /\ pc[j] = "restoring"
    /\ \/ /\ There(site[j]) /\ locks' = Released(j)
          /\ \E exit \in {"done", "attributes"} :
                /\ Verdict(exit, dead[j]) = "ok"
                /\ \E s \in snaps : s.id = work[j].id /\ s.at = site[j]
                /\ Finish(j, "restored", work[j].id)
       \/ Killed(j) /\ Finish(j, "cancelled", 0)
       \/ Breaks(j)
    /\ UNCHANGED <<up, key, snaps, lastId, dead, away, reading, faults>>

CheckStarts(j) ==
    /\ pc[j] = "check"
    /\ \/ NotStarted(j) /\ UNCHANGED locks
       \/ ~dead[j] /\ Launch(j, "checking")
       \/ ~dead[j] /\ Fails(j, "checking") /\ UNCHANGED locks
    /\ UNCHANGED <<up, key, snaps, lastId, dead, away, reading, faults>>

CheckExits(j) ==
    /\ pc[j] = "checking"
    /\ \/ /\ There(site[j]) /\ locks' = Released(j)
          /\ \E code \in {"check_ok", "check_failed"} : Finish(j, code, 0)
       \/ Killed(j) /\ Finish(j, "cancelled", 0)
       \/ Breaks(j)
    /\ UNCHANGED <<up, key, snaps, lastId, dead, away, reading, faults>>

-----------------------------------------------------------------------------
(* Around the operations *)

\* Snapshots or List for the browser, outside the engine.
Browse(j) ==
    /\ reading = None
    /\ Refusal(j, "reading") = "ok"
    /\ reading' = Where(j)
    /\ locks' = locks \cup {Lock("reader", "reading", Where(j))}
    /\ UNCHANGED <<up, key, snaps, lastId, jobVars, faults>>

BrowseExits ==
    /\ reading # None
    /\ reading' = None
    /\ locks' = Dropped("reader", reading)
    /\ UNCHANGED <<up, key, snaps, lastId, jobVars, faults>>

\* The browser goes away: the request's context kills the process.
BrowserLeaves ==
    /\ reading # None
    /\ Mishap
    /\ reading' = None
    /\ locks' = Abandoned("reader")
    /\ UNCHANGED <<up, key, snaps, lastId, jobVars>>

\* The user's stop, a delete of the job, or its time limit.
Cancel(j) ==
    /\ op[j] # None /\ ~dead[j]
    /\ Mishap
    /\ dead' = [dead EXCEPT ![j] = TRUE]
    /\ UNCHANGED <<up, repository, op, pc, site, work, away, result, reading>>

TargetGoes ==
    /\ up
    /\ Mishap
    /\ up' = FALSE
    /\ away' = [j \in Jobs |-> away[j] \/ (j \in Local /\ op[j] # None)]
    /\ UNCHANGED <<repository, op, pc, site, dead, work, result, reading>>

TargetReturns ==
    /\ ~up
    /\ up' = TRUE
    /\ UNCHANGED <<repository, jobVars, reading, faults>>

Step(j) ==
    \/ Prepare(j) \/ Probe(j) \/ ProbeExits(j) \/ Unlock(j) \/ InitRepo(j)
    \/ BackUp(j) \/ BackupExits(j) \/ Forget(j) \/ ForgetExits(j)
    \/ RestoreStarts(j) \/ RestoreExits(j) \/ CheckStarts(j) \/ CheckExits(j)

Next ==
    \/ \E j \in Jobs : Step(j) \/ ProbeDeadline(j) \/ Cancel(j) \/ Browse(j)
    \/ \E j \in Jobs, o \in Operations : Start(j, o)
    \/ BrowseExits \/ BrowserLeaves \/ TargetGoes \/ TargetReturns

Spec == Init /\ [][Next]_vars

\* The scheduler keeps starting runs, restic processes end (a hanging one is
\* cancelled by the time limit), and an outage ends.
Fairness ==
    /\ \A j \in Jobs : WF_vars(Step(j)) /\ WF_vars(Start(j, "run"))
    /\ WF_vars(BrowseExits)
    /\ WF_vars(TargetReturns)

FairSpec == Spec /\ Fairness

-----------------------------------------------------------------------------
(* Properties *)

Locks == [proc : Jobs \cup {"reader"}, exclusive : BOOLEAN, live : BOOLEAN, at : Places]
Steps == {"idle", "prepare", "probe", "init", "unlock", "backup", "forget", "restore", "check"} \cup Running

\* Types; the snapshots written are numbered 1, 2, ...; a result has a code
\* the UI knows, or the one that is meant to stay inside.
TypeOK ==
    /\ up \in BOOLEAN
    /\ key \in [Places -> Passphrases \cup {None}]
    /\ lastId \in Nat
    /\ snaps \in SUBSET [id : 1 .. lastId, job : Jobs, kind : Kinds, at : Places]
    /\ locks \in SUBSET Locks
    /\ op \in [Jobs -> Operations \cup {None}]
    /\ pc \in [Jobs -> Steps]
    /\ site \in [Jobs -> Places \cup {None}]
    /\ dead \in [Jobs -> BOOLEAN]
    /\ work \in [Jobs -> [id : 0 .. lastId, kind : Kinds]]
    /\ away \in [Jobs -> BOOLEAN]
    /\ result \in [Jobs -> [code : Codes, id : 0 .. lastId] \cup {None}]
    /\ reading \in Places \cup {None}
    /\ faults \in Nat

\* Nobody reads or writes a repository while a prune or a check has it to
\* itself: unlock (run before every operation, also beside another job's)
\* never takes the lock of a living process away (backup.go, unlock).
PruneIsAlone ==
    \A i, j \in Jobs : pc[i] \in Exclusive =>
        /\ i # j /\ pc[j] \in Running => site[j] # site[i]
        /\ reading # site[i]

Succeeded(j) == result[j] # None /\ result[j].code \in {"completed", "empty"}

\* A finished run that says success names a snapshot that is the job's, is
\* not one with files missing, and is there until the job's next operation,
\* whatever other jobs do - in the repository at the target, unless the
\* job's disk went in the middle of the run: EnsureTarget looks once, and
\* from then on the run takes what it finds at the path (backup.go, Run).
SuccessHasSnapshot ==
    \A j \in Jobs : Succeeded(j) =>
        \E s \in snaps :
            /\ s.id = result[j].id /\ s.job = j
            /\ s.kind # "incomplete"
            /\ result[j].code = "empty" <=> s.kind = "empty"
            /\ s.at = "home" \/ away[j]

\* "cancelled" is only said of an operation somebody stopped; the probe's
\* own deadline is not that (backup.go, ensureRepo).
CancelledMeansStopped ==
    \A j \in Jobs : result[j] # None /\ result[j].code = "cancelled" => dead[j]

\* The run's own snapshot is not where its retention works.
Shifted(j) == away[j] /\ \E s \in snaps : s.id = work[j].id /\ s.at # site[j]

\* Retention, cancels and incomplete runs never take the newest good copy
\* of a job at a place away: it goes only when there is a newer one
\* (backup.go, Run).  The exception is a run whose disk went or came back
\* between its backup and its retention.
NewestGoodKept ==
    [][\A s \in snaps : s.kind # "incomplete" =>
          \/ \E t \in snaps' :
                /\ t.job = s.job /\ t.at = s.at
                /\ t.kind # "incomplete" /\ t.id >= s.id
          \/ pc[s.job] = "forgetting" /\ Shifted(s.job)]_vars

\* The runner implements Copies: per job, the newest good snapshot at the
\* target, the one there that the last result reports as a success, and
\* whether it reports one that is elsewhere.
NewestGood(j) ==
    LET ids == {s.id : s \in {x \in snaps : x.job = j /\ x.at = "home" /\ x.kind # "incomplete"}}
    IN  IF ids = {} THEN 0 ELSE CHOOSE n \in ids : \A m \in ids : m <= n

AtHome(id) == \E s \in snaps : s.id = id /\ s.at = "home"

Reported(j) == IF Succeeded(j) /\ AtHome(result[j].id) THEN result[j].id ELSE 0
Misreported(j) == Succeeded(j) /\ ~AtHome(result[j].id)

Promise == INSTANCE Copies WITH good   <- [j \in Jobs |-> NewestGood(j)],
                                told   <- [j \in Jobs |-> Reported(j)],
                                astray <- [j \in Jobs |-> Misreported(j)]

ImplementsCopies == Promise!Spec

Stale == {l \in locks : ~l.live /\ l.at = "home"}

\* A lock that a killed process left at the target goes away with a later
\* run, as long as it is not one that shuts out the probe (backup.go, unlock).
SharedLeftoverCleared == []<>(Stale = {} \/ \E l \in Stale : l.exclusive)

\* Every operation ends.
OperationEnds == \A j \in Jobs : []<>(op[j] = None)

\* CHANGELOG.md:250-255 and the comment of unlock: the leftovers of a
\* cancelled operation are cleared before the next backup.
LeftoverCleared == Stale # {} ~> Stale = {}

=============================================================================
