------------------------------- MODULE Engine -------------------------------
(***************************************************************************)
(* The job registry and scheduler of zbackupd (internal/engine), together  *)
(* with the files it keeps (internal/store) and the API requests that      *)
(* change it (internal/api).                                               *)
(*                                                                         *)
(* Three kinds of goroutines share the registry: the ticker, one goroutine *)
(* per run (the Workers, a pool that bounds how many exist at a time) and  *)
(* one goroutine per API request in flight (the Handlers).  One action is  *)
(* one critical section of the engine's mutex mu, or one file operation    *)
(* made outside of it.  Put and Delete make several file operations while  *)
(* they hold mu; mu records who holds it between them, because the daemon  *)
(* may die there and because runs touch the files without holding mu.      *)
(*                                                                         *)
(* Time is abstract: NextRunAt is "never" (zero), "later" or "due".  A cron *)
(* expression whose next date may be more than a year away (February 29th) *)
(* is a "dated" schedule: schedule.Next looks no further than 366 days and *)
(* finds a time only while a date is ahead.  The version numbers of        *)
(* secrets exist only to tell an old one from a new one.                   *)
(***************************************************************************)
EXTENDS Integers, Sequences, FiniteSets

CONSTANTS
    Jobs,           \* the ids newID can hand out
    Workers,        \* goroutines that can execute runs at the same time
    Handlers,       \* API requests that can be in flight at the same time
    None,           \* no worker, no handler, no job id
    NoJob,          \* the registry has no such id
    Requests,       \* which API requests the clients of this instance send
    Faults,         \* what may fail: "crash", a "read" or "write" of a file,
                    \* a run that exceeds its time ("timeout")
    Outcomes,       \* codes a run may end with by itself
    Schedules,      \* the schedule types the clients choose from
    MaxLogEntries,  \* maxLogEntries of the source; 0 leaves the history out
    MaxSecrets      \* bound: how often users enter a new secret for a job

VARIABLES
    \* the engine's memory
    life,      \* "up", or "stopping" after SIGTERM
    mu,        \* the handler that keeps the engine's mutex between two steps
    jobs,      \* the registry: id -> definition and runtime state
    logs,      \* id -> history, newest first
    cancel,    \* id -> the run its cancel func ends
    output,    \* id -> the runs whose lines the kept output holds
    due,       \* the jobs fireDue found due and has not spawned yet
    \* goroutines that execute runs
    pc,        \* where the goroutine is
    job,       \* the id it works on
    ctx,       \* its context: "live", "cancelled" or "expired"
    snapshot,  \* version of the secret the copied definition was saved with
    secrets,   \* version of the secret it loaded; 0 is an empty one
    result,    \* the code it has to record
    entries,   \* its copy of the history, to be saved
    \* API requests in flight
    hpc,       \* where the request is
    hjob,      \* the id in its path
    \* files
    jobsFile,  \* jobs.json
    logFile,   \* logs/<id>.json; a missing file reads as an empty history
    keyFile,   \* keys/<id>.json: the version of the secret, 0 when missing
    \* the world outside: what the clients have seen, and the calendar
    used,      \* ids newID has handed out
    gone,      \* ids whose DELETE was answered with success
    ahead      \* a date of the "dated" schedule lies within the next 366 days

registryVars == <<jobs, logs, cancel, output>>
workerVars   == <<pc, job, ctx, snapshot, secrets, result, entries>>
handlerVars  == <<hpc, hjob>>
fileVars     == <<jobsFile, logFile, keyFile>>
worldVars    == <<used, gone, ahead>>
vars == <<life, mu, registryVars, due, workerVars, handlerVars, fileVars, worldVars>>

-----------------------------------------------------------------------------
(* Types *)

Codes == {"completed", "failed", "cancelled", "timeout", "skipped_running"}

\* No times, times of which one is always within a year (an interval and most
\* cron expressions), and dates of which that is not so.
ScheduleTypes == {"manual", "timed", "dated"}

Job == [enabled  : BOOLEAN,                     \* Enabled
        schedule : ScheduleTypes,               \* Schedule
        next     : {"never", "later", "due"},   \* NextRunAt
        running  : BOOLEAN,                     \* Running
        last     : Codes \cup {"none"},         \* LastResult.Code
        secret   : Nat]                         \* the secret entered with it

Histories == {h \in Seq(Codes) : Len(h) <= MaxLogEntries}

AllRequests == {"post", "put", "delete", "enable", "disable", "clear", "cancel", "run", "check"}

\* Between the first and the last critical section of Execute a run holds its job.
Holding == {"load", "op", "append", "finish"}
WorkerStates  == {"idle", "lookup", "execute", "record", "save"} \cup Holding
HandlerStates == {"idle", "put-jobs", "delete-logs", "delete-keys", "clear-logs"} \cup AllRequests

ASSUME NoneAssumption == None \notin Workers /\ None \notin Handlers /\ None \notin Jobs
ASSUME NoJobAssumption == NoJob \notin Job
ASSUME ParameterAssumption ==
    /\ Requests \subseteq AllRequests
    /\ Faults \subseteq {"crash", "read", "write", "timeout"}
    /\ Outcomes \subseteq {"completed", "failed"}
    /\ Schedules \subseteq ScheduleTypes
    /\ MaxLogEntries \in Nat
    /\ MaxSecrets \in Nat \ {0}

Exists(j) == jobs[j] # NoJob
Holds(w)  == pc[w] \in Holding
Active(j) == {w \in Workers : Holds(w) /\ job[w] = j}

RegistryTypes ==
    /\ jobs \in [Jobs -> Job \cup {NoJob}]
    /\ logs \in [Jobs -> Histories]
    /\ cancel \in [Jobs -> Workers \cup {None}]
    /\ output \in [Jobs -> SUBSET Workers]
    /\ due \in SUBSET Jobs

WorkerTypes ==
    /\ pc \in [Workers -> WorkerStates]
    /\ job \in [Workers -> Jobs \cup {None}]
    /\ \A w \in Workers : pc[w] # "idle" => job[w] \in Jobs
    /\ ctx \in [Workers -> {"live", "cancelled", "expired"}]
    /\ snapshot \in [Workers -> Nat]
    /\ secrets \in [Workers -> Nat]
    /\ result \in [Workers -> Codes]
    /\ entries \in [Workers -> Histories]

HandlerTypes ==
    /\ mu \in Handlers \cup {None}
    /\ hpc \in [Handlers -> HandlerStates]
    /\ hjob \in [Handlers -> Jobs \cup {None}]
    /\ \A h \in Handlers : hpc[h] # "idle" => hjob[h] \in Jobs

FileTypes ==
    /\ jobsFile \in [Jobs -> Job \cup {NoJob}]
    /\ logFile \in [Jobs -> Histories]
    /\ keyFile \in [Jobs -> Nat]

TypeOK ==
    /\ life \in {"up", "stopping"}
    /\ RegistryTypes /\ WorkerTypes /\ HandlerTypes /\ FileTypes
    /\ used \in SUBSET Jobs
    /\ gone \in SUBSET Jobs
    /\ ahead \in BOOLEAN

-----------------------------------------------------------------------------
(* Helpers *)

\* Definitions whose name begins with Slip are not the code: each is a mistake
\* its author could have made in the definition that follows it, kept to show
\* that the properties below would notice.

SlipTimedForGranted(schedule) == schedule # "manual"

\* NextRun finds a time: never for a manual schedule, for a dated one only
\* while one of its dates is near enough.
HasNext(schedule) == schedule = "timed" \/ (schedule = "dated" /\ ahead)

\* rescheduleLocked: a time after now, or none when paused or when there is none.
Rescheduled(r) == [r EXCEPT !.next = IF r.enabled /\ HasNext(r.schedule) THEN "later" ELSE "never"]

\* The job as jobs.json has it.  NextRunAt is written too, but New recomputes it.
Stored(r) == IF r = NoJob THEN NoJob ELSE [r EXCEPT !.next = "never"]

SlipMergedIntoFile(registry) ==
    [j \in Jobs |-> IF registry[j] = NoJob THEN jobsFile[j] ELSE Stored(registry[j])]

\* persistJobsLocked hands the whole registry to SaveJobs, which replaces the file.
WholeRegistry(registry) == [j \in Jobs |-> Stored(registry[j])]

\* Writing jobs.json where the caller goes on after an error.
SaveJobs(registry) ==
    \/ jobsFile' = WholeRegistry(registry)
    \/ "write" \in Faults /\ UNCHANGED jobsFile

SlipCancelIgnored(j) == ctx

\* Calling the cancel func of id j ends the run it belongs to, if that still works.
Cancelled(j) ==
    [w \in Workers |-> IF w = cancel[j] /\ ctx[w] = "live" THEN "cancelled" ELSE ctx[w]]

Newer(a, b) == IF a < b THEN b ELSE a

SlipUncapped(code, history) == <<code>> \o history

\* record: newest first, at most MaxLogEntries.
Prepend(code, history) ==
    LET all == <<code>> \o history
    IN  IF Len(all) > MaxLogEntries THEN SubSeq(all, 1, MaxLogEntries) ELSE all

SlipOutputKept(j) == output

\* A run starts with no output; Delete drops what there is.
WithoutOutput(j) == [output EXCEPT ![j] = {}]

SlipFlagLeftOnFailure(r, code) ==
    Rescheduled([r EXCEPT !.running = (code # "completed"), !.last = code])

\* The job after a run of it has ended with the code.
Ended(r, code) == Rescheduled([r EXCEPT !.running = FALSE, !.last = code])

SlipFlagIgnored(j) == TRUE

\* Execute's test that no other run holds the job.
Free(j) == ~jobs[j].running

Spawn(w, j, where) ==
    /\ pc[w] = "idle"
    /\ pc' = [pc EXCEPT ![w] = where]
    /\ job' = [job EXCEPT ![w] = j]
    /\ UNCHANGED <<ctx, snapshot, secrets, result, entries>>

\* The goroutine returns; its locals go with it.
Return(w) ==
    /\ pc' = [pc EXCEPT ![w] = "idle"]
    /\ job' = [job EXCEPT ![w] = None]
    /\ ctx' = [ctx EXCEPT ![w] = "live"]
    /\ snapshot' = [snapshot EXCEPT ![w] = 0]
    /\ secrets' = [secrets EXCEPT ![w] = 0]
    /\ result' = [result EXCEPT ![w] = "completed"]
    /\ entries' = [entries EXCEPT ![w] = <<>>]

Goto(w, label) == pc' = [pc EXCEPT ![w] = label]

Respond(h) ==
    /\ hpc' = [hpc EXCEPT ![h] = "idle"]
    /\ hjob' = [hjob EXCEPT ![h] = None]

SlipLockDropped(h, label) == mu' = None /\ hpc' = [hpc EXCEPT ![h] = label] /\ UNCHANGED hjob

\* The request keeps mu over its next file operation, or gives it back and answers.
KeepLock(h, label) == mu' = h /\ hpc' = [hpc EXCEPT ![h] = label] /\ UNCHANGED hjob
Unlock(h) == mu' = None /\ Respond(h)

-----------------------------------------------------------------------------
(* The daemon *)

Init ==
    /\ life = "up" /\ mu = None
    /\ jobs = [j \in Jobs |-> NoJob]
    /\ logs = [j \in Jobs |-> <<>>]
    /\ cancel = [j \in Jobs |-> None]
    /\ output = [j \in Jobs |-> {}]
    /\ due = {}
    /\ pc = [w \in Workers |-> "idle"]
    /\ job = [w \in Workers |-> None]
    /\ ctx = [w \in Workers |-> "live"]
    /\ snapshot = [w \in Workers |-> 0]
    /\ secrets = [w \in Workers |-> 0]
    /\ result = [w \in Workers |-> "completed"]
    /\ entries = [w \in Workers |-> <<>>]
    /\ hpc = [h \in Handlers |-> "idle"]
    /\ hjob = [h \in Handlers |-> None]
    /\ jobsFile = [j \in Jobs |-> NoJob]
    /\ logFile = [j \in Jobs |-> <<>>]
    /\ keyFile = [j \in Jobs |-> 0]
    /\ used = {} /\ gone = {}
    /\ ahead \in IF "dated" \in Schedules THEN BOOLEAN ELSE {TRUE}

\* SIGTERM: the ticker ends and every running job is cancelled.
Stop ==
    /\ life = "up" /\ mu = None
    /\ life' = "stopping"
    /\ ctx' = [w \in Workers |-> IF ctx[w] = "live" /\ \E j \in Jobs : cancel[j] = w
                                 THEN "cancelled" ELSE ctx[w]]
    /\ UNCHANGED <<mu, registryVars, due, pc, job, snapshot, secrets, result, entries,
                   handlerVars, fileVars, worldVars>>

SlipFlagSurvives(r) == IF r = NoJob THEN NoJob ELSE Rescheduled(r)

\* The job New makes of one in jobs.json.
Loaded(r) ==
    IF r = NoJob THEN NoJob
    ELSE Rescheduled([r EXCEPT !.running = FALSE,
                               !.last = IF r.running THEN "cancelled" ELSE @])

\* The process ends, after Stop or by a crash at any moment, and New loads the
\* files.  Only the files survive; a history that cannot be read is left empty.
Restart ==
    /\ life = "stopping" \/ "crash" \in Faults
    /\ life' = "up" /\ mu' = None
    /\ jobs' = [j \in Jobs |-> Loaded(jobsFile[j])]
    /\ \E unread \in IF "read" \in Faults THEN SUBSET Jobs ELSE {{}} :
          logs' = [j \in Jobs |-> IF jobsFile[j] = NoJob \/ j \in unread THEN <<>> ELSE logFile[j]]
    /\ cancel' = [j \in Jobs |-> None]
    /\ output' = [j \in Jobs |-> {}]
    /\ due' = {}
    /\ pc' = [w \in Workers |-> "idle"]
    /\ job' = [w \in Workers |-> None]
    /\ ctx' = [w \in Workers |-> "live"]
    /\ snapshot' = [w \in Workers |-> 0]
    /\ secrets' = [w \in Workers |-> 0]
    /\ result' = [w \in Workers |-> "completed"]
    /\ entries' = [w \in Workers |-> <<>>]
    /\ hpc' = [h \in Handlers |-> "idle"]
    /\ hjob' = [h \in Handlers |-> None]
    /\ UNCHANGED <<fileVars, worldVars>>

-----------------------------------------------------------------------------
(* The clock and the ticker *)

\* The time of a job comes; a date comes with the calendar.
ClockPasses(j) ==
    /\ Exists(j) /\ jobs[j].next = "later" /\ jobs[j].schedule # "dated"
    /\ jobs' = [jobs EXCEPT ![j].next = "due"]
    /\ UNCHANGED <<life, mu, logs, cancel, output, due, workerVars, handlerVars, fileVars, worldVars>>

\* The date that was ahead is here.
DateCome(r) == IF r # NoJob /\ r.schedule = "dated" /\ r.next = "later"
               THEN [r EXCEPT !.next = "due"] ELSE r

\* A date comes and the following one is years away; or years pass and it is
\* near enough to be found.  Nothing in the engine looks again by itself then.
Calendar ==
    /\ "dated" \in Schedules
    /\ ahead' = ~ahead
    /\ jobs' = [j \in Jobs |-> IF ahead THEN DateCome(jobs[j]) ELSE jobs[j]]
    /\ UNCHANGED <<life, mu, logs, cancel, output, due, workerVars, handlerVars, fileVars,
                   used, gone>>

\* fireDue collects the due jobs under the read lock ...
FireDue ==
    /\ life = "up" /\ mu = None /\ due = {}
    /\ due' = {j \in Jobs : /\ Exists(j)
                            /\ jobs[j].enabled /\ ~jobs[j].running
                            /\ jobs[j].schedule # "manual" /\ jobs[j].next = "due"}
    /\ UNCHANGED <<life, mu, registryVars, workerVars, handlerVars, fileVars, worldVars>>

\* ... and starts a goroutine for each of them after giving the lock back.
SpawnDue(w) ==
    /\ \E j \in due : due' = due \ {j} /\ Spawn(w, j, "lookup")
    /\ UNCHANGED <<life, mu, registryVars, handlerVars, fileVars, worldVars>>

-----------------------------------------------------------------------------
(* API requests *)

\* POST /jobs: the handler draws a fresh id.
Post(h) ==
    /\ "post" \in Requests /\ hpc[h] = "idle"
    /\ \E j \in Jobs \ used :
          /\ used' = used \cup {j}
          /\ hjob' = [hjob EXCEPT ![h] = j]
    /\ hpc' = [hpc EXCEPT ![h] = "post"]
    /\ UNCHANGED <<life, mu, registryVars, due, workerVars, fileVars, gone, ahead>>

\* Every other request names a job that Engine.Job finds when it arrives.
Accept(h) ==
    /\ hpc[h] = "idle" /\ mu = None
    /\ \E j \in Jobs, r \in Requests \ {"post"} :
          /\ Exists(j)
          /\ hpc' = [hpc EXCEPT ![h] = r]
          /\ hjob' = [hjob EXCEPT ![h] = j]
    /\ UNCHANGED <<life, mu, registryVars, due, workerVars, fileVars, worldVars>>

SlipRuntimeReset(r, enabled, schedule, secret) ==
    Rescheduled([enabled |-> enabled, schedule |-> schedule, next |-> "never",
                 running |-> FALSE, last |-> "none", secret |-> secret])

\* The definition a request puts in place of r, keeping r's runtime state.
Redefined(r, enabled, schedule, secret) ==
    Rescheduled([enabled |-> enabled, schedule |-> schedule, next |-> "never",
                 running |-> IF r = NoJob THEN FALSE ELSE r.running,
                 last    |-> IF r = NoJob THEN "none" ELSE r.last,
                 secret  |-> secret])

\* Put, up to SaveSecrets.  A new job carries a secret; an update may leave it
\* empty and then gets the stored one, or none if the key file cannot be read.
\* validate has turned away an expression that has no date within the year.
Put(h) ==
    LET j     == hjob[h]
        known == IF Exists(j) THEN jobs[j].secret ELSE 0
        fresh == Newer(keyFile[j], known) + 1
    IN
    /\ hpc[h] \in {"post", "put"} /\ mu = None
    /\ \E enabled \in BOOLEAN, schedule \in Schedules,
          given \in IF hpc[h] = "post" THEN {TRUE} ELSE BOOLEAN :
          /\ schedule = "dated" => ahead
          /\ given => fresh <= MaxSecrets
          /\ jobs' = [jobs EXCEPT ![j] =
                        Redefined(jobs[j], enabled, schedule, IF given THEN fresh ELSE known)]
          /\ \/ /\ keyFile' = IF given THEN [keyFile EXCEPT ![j] = fresh] ELSE keyFile
                /\ KeepLock(h, "put-jobs")
             \/ /\ ~given /\ "read" \in Faults
                /\ keyFile' = [keyFile EXCEPT ![j] = 0]
                /\ KeepLock(h, "put-jobs")
             \/ /\ "write" \in Faults
                /\ Unlock(h) /\ UNCHANGED keyFile
    /\ UNCHANGED <<life, logs, cancel, output, due, workerVars, jobsFile, logFile, worldVars>>

PutSaveJobs(h) ==
    /\ hpc[h] = "put-jobs"
    /\ SaveJobs(jobs)
    /\ Unlock(h)
    /\ UNCHANGED <<life, registryVars, due, workerVars, logFile, keyFile, worldVars>>

\* Delete cancels the run, drops the job from memory, then removes it from the
\* files one by one; the first error ends it.
Delete(h) ==
    LET j == hjob[h] IN
    /\ hpc[h] = "delete" /\ mu = None
    /\ ctx' = Cancelled(j)
    /\ jobs' = [jobs EXCEPT ![j] = NoJob]
    /\ output' = WithoutOutput(j)
    /\ logs' = [logs EXCEPT ![j] = <<>>]
    /\ \/ jobsFile' = WholeRegistry(jobs') /\ KeepLock(h, "delete-logs")
       \/ "write" \in Faults /\ UNCHANGED jobsFile /\ Unlock(h)
    /\ UNCHANGED <<life, cancel, due, pc, job, snapshot, secrets, result, entries,
                   logFile, keyFile, worldVars>>

DeleteLogs(h) ==
    /\ hpc[h] = "delete-logs"
    /\ \/ logFile' = [logFile EXCEPT ![hjob[h]] = <<>>] /\ KeepLock(h, "delete-keys")
       \/ "write" \in Faults /\ UNCHANGED logFile /\ Unlock(h)
    /\ UNCHANGED <<life, registryVars, due, workerVars, jobsFile, keyFile, worldVars>>

DeleteSecrets(h) ==
    /\ hpc[h] = "delete-keys"
    /\ \/ keyFile' = [keyFile EXCEPT ![hjob[h]] = 0] /\ gone' = gone \cup {hjob[h]}
       \/ "write" \in Faults /\ UNCHANGED <<keyFile, gone>>
    /\ Unlock(h)
    /\ UNCHANGED <<life, registryVars, due, workerVars, jobsFile, logFile, used, ahead>>

SetEnabled(h) ==
    LET j == hjob[h] IN
    /\ hpc[h] \in {"enable", "disable"} /\ mu = None
    /\ \/ Exists(j)
          /\ jobs' = [jobs EXCEPT ![j] = Rescheduled([@ EXCEPT !.enabled = (hpc[h] = "enable")])]
          /\ SaveJobs(jobs')
       \/ ~Exists(j) /\ UNCHANGED <<jobs, jobsFile>>
    /\ Respond(h)
    /\ UNCHANGED <<life, mu, logs, cancel, output, due, workerVars, logFile, keyFile, worldVars>>

\* ClearLogs empties the history in memory; the file follows without the lock.
ClearLogs(h) ==
    /\ hpc[h] = "clear" /\ mu = None
    /\ logs' = [logs EXCEPT ![hjob[h]] = <<>>]
    /\ hpc' = [hpc EXCEPT ![h] = "clear-logs"]
    /\ UNCHANGED <<life, mu, jobs, cancel, output, due, workerVars, hjob, fileVars, worldVars>>

SaveClearedLogs(h) ==
    /\ hpc[h] = "clear-logs"
    /\ \/ logFile' = [logFile EXCEPT ![hjob[h]] = <<>>]
       \/ "write" \in Faults /\ UNCHANGED logFile
    /\ Respond(h)
    /\ UNCHANGED <<life, mu, registryVars, due, workerVars, jobsFile, keyFile, worldVars>>

\* Fetching the cancel func and calling it are one step: calling the func of a
\* run that has ended meanwhile does nothing.
Cancel(h) ==
    /\ hpc[h] = "cancel" /\ mu = None
    /\ ctx' = Cancelled(hjob[h])
    /\ Respond(h)
    /\ UNCHANGED <<life, mu, registryVars, due, pc, job, snapshot, secrets, result, entries,
                   fileVars, worldVars>>

\* "run" goes through Run; "check", like the restores, calls Execute directly.
Launch(h, w) ==
    /\ \/ hpc[h] = "run" /\ Spawn(w, hjob[h], "lookup")
       \/ hpc[h] = "check" /\ Spawn(w, hjob[h], "execute")
    /\ Respond(h)
    /\ UNCHANGED <<life, mu, registryVars, due, fileVars, worldVars>>

-----------------------------------------------------------------------------
(* Runs *)

\* Run looks the runner up under the read lock; Execute looks the job up again.
Run(w) ==
    /\ pc[w] = "lookup" /\ mu = None
    /\ \/ /\ Exists(job[w])
          /\ Goto(w, "execute")
          /\ UNCHANGED <<job, ctx, snapshot, secrets, result, entries>>
       \/ ~Exists(job[w]) /\ Return(w)
    /\ UNCHANGED <<life, mu, registryVars, due, handlerVars, fileVars, worldVars>>

ExecuteMissing(w) ==
    /\ pc[w] = "execute" /\ mu = None /\ ~Exists(job[w])
    /\ Return(w)
    /\ UNCHANGED <<life, mu, registryVars, due, handlerVars, fileVars, worldVars>>

ExecuteSkips(w) ==
    /\ pc[w] = "execute" /\ mu = None /\ Exists(job[w])
    /\ ~Free(job[w])
    /\ result' = [result EXCEPT ![w] = "skipped_running"]
    /\ Goto(w, "record")
    /\ UNCHANGED <<life, mu, registryVars, due, job, ctx, snapshot, secrets, entries,
                   handlerVars, fileVars, worldVars>>

ExecuteStarts(w) ==
    LET j == job[w] IN
    /\ pc[w] = "execute" /\ mu = None /\ Exists(j)
    /\ Free(j)
    /\ jobs' = [jobs EXCEPT ![j].running = TRUE]
    /\ cancel' = [cancel EXCEPT ![j] = w]
    /\ output' = WithoutOutput(j)
    /\ snapshot' = [snapshot EXCEPT ![w] = jobs[j].secret]
    /\ Goto(w, "load")
    /\ UNCHANGED <<life, mu, logs, due, job, ctx, secrets, result, entries,
                   handlerVars, fileVars, worldVars>>

\* An unreadable key file is logged and the run goes on with an empty secret.
LoadSecrets(w) ==
    /\ pc[w] = "load"
    /\ \/ secrets' = [secrets EXCEPT ![w] = keyFile[job[w]]]
       \/ "read" \in Faults /\ secrets' = [secrets EXCEPT ![w] = 0]
    /\ Goto(w, "op")
    /\ UNCHANGED <<life, mu, registryVars, due, job, ctx, snapshot, result, entries,
                   handlerVars, fileVars, worldVars>>

\* The deadline of the run's context passes.
Expire(w) ==
    /\ "timeout" \in Faults
    /\ pc[w] \in {"load", "op", "append"} /\ ctx[w] = "live"
    /\ ctx' = [ctx EXCEPT ![w] = "expired"]
    /\ UNCHANGED <<life, mu, registryVars, due, pc, job, snapshot, secrets, result, entries,
                   handlerVars, fileVars, worldVars>>

\* The operation logs a line through the sink in its context.
Log(w) ==
    /\ pc[w] = "op" /\ mu = None
    /\ output' = [output EXCEPT ![job[w]] = @ \cup {w}]
    /\ UNCHANGED <<life, mu, jobs, logs, cancel, due, workerVars, handlerVars, fileVars, worldVars>>

\* The operation returns; only one whose context has ended says "cancelled".
OpReturns(w) ==
    /\ pc[w] = "op"
    /\ \E code \in Outcomes \cup (IF ctx[w] = "live" THEN {} ELSE {"cancelled"}) :
          result' = [result EXCEPT ![w] = code]
    /\ Goto(w, "append")
    /\ UNCHANGED <<life, mu, registryVars, due, job, ctx, snapshot, secrets, entries,
                   handlerVars, fileVars, worldVars>>

AppendResult(w) ==
    /\ pc[w] = "append" /\ mu = None
    /\ output' = [output EXCEPT ![job[w]] = @ \cup {w}]
    /\ result' = IF ctx[w] = "expired" /\ result[w] # "completed"
                 THEN [result EXCEPT ![w] = "timeout"] ELSE result
    /\ Goto(w, "finish")
    /\ UNCHANGED <<life, mu, jobs, logs, cancel, due, job, ctx, snapshot, secrets, entries,
                   handlerVars, fileVars, worldVars>>

\* Execute's last critical section; a job deleted meanwhile gets nothing written back.
Finish(w) ==
    LET j == job[w] IN
    /\ pc[w] = "finish" /\ mu = None
    /\ cancel' = [cancel EXCEPT ![j] = None]
    /\ \/ /\ Exists(j)
          /\ jobs' = [jobs EXCEPT ![j] = Ended(@, result[w])]
          /\ Goto(w, "record")
          /\ UNCHANGED <<job, ctx, snapshot, secrets, result, entries>>
       \/ ~Exists(j) /\ Return(w) /\ UNCHANGED jobs
    /\ UNCHANGED <<life, mu, logs, output, due, handlerVars, fileVars, worldVars>>

\* record: history and registry change and jobs.json is written under the lock ...
Record(w) ==
    LET j == job[w] IN
    /\ pc[w] = "record" /\ mu = None
    /\ \/ /\ Exists(j)
          /\ logs' = [logs EXCEPT ![j] = Prepend(result[w], @)]
          /\ entries' = [entries EXCEPT ![w] = logs'[j]]
          /\ SaveJobs(jobs)
          /\ Goto(w, "save")
          /\ UNCHANGED <<job, ctx, snapshot, secrets, result>>
       \/ ~Exists(j) /\ Return(w) /\ UNCHANGED <<logs, jobsFile>>
    /\ UNCHANGED <<life, mu, jobs, cancel, output, due, handlerVars, logFile, keyFile, worldVars>>

\* ... the copy of the history is saved after it is given back.
SaveLogs(w) ==
    /\ pc[w] = "save"
    /\ \/ logFile' = [logFile EXCEPT ![job[w]] = entries[w]]
       \/ "write" \in Faults /\ UNCHANGED logFile
    /\ Return(w)
    /\ UNCHANGED <<life, mu, registryVars, due, handlerVars, jobsFile, keyFile, worldVars>>

-----------------------------------------------------------------------------
(* Specification *)

Daemon == Stop \/ Restart
Ticker == FireDue \/ \E w \in Workers : SpawnDue(w)
TimePasses == Calendar \/ \E j \in Jobs : ClockPasses(j)
LockedStep(h) == PutSaveJobs(h) \/ DeleteLogs(h) \/ DeleteSecrets(h)
Request(h) ==
    \/ Post(h) \/ Accept(h) \/ Put(h) \/ Delete(h) \/ SetEnabled(h)
    \/ ClearLogs(h) \/ SaveClearedLogs(h) \/ Cancel(h)
    \/ \E w \in Workers : Launch(h, w)
RunStep(w) ==
    \/ Run(w) \/ ExecuteMissing(w) \/ ExecuteSkips(w) \/ ExecuteStarts(w)
    \/ LoadSecrets(w) \/ OpReturns(w) \/ AppendResult(w) \/ Finish(w)
    \/ Record(w) \/ SaveLogs(w)

Next ==
    \/ Daemon \/ Ticker
    \/ TimePasses
    \/ \E h \in Handlers : Request(h) \/ LockedStep(h)
    \/ \E w \in Workers : RunStep(w) \/ Expire(w) \/ Log(w)

Spec == Init /\ [][Next]_vars

\* The ticker's channel keeps firing; a goroutine that waits for mu gets it in the
\* end, because Go's mutexes do not starve a waiter (hence SF); every operation
\* returns, because its context has a deadline; file operations return.
Fairness ==
    /\ WF_vars(FireDue)
    /\ SF_vars(\E w \in Workers : SpawnDue(w))
    /\ \A j \in Jobs : WF_vars(ClockPasses(j))
    /\ \A h \in Handlers : WF_vars(LockedStep(h))
    /\ \A w \in Workers : SF_vars(RunStep(w))

FairSpec == Spec /\ Fairness

-----------------------------------------------------------------------------
(* Safety *)

\* "Backups and mirrors must never overlap themselves" (Run): at no time do two
\* goroutines hold the same job between the first and the last critical section
\* of Execute, whatever requests, crashes and restarts come in between.
NoOverlap == \A v, w \in Workers : Holds(v) /\ Holds(w) /\ job[v] = job[w] => v = w

\* The Running flag of a job means that a goroutine holds it, and that this is
\* the one Cancel and Delete reach through the cancel map: no flag that stays
\* set after its run, and no run that a stop request misses.
RunningMeansARun ==
    \A j \in Jobs : Exists(j) /\ jobs[j].running =>
        cancel[j] # None /\ Holds(cancel[j]) /\ job[cancel[j]] = j

\* The other way round: while a goroutine holds a job that still exists the job
\* is marked running, so a second Execute is turned away.
RunIsMarked == \A w \in Workers : Holds(w) /\ Exists(job[w]) => jobs[job[w]].running

\* A job whose DELETE was answered with success stays away: it is neither in the
\* registry nor in jobs.json again, also after a restart, and no key of it is left.
DeletedStaysDeleted ==
    \A j \in gone : ~Exists(j) /\ jobsFile[j] = NoJob /\ keyFile[j] = 0

\* Put writes the key before the job and Delete removes it after the job, so at
\* every moment a crash finds no job in jobs.json whose key file is missing or
\* older than the job.
KeyNotOlderThanJob ==
    \A j \in Jobs : jobsFile[j] # NoJob => keyFile[j] >= jobsFile[j].secret

\* Execute copies the definition under the lock and loads the secret after it.
\* A run may so see a secret newer than its definition, never an older one -
\* unless its job was deleted in between, and then it has been cancelled.
NoStaleSecret ==
    \A w \in Workers : pc[w] \in {"op", "append", "finish"} /\ secrets[w] < snapshot[w]
        => ctx[w] # "live"

\* Output is of "a job's current or last run": no two runs share it.
OutputOfOneRun == \A j \in Jobs : Cardinality(output[j]) <= 1

SameDefinition(j) ==
    /\ Exists(j) <=> jobsFile[j] # NoJob
    /\ Exists(j) => /\ jobs[j].enabled = jobsFile[j].enabled
                    /\ jobs[j].schedule = jobsFile[j].schedule
                    /\ jobs[j].secret = jobsFile[j].secret

\* Whenever nobody holds the mutex, jobs.json has the same jobs as the registry,
\* with the same definitions (persistJobsLocked): a crash then loses no edit.
RegistryIsDurable == mu = None => \A j \in Jobs : SameDefinition(j)

\* The ticker sees what the user sees: only an enabled job with a schedule has a
\* next time, an enabled job of an ordinary schedule always has one, and a job
\* that waits for a date waits for one that is still to come.  Whatever edits,
\* pauses, runs, restarts and years it goes through, no job keeps firing while
\* it is paused and no such job drops out of the ticker's sight.
ArmedAsScheduled ==
    \A j \in Jobs : Exists(j) =>
        /\ jobs[j].next # "never" => jobs[j].enabled /\ jobs[j].schedule # "manual"
        /\ jobs[j].enabled /\ jobs[j].schedule = "timed" => jobs[j].next # "never"
        /\ jobs[j].schedule = "dated" /\ jobs[j].next = "later" => ahead

-----------------------------------------------------------------------------
(* Refinement *)

\* The engine implements JobRuns: a run begins in ExecuteStarts, ends in Finish.
Abstract == INSTANCE JobRuns WITH working <- [j \in Jobs |-> Active(j)]
ImplementsJobRuns == Abstract!Spec

-----------------------------------------------------------------------------
(* Liveness *)

\* A job that is due is served: a run of it ends and sets the next time, or the
\* user reschedules, pauses or deletes it, or the daemon is asked to stop.
DueIsServed ==
    \A j \in Jobs : (Exists(j) /\ jobs[j].next = "due") ~>
        (~Exists(j) \/ jobs[j].next # "due" \/ life = "stopping")

\* Every run ends and clears its flag, so that a job is never "still running"
\* for ever (which would skip all its later runs).
RunEnds == \A j \in Jobs : (Exists(j) /\ jobs[j].running) ~> (~Exists(j) \/ ~jobs[j].running)

=============================================================================
