----------------------------- MODULE EngineRuns -----------------------------
(***************************************************************************)
(* What a run leaves behind and what it works with: the next time of its   *)
(* job, the output the UI shows for it, and the secret it opens the        *)
(* repository with.                                                        *)
(***************************************************************************)
EXTENDS EngineFiles, FiniteSetTheorems

-----------------------------------------------------------------------------
(* Timers *)

Armed(r) ==
    r # NoJob =>
        /\ r.next # "never" => r.enabled /\ r.schedule # "manual"
        /\ r.enabled /\ r.schedule = "timed" => r.next # "never"
        /\ r.schedule = "dated" /\ r.next = "later" => ahead

LEMMA RescheduledIsArmed == ASSUME NEW r \in Job PROVE Armed(Rescheduled(r))
BY RescheduledKeeps DEF Armed, Rescheduled, HasNext, Job

LEMMA LoadedIsArmed == ASSUME NEW r, r \in Job \cup {NoJob} PROVE Armed(Loaded(r))
<1>1. CASE r = NoJob BY <1>1 DEF Loaded, Armed
<1>2. CASE r # NoJob
  <2> DEFINE q == [r EXCEPT !.running = FALSE, !.last = IF r.running THEN "cancelled" ELSE @]
  <2>1. q \in Job BY <1>2 DEF Job, Codes
  <2>2. Loaded(r) = Rescheduled(q) BY <1>2 DEF Loaded
  <2> HIDE DEF q
  <2> QED BY <2>1, <2>2, RescheduledIsArmed
<1> QED BY <1>1, <1>2

LEMMA OnlyCalendarTurns == [Next]_vars => Calendar \/ ahead' = ahead
<1>1. Daemon \/ Ticker => ahead' = ahead
  BY DEF Daemon, Stop, Restart, Ticker, FireDue, SpawnDue, worldVars
<1>2. TimePasses => Calendar \/ ahead' = ahead BY DEF TimePasses, ClockPasses, worldVars
<1>3. ASSUME NEW h \in Handlers, Request(h) PROVE ahead' = ahead
  BY <1>3 DEF Request, Post, Accept, Put, Delete, SetEnabled, ClearLogs, SaveClearedLogs, Cancel,
              Launch, worldVars
<1>4. ASSUME NEW h \in Handlers, LockedStep(h) PROVE ahead' = ahead
  BY <1>4 DEF LockedStep, PutSaveJobs, DeleteLogs, DeleteSecrets, worldVars
<1>5. ASSUME NEW w \in Workers, RunStep(w) PROVE ahead' = ahead
  BY <1>5 DEF RunStep, Run, ExecuteMissing, ExecuteSkips, ExecuteStarts, LoadSecrets, OpReturns,
              AppendResult, Finish, Record, SaveLogs, worldVars
<1>6. ASSUME NEW w \in Workers, Expire(w) \/ Log(w) PROVE ahead' = ahead
  BY <1>6 DEF Expire, Log, worldVars
<1>7. UNCHANGED vars => ahead' = ahead BY DEF vars, worldVars
<1> QED BY <1>1, <1>2, <1>3, <1>4, <1>5, <1>6, <1>7 DEF Next

\* The one place where a definition changes without being rescheduled is the
\* start of a run, and that touches neither the schedule nor the next time.
LEMMA ArmedStep == TypeOK /\ ArmedAsScheduled /\ [Next]_vars => ArmedAsScheduled'
<1> SUFFICES ASSUME TypeOK, ArmedAsScheduled, [Next]_vars, NEW j \in Jobs PROVE Armed(jobs[j])'
  BY DEF ArmedAsScheduled, Armed, Exists
<1>12. CASE Calendar
  <2>1. /\ jobs'[j] = IF ahead THEN DateCome(jobs[j]) ELSE jobs[j]
        /\ ahead' = ~ahead
    BY <1>12 DEF Calendar
  <2>2. Armed(jobs[j]) /\ jobs[j] \in Job \cup {NoJob} /\ ahead \in BOOLEAN
    BY DEF ArmedAsScheduled, Armed, Exists, TypeOK, RegistryTypes
  <2>3. CASE ahead /\ jobs[j] # NoJob
    BY <2>1, <2>2, <2>3 DEF Armed, DateCome, Job
  <2>4. CASE ~ahead \/ jobs[j] = NoJob
    BY <2>1, <2>2, <2>4 DEF Armed, DateCome
  <2> QED BY <2>3, <2>4
<1> SUFFICES ASSUME ~Calendar PROVE Armed(jobs[j])' BY <1>12
<1>13. ahead' = ahead BY OnlyCalendarTurns
<1>0. Armed(jobs[j]) /\ jobs[j] \in Job \cup {NoJob}
  BY DEF ArmedAsScheduled, Armed, Exists, TypeOK, RegistryTypes
<1>1. CASE jobs'[j] = jobs[j] BY <1>0, <1>1, <1>13 DEF Armed
<1>2. CASE Restart
  <2>1. jobs'[j] = Loaded(jobsFile[j]) /\ jobsFile[j] \in Job \cup {NoJob}
    BY <1>2 DEF Restart, TypeOK, FileTypes
  <2>2. Armed(Loaded(jobsFile[j])) BY <2>1, LoadedIsArmed
  <2> QED BY <2>1, <2>2, <1>13 DEF Armed
<1>3. ASSUME NEW i \in Jobs, ClockPasses(i) PROVE Armed(jobs[j])'
  <2>1. jobs' = [jobs EXCEPT ![i].next = "due"] /\ jobs[i] # NoJob /\ jobs[i].next = "later"
    BY <1>3 DEF ClockPasses, Exists
  <2>2. CASE i = j
    <3>1. jobs[j] \in Job BY <1>0, <2>1, <2>2
    <3>2. jobs'[j] = [jobs[j] EXCEPT !.next = "due"] BY <2>1, <2>2 DEF TypeOK, RegistryTypes
    <3> QED BY <1>0, <2>1, <2>2, <3>1, <3>2, <1>13 DEF Armed, Job
  <2>3. CASE i # j BY <1>1, <2>1, <2>3 DEF TypeOK, RegistryTypes
  <2> QED BY <2>2, <2>3
<1>4. ASSUME NEW h \in Handlers, Put(h) PROVE Armed(jobs[j])'
  <2>1. CASE j # hjob[h] BY <1>1, <1>4, <2>1, PutEffect
  <2>2. CASE j = hjob[h]
    <3> DEFINE known == IF Exists(j) THEN jobs[j].secret ELSE 0
               fresh == Newer(keyFile[j], known) + 1
    <3>1. known \in Nat /\ fresh \in Nat
      BY <1>0 DEF Exists, Newer, Job, TypeOK, FileTypes
    <3>2. PICK enabled \in BOOLEAN, schedule \in Schedules, given \in BOOLEAN :
            jobs' = [jobs EXCEPT ![j] =
                      Redefined(jobs[j], enabled, schedule, IF given THEN fresh ELSE known)]
      BY <1>4, <2>2 DEF Put
    <3> DEFINE q == [enabled |-> enabled, schedule |-> schedule, next |-> "never",
                     running |-> IF jobs[j] = NoJob THEN FALSE ELSE jobs[j].running,
                     last    |-> IF jobs[j] = NoJob THEN "none" ELSE jobs[j].last,
                     secret  |-> IF given THEN fresh ELSE known]
    <3>3. jobs'[j] = Redefined(jobs[j], enabled, schedule, IF given THEN fresh ELSE known)
      BY <3>2 DEF TypeOK, RegistryTypes
    <3>4. jobs'[j] = Rescheduled(q) BY <3>3 DEF Redefined
    <3>5. (IF given THEN fresh ELSE known) \in Nat /\ schedule \in ScheduleTypes
      BY <3>1, ParameterAssumption
    <3> HIDE DEF known, fresh
    <3>6. q \in Job BY <1>0, <3>5 DEF Job
    <3> HIDE DEF q
    <3>7. Armed(Rescheduled(q)) BY <3>6, RescheduledIsArmed
    <3> QED BY <3>4, <3>7, <1>13 DEF Armed
  <2> QED BY <2>1, <2>2
<1>5. ASSUME NEW h \in Handlers, Delete(h) PROVE Armed(jobs[j])'
  <2>1. jobs' = [jobs EXCEPT ![hjob[h]] = NoJob] BY <1>5, DeleteEffect
  <2>2. jobs'[j] \in {jobs[j], NoJob} BY <2>1 DEF TypeOK, RegistryTypes
  <2> QED BY <1>1, <2>2 DEF Armed
<1>6. ASSUME NEW h \in Handlers, SetEnabled(h) PROVE Armed(jobs[j])'
  <2> DEFINE q == [jobs[j] EXCEPT !.enabled = (hpc[h] = "enable")]
  <2>1. CASE Exists(j) /\ j = hjob[h] /\ jobs' # jobs
    <3>1. jobs' = [jobs EXCEPT ![j] = Rescheduled([@ EXCEPT !.enabled = (hpc[h] = "enable")])]
      BY <1>6, <2>1 DEF SetEnabled
    <3>2. jobs[j] \in Job BY <1>0, <2>1 DEF Exists
    <3>3. q \in Job BY <3>2 DEF Job
    <3>4. jobs'[j] = Rescheduled(q) BY <3>1 DEF TypeOK, RegistryTypes
    <3> HIDE DEF q
    <3>5. Armed(Rescheduled(q)) BY <3>3, RescheduledIsArmed
    <3> QED BY <3>4, <3>5, <1>13 DEF Armed
  <2>2. CASE ~(Exists(j) /\ j = hjob[h] /\ jobs' # jobs)
    <3>1. jobs'[j] = jobs[j] BY <1>6, <2>2 DEF SetEnabled, TypeOK, RegistryTypes
    <3> QED BY <1>1, <3>1
  <2> QED BY <2>1, <2>2
<1>7. ASSUME NEW w \in Workers, ExecuteStarts(w) PROVE Armed(jobs[j])'
  <2>1. jobs' = [jobs EXCEPT ![job[w]].running = TRUE] /\ jobs[job[w]] # NoJob
    BY <1>7 DEF ExecuteStarts, Exists
  <2>2. CASE j = job[w]
    <3>1. jobs[j] \in Job BY <1>0, <2>1, <2>2
    <3>2. jobs'[j] = [jobs[j] EXCEPT !.running = TRUE] BY <2>1, <2>2 DEF TypeOK, RegistryTypes
    <3> QED BY <1>0, <2>1, <2>2, <3>1, <3>2, <1>13 DEF Armed, Job
  <2>3. CASE j # job[w] BY <1>1, <2>1, <2>3 DEF TypeOK, RegistryTypes
  <2> QED BY <2>2, <2>3
<1>8. ASSUME NEW w \in Workers, Finish(w) PROVE Armed(jobs[j])'
  <2>1. CASE Exists(j) /\ j = job[w] /\ jobs' # jobs
    <3> DEFINE q == [jobs[j] EXCEPT !.running = FALSE, !.last = result[w]]
    <3>1. jobs' = [jobs EXCEPT ![j] = Ended(@, result[w])] BY <1>8, <2>1 DEF Finish
    <3>2. jobs[j] \in Job /\ result[w] \in Codes BY <1>0, <2>1 DEF Exists, TypeOK, WorkerTypes
    <3>3. q \in Job BY <3>2 DEF Job
    <3>4. jobs'[j] = Rescheduled(q) BY <3>1 DEF Ended, TypeOK, RegistryTypes
    <3> HIDE DEF q
    <3>5. Armed(Rescheduled(q)) BY <3>3, RescheduledIsArmed
    <3> QED BY <3>4, <3>5, <1>13 DEF Armed
  <2>2. CASE ~(Exists(j) /\ j = job[w] /\ jobs' # jobs)
    <3>1. jobs'[j] = jobs[j] BY <1>8, <2>2 DEF Finish, TypeOK, RegistryTypes
    <3> QED BY <1>1, <3>1
  <2> QED BY <2>1, <2>2
<1>9. CASE Stop \/ Ticker \/ UNCHANGED vars
  BY <1>1, <1>9 DEF Stop, Ticker, FireDue, SpawnDue, vars, registryVars
<1>10. ASSUME NEW h \in Handlers,
              \/ Post(h) \/ Accept(h) \/ ClearLogs(h) \/ SaveClearedLogs(h) \/ Cancel(h)
              \/ (\E w \in Workers : Launch(h, w)) \/ LockedStep(h)
       PROVE  Armed(jobs[j])'
  BY <1>1, <1>10
  DEF Post, Accept, ClearLogs, SaveClearedLogs, Cancel, Launch, LockedStep, PutSaveJobs,
      DeleteLogs, DeleteSecrets, registryVars
<1>11. ASSUME NEW w \in Workers,
              \/ Run(w) \/ ExecuteMissing(w) \/ ExecuteSkips(w) \/ LoadSecrets(w) \/ OpReturns(w)
              \/ AppendResult(w) \/ Record(w) \/ SaveLogs(w) \/ Expire(w) \/ Log(w)
       PROVE  Armed(jobs[j])'
  BY <1>1, <1>11
  DEF Run, ExecuteMissing, ExecuteSkips, LoadSecrets, OpReturns, AppendResult, Record, SaveLogs,
      Expire, Log, registryVars
<1> QED
  BY <1>2, <1>3, <1>4, <1>5, <1>6, <1>7, <1>8, <1>9, <1>10, <1>11
  DEF Next, TimePasses, Daemon, Request, RunStep

\* The ticker sees what the user sees: no job keeps its timer over a pause or an
\* edit, no enabled job of an ordinary schedule loses it, none waits for a date
\* that is over.  The callers of rescheduleLocked - New, Put, SetEnabled and the
\* end of a run - are all there are.  No assumption on clients or faults is needed.
THEOREM TimersArmed == Spec => []ArmedAsScheduled
<1>1. Init => ArmedAsScheduled BY DEF Init, ArmedAsScheduled, Exists
<1> QED BY <1>1, ArmedStep, TypeCorrect, PTL DEF Spec

-----------------------------------------------------------------------------
(* Output *)

\* Only the run that holds a job writes to its output, and it began with none.
OwnOutput == \A w \in Workers : Holds(w) => output[job[w]] \subseteq {w}
OneWriter == \A j \in Jobs : output[j] = {} \/ \E w \in Workers : output[j] = {w}
OutputInv == OwnOutput /\ OneWriter

\* Steps that bring no run to hold a job and put nothing into an output.
LEMMA OutputFrame ==
    ASSUME TypeOK, OutputInv,
           \A w \in Workers : Holds(w)' => Holds(w) /\ job'[w] = job[w],
           \A j \in Jobs : output'[j] \in {output[j], {}}
    PROVE  OutputInv'
<1>1. \A w \in Workers : Holds(w) => job[w] \in Jobs
  BY DEF Holds, Holding, TypeOK, WorkerTypes
<1>2. OwnOutput' BY <1>1 DEF OutputInv, OwnOutput
<1>3. OneWriter' BY DEF OutputInv, OneWriter
<1> QED BY <1>2, <1>3 DEF OutputInv

\* A run that holds its job adds a line.
LEMMA OutputGrows ==
    ASSUME TypeOK, NoOverlap, OutputInv, NEW w \in Workers, Holds(w),
           output' = [output EXCEPT ![job[w]] = @ \cup {w}],
           \A v \in Workers : Holds(v)' => Holds(v) /\ job'[v] = job[v]
    PROVE  OutputInv'
<1>1. \A v \in Workers : Holds(v) => job[v] \in Jobs
  BY DEF Holds, Holding, TypeOK, WorkerTypes
<1>2. output'[job[w]] = {w}
  BY <1>1 DEF OutputInv, OwnOutput, TypeOK, RegistryTypes
<1>3. \A j \in Jobs : j # job[w] => output'[j] = output[j] BY DEF TypeOK, RegistryTypes
<1>4. OwnOutput'
  BY <1>1, <1>2, <1>3 DEF OutputInv, OwnOutput, NoOverlap
<1>5. OneWriter' BY <1>2, <1>3 DEF OutputInv, OneWriter
<1> QED BY <1>4, <1>5 DEF OutputInv

LEMMA OutputStep == TypeOK /\ NoOverlap /\ OutputInv /\ [Next]_vars => OutputInv'
<1> SUFFICES ASSUME TypeOK, NoOverlap, OutputInv, [Next]_vars PROVE OutputInv' OBVIOUS
<1> USE DEF Holds, Holding, TypeOK, WorkerTypes, RegistryTypes
<1>1. CASE Restart BY <1>1 DEF Restart, OutputInv, OwnOutput, OneWriter
<1>2. CASE Stop \/ FireDue \/ TimePasses \/ UNCHANGED vars
  BY <1>2, OutputFrame DEF Stop, FireDue, TimePasses, Calendar, ClockPasses, vars, registryVars, workerVars
<1>3. ASSUME NEW w \in Workers, SpawnDue(w) PROVE OutputInv'
  BY <1>3, OutputFrame DEF SpawnDue, Spawn, registryVars
<1>4. ASSUME NEW h \in Handlers, Delete(h) PROVE OutputInv'
  BY <1>4, OutputFrame DEF Delete, WithoutOutput, HandlerTypes
<1>5. ASSUME NEW h \in Handlers, NEW w \in Workers, Launch(h, w) PROVE OutputInv'
  BY <1>5, OutputFrame DEF Launch, Spawn, registryVars
<1>6. ASSUME NEW h \in Handlers,
             \/ Post(h) \/ Accept(h) \/ Put(h) \/ SetEnabled(h) \/ ClearLogs(h)
             \/ SaveClearedLogs(h) \/ Cancel(h) \/ LockedStep(h)
      PROVE  OutputInv'
  BY <1>6, OutputFrame
  DEF Post, Accept, Put, SetEnabled, ClearLogs, SaveClearedLogs, Cancel, LockedStep, PutSaveJobs,
      DeleteLogs, DeleteSecrets, registryVars, workerVars
<1>7. ASSUME NEW w \in Workers,
             \/ Run(w) \/ ExecuteMissing(w) \/ ExecuteSkips(w) \/ LoadSecrets(w) \/ OpReturns(w)
             \/ Finish(w) \/ Record(w) \/ SaveLogs(w) \/ Expire(w)
      PROVE  OutputInv'
  BY <1>7, OutputFrame
  DEF Run, ExecuteMissing, ExecuteSkips, LoadSecrets, OpReturns, Finish, Record, SaveLogs, Expire,
      Goto, Return, registryVars
<1>8. ASSUME NEW w \in Workers, Log(w) \/ AppendResult(w) PROVE OutputInv'
  <2>1. /\ Holds(w) /\ output' = [output EXCEPT ![job[w]] = @ \cup {w}]
        /\ \A v \in Workers : Holds(v)' => Holds(v) /\ job'[v] = job[v]
    BY <1>8 DEF Log, AppendResult, Goto, workerVars
  <2> QED BY <2>1, OutputGrows
<1>9. ASSUME NEW w \in Workers, ExecuteStarts(w) PROVE OutputInv'
  <2>1. /\ job[w] \in Jobs /\ output' = [output EXCEPT ![job[w]] = {}] /\ job' = job
        /\ \A v \in Workers : Holds(v)' => Holds(v) \/ v = w
    BY <1>9 DEF ExecuteStarts, WithoutOutput, Goto
  <2>2. OwnOutput' BY <2>1 DEF OutputInv, OwnOutput
  <2>3. OneWriter' BY <2>1 DEF OutputInv, OneWriter
  <2> QED BY <2>2, <2>3 DEF OutputInv
<1> QED
  BY <1>1, <1>2, <1>3, <1>4, <1>5, <1>6, <1>7, <1>8, <1>9
  DEF Next, Daemon, Ticker, Request, RunStep

\* The output kept for a job is of one run at most: Execute empties it when a run
\* begins, and only the run that holds the job appends to it.
THEOREM OutputIsOfOneRun == Spec /\ NoPutRevives => []OutputOfOneRun
<1>1. Init => OutputInv
  BY DEF Init, OutputInv, OwnOutput, OneWriter, Holds, Holding
<1>2. RunsInv => NoOverlap BY DEF RunsInv
<1>3. OutputInv => OutputOfOneRun
  <2> SUFFICES ASSUME OutputInv, NEW j \in Jobs PROVE Cardinality(output[j]) <= 1
    BY DEF OutputOfOneRun
  <2>1. CASE output[j] = {} BY <2>1, FS_EmptySet
  <2>2. ASSUME NEW w \in Workers, output[j] = {w} PROVE Cardinality(output[j]) <= 1
    <3>1. Cardinality({w}) = 1 BY FS_Singleton
    <3> QED BY <2>2, <3>1
  <2> QED BY <2>1, <2>2 DEF OutputInv, OneWriter
<1> QED BY <1>1, <1>2, <1>3, OutputStep, RunsCorrect, TypeCorrect, PTL DEF Spec

-----------------------------------------------------------------------------
(* Secrets *)

\* A run whose job is gone has been cancelled: Delete reaches it through the
\* cancel map.
Orphans == \A w \in Workers : Holds(w) /\ ~Exists(job[w]) => ctx[w] # "live"

\* Until the run loads the secret, the key file is not behind its definition.
KeyAhead ==
    \A w \in Workers : pc[w] = "load" /\ ctx[w] = "live" => keyFile[job[w]] >= snapshot[w]

SecretInv == Orphans /\ KeyAhead /\ NoStaleSecret

OnItsWay == {"op", "append", "finish"}

\* Steps after which every run that holds its job stands where it stood, or
\* further on with the secret it has, and which remove no job and no key.
LEMMA SecretFrame ==
    ASSUME TypeOK, SecretInv,
           \A w \in Workers : Holds(w)' =>
              /\ pc'[w] = pc[w] \/ {pc[w], pc'[w]} \subseteq OnItsWay
              /\ job'[w] = job[w] /\ snapshot'[w] = snapshot[w] /\ secrets'[w] = secrets[w]
              /\ ctx'[w] = "live" => ctx[w] = "live",
           \A j \in Jobs : jobs[j] # NoJob => jobs'[j] # NoJob,
           \A j \in Jobs : jobs[j] # NoJob => keyFile'[j] >= keyFile[j],
           keyFile' \in [Jobs -> Nat]
    PROVE  SecretInv'
<1> USE DEF Holds, Holding, OnItsWay, TypeOK, WorkerTypes
<1>1. \A w \in Workers : Holds(w) =>
        job[w] \in Jobs /\ keyFile[job[w]] \in Nat /\ snapshot[w] \in Nat
  BY DEF FileTypes
<1>2. \A w \in Workers : Holds(w)' => Holds(w) BY DEF Holds
<1>3. Orphans' BY <1>1, <1>2 DEF SecretInv, Orphans, Exists
<1>4. KeyAhead'
  <2> SUFFICES ASSUME NEW w \in Workers, pc'[w] = "load", ctx'[w] = "live"
               PROVE  keyFile'[job'[w]] >= snapshot'[w]
    BY DEF KeyAhead
  <2>1. pc[w] = "load" /\ ctx[w] = "live" /\ job'[w] = job[w] /\ snapshot'[w] = snapshot[w]
    OBVIOUS
  <2>2. jobs[job[w]] # NoJob /\ keyFile[job[w]] >= snapshot[w]
    BY <2>1 DEF SecretInv, Orphans, KeyAhead, Exists
  <2>3. job[w] \in Jobs /\ keyFile[job[w]] \in Nat /\ keyFile'[job[w]] \in Nat /\ snapshot[w] \in Nat
    BY <1>1, <2>1
  <2> QED BY <2>1, <2>2, <2>3
<1>5. NoStaleSecret' BY DEF SecretInv, NoStaleSecret
<1> QED BY <1>3, <1>4, <1>5 DEF SecretInv

LEMMA SecretDelete ==
    ASSUME TypeOK, TypeOK', RunsInv, SecretInv, NEW h \in Handlers, Delete(h)
    PROVE  SecretInv'
<1> USE DEF Holds, Holding, TypeOK, WorkerTypes
<1>1. /\ hjob[h] \in Jobs /\ jobs' = [jobs EXCEPT ![hjob[h]] = NoJob]
      /\ ctx' = Cancelled(hjob[h])
      /\ UNCHANGED <<pc, job, snapshot, secrets, keyFile>>
  BY DEF Delete, HandlerTypes
<1>2. \A w \in Workers : ctx'[w] = "live" => ctx[w] = "live" BY <1>1 DEF Cancelled
<1>3. ASSUME NEW w \in Workers, Holds(w), job[w] = hjob[h] PROVE ctx'[w] # "live"
  <2>1. CASE Exists(job[w])
    <3>1. jobs[job[w]].running BY <1>3, <2>1 DEF RunsInv, RunIsMarked
    <3>2. cancel[job[w]] = w
      BY <1>1, <1>3, <2>1, <3>1
      DEF RunsInv, RunningMeansARun, NoOverlap, RegistryTypes
    <3> QED BY <1>1, <1>3, <3>2 DEF Cancelled
  <2>2. CASE ~Exists(job[w]) BY <1>2, <1>3, <2>2 DEF SecretInv, Orphans
  <2> QED BY <2>1, <2>2
<1>4. Orphans'
  <2> SUFFICES ASSUME NEW w \in Workers, Holds(w), jobs'[job[w]] = NoJob PROVE ctx'[w] # "live"
    BY <1>1 DEF Orphans, Exists
  <2>1. CASE job[w] = hjob[h] BY <1>3, <2>1
  <2>2. CASE job[w] # hjob[h]
    BY <1>1, <1>2, <2>2 DEF SecretInv, Orphans, Exists, RegistryTypes
  <2> QED BY <2>1, <2>2
<1>5. KeyAhead' /\ NoStaleSecret' BY <1>1, <1>2 DEF SecretInv, KeyAhead, NoStaleSecret
<1> QED BY <1>4, <1>5 DEF SecretInv

LEMMA SecretStep ==
    ASSUME NoFileErrors, TypeOK, TypeOK', RunsInv, KnownRequests', KeysInv, SecretInv, [Next]_vars
    PROVE  SecretInv'
<1> USE DEF Holds, Holding, OnItsWay, TypeOK, WorkerTypes
<1>0. keyFile \in [Jobs -> Nat] /\ keyFile' \in [Jobs -> Nat] BY DEF FileTypes
<1>1. CASE Restart
  BY <1>1 DEF Restart, SecretInv, Orphans, KeyAhead, NoStaleSecret
<1>2. CASE Stop \/ FireDue \/ TimePasses \/ UNCHANGED vars
  <2>1. \A j \in Jobs : jobs[j] # NoJob => jobs'[j] # NoJob
    BY <1>2, HarmlessDaemon DEF Harmless
  <2>2. UNCHANGED <<pc, job, snapshot, secrets, keyFile>>
    BY <1>2 DEF Stop, FireDue, TimePasses, Calendar, ClockPasses, vars, workerVars, fileVars
  <2>3. \A w \in Workers : ctx'[w] = "live" => ctx[w] = "live"
    BY <1>2 DEF Stop, FireDue, TimePasses, Calendar, ClockPasses, vars, workerVars
  <2> QED BY <1>0, <2>1, <2>2, <2>3, SecretFrame
<1>3. ASSUME NEW w \in Workers, SpawnDue(w) PROVE SecretInv'
  BY <1>0, <1>3, SecretFrame DEF SpawnDue, Spawn, registryVars, fileVars
<1>4. ASSUME NEW h \in Handlers, Delete(h) PROVE SecretInv' BY <1>4, SecretDelete
<1>5. ASSUME NEW h \in Handlers, NEW w \in Workers, Launch(h, w) PROVE SecretInv'
  BY <1>0, <1>5, SecretFrame DEF Launch, Spawn, registryVars, fileVars
<1>6. ASSUME NEW h \in Handlers, Put(h) PROVE SecretInv'
  <2>1. UNCHANGED workerVars BY <1>6 DEF Put
  <2>2. \A j \in Jobs : jobs[j] # NoJob => jobs'[j] # NoJob BY <1>6, PutEffect
  <2>3. \A j \in Jobs : keyFile'[j] >= keyFile[j] BY <1>0, <1>6, PutEffect
  <2> QED BY <1>0, <2>1, <2>2, <2>3, SecretFrame DEF workerVars
<1>7. ASSUME NEW h \in Handlers, LockedStep(h) PROVE SecretInv'
  <2>1. UNCHANGED workerVars
    BY <1>7 DEF LockedStep, PutSaveJobs, DeleteLogs, DeleteSecrets
  <2>2. LockHolder BY DEF KeysInv, LockInv
  <2>3. jobs' = jobs BY <1>7, <2>2, LockedEffect
  <2>4. \A j \in Jobs : jobs[j] # NoJob => keyFile'[j] >= keyFile[j]
    BY <1>0, <1>7, <2>2, LockedEffect DEF KeysInv, LockInv, DeletedFirst, Exists
  <2> QED BY <1>0, <2>1, <2>3, <2>4, SecretFrame DEF workerVars
<1>8. ASSUME NEW h \in Handlers, SetEnabled(h) PROVE SecretInv'
  <2>1. UNCHANGED <<pc, job, ctx, snapshot, secrets, keyFile>>
    BY <1>8 DEF SetEnabled, workerVars
  <2>2. \A j \in Jobs : jobs[j] # NoJob => jobs'[j] # NoJob
    BY <1>8, HarmlessRequest DEF Harmless
  <2> QED BY <1>0, <2>1, <2>2, SecretFrame
<1>9. ASSUME NEW h \in Handlers,
             Post(h) \/ Accept(h) \/ ClearLogs(h) \/ SaveClearedLogs(h) \/ Cancel(h)
      PROVE  SecretInv'
  <2>1. UNCHANGED <<pc, job, snapshot, secrets, keyFile, jobs>>
    BY <1>9
    DEF Post, Accept, ClearLogs, SaveClearedLogs, Cancel, workerVars, registryVars, fileVars
  <2>2. \A w \in Workers : ctx'[w] = "live" => ctx[w] = "live"
    BY <1>9 DEF Post, Accept, ClearLogs, SaveClearedLogs, Cancel, Cancelled, workerVars
  <2> QED BY <1>0, <2>1, <2>2, SecretFrame
<1>10. ASSUME NEW w \in Workers, ExecuteStarts(w) PROVE SecretInv'
  <2> DEFINE j == job[w]
  <2>1. /\ j \in Jobs /\ jobs[j] # NoJob /\ jobs[j] \in Job
        /\ snapshot' = [snapshot EXCEPT ![w] = jobs[j].secret]
        /\ pc' = [pc EXCEPT ![w] = "load"]
        /\ UNCHANGED <<job, ctx, secrets, keyFile>>
    BY <1>10 DEF ExecuteStarts, Exists, Goto, RegistryTypes, fileVars
  <2>2. \A i \in Jobs : jobs[i] # NoJob => jobs'[i] # NoJob
    BY <1>10, HarmlessRun DEF RunStep, Harmless
  <2>3. keyFile[j] >= jobs[j].secret
    BY <2>1 DEF KeysInv, KeyNotOlderThanMemory, Exists
  <2>4. Orphans' BY <2>1, <2>2 DEF SecretInv, Orphans, Exists
  <2>5. KeyAhead' BY <2>1, <2>3 DEF SecretInv, KeyAhead
  <2>6. NoStaleSecret' BY <2>1 DEF SecretInv, NoStaleSecret
  <2> QED BY <2>4, <2>5, <2>6 DEF SecretInv
<1>11. ASSUME NEW w \in Workers, LoadSecrets(w) PROVE SecretInv'
  <2>1. /\ pc[w] = "load" /\ pc' = [pc EXCEPT ![w] = "op"]
        /\ secrets' = [secrets EXCEPT ![w] = keyFile[job[w]]]
        /\ UNCHANGED <<job, ctx, snapshot, keyFile, jobs>>
    BY <1>11 DEF LoadSecrets, NoFileErrors, Goto, registryVars, fileVars
  <2>2. Orphans' /\ KeyAhead' BY <2>1 DEF SecretInv, Orphans, KeyAhead, Exists
  <2>3. ctx[w] = "live" => secrets'[w] >= snapshot[w]
    BY <2>1 DEF SecretInv, KeyAhead
  <2>4. job[w] \in Jobs /\ secrets'[w] \in Nat /\ snapshot[w] \in Nat
    BY <1>0, <2>1
  <2>5. NoStaleSecret'
    <3> SUFFICES ASSUME NEW v \in Workers, pc'[v] \in OnItsWay, secrets'[v] < snapshot'[v]
                 PROVE  ctx'[v] # "live"
      BY DEF NoStaleSecret
    <3>1. CASE v = w BY <2>1, <2>3, <2>4, <3>1
    <3>2. CASE v # w BY <2>1, <3>2 DEF SecretInv, NoStaleSecret
    <3> QED BY <3>1, <3>2
  <2> QED BY <2>2, <2>5 DEF SecretInv
<1>12. ASSUME NEW w \in Workers,
              \/ Run(w) \/ ExecuteMissing(w) \/ ExecuteSkips(w) \/ OpReturns(w) \/ AppendResult(w)
              \/ Record(w) \/ SaveLogs(w) \/ Expire(w) \/ Log(w)
       PROVE  SecretInv'
  <2>1. jobs' = jobs /\ keyFile' = keyFile
    BY <1>12
    DEF Run, ExecuteMissing, ExecuteSkips, OpReturns, AppendResult, Record, SaveLogs, Expire, Log,
        registryVars, fileVars
  <2>2. \A v \in Workers : Holds(v)' =>
          /\ pc'[v] = pc[v] \/ {pc[v], pc'[v]} \subseteq OnItsWay
          /\ job'[v] = job[v] /\ snapshot'[v] = snapshot[v] /\ secrets'[v] = secrets[v]
          /\ ctx'[v] = "live" => ctx[v] = "live"
    <3>0. CASE Return(w) BY <3>0 DEF Return
    <3>1. CASE Run(w) BY <3>0, <3>1 DEF Run, Goto
    <3>m. CASE ExecuteMissing(w) BY <3>0, <3>m DEF ExecuteMissing
    <3>s. CASE ExecuteSkips(w) BY <3>s DEF ExecuteSkips, Goto
    <3>2. CASE OpReturns(w) \/ AppendResult(w) BY <3>2 DEF OpReturns, AppendResult, Goto
    <3>3. CASE Record(w) \/ SaveLogs(w) BY <3>3 DEF Record, SaveLogs, Goto, Return
    <3>4. CASE Expire(w) \/ Log(w) BY <3>4 DEF Expire, Log, workerVars
    <3> QED BY <1>12, <3>1, <3>m, <3>s, <3>2, <3>3, <3>4
  <2> QED BY <1>0, <2>1, <2>2, SecretFrame
<1>13. ASSUME NEW w \in Workers, Finish(w) PROVE SecretInv'
  <2>1. \A j \in Jobs : jobs[j] # NoJob => jobs'[j] # NoJob
    BY <1>13, HarmlessRun DEF RunStep, Harmless
  <2>2. \A v \in Workers : Holds(v)' =>
          /\ pc'[v] = pc[v] /\ job'[v] = job[v] /\ ctx'[v] = ctx[v]
          /\ snapshot'[v] = snapshot[v] /\ secrets'[v] = secrets[v]
    BY <1>13 DEF Finish, Goto, Return
  <2>3. keyFile' = keyFile BY <1>13 DEF Finish, fileVars
  <2> QED BY <1>0, <2>1, <2>2, <2>3, SecretFrame
<1> QED
  BY <1>1, <1>2, <1>3, <1>4, <1>5, <1>6, <1>7, <1>8, <1>9, <1>10, <1>11, <1>12, <1>13
  DEF Next, Daemon, Ticker, Request, RunStep

\* A run that may still do something opens the repository with a secret at least
\* as new as its definition, although it loads the secret after it has given the
\* mutex back: what Put writes in between is newer, and a Delete cancels the run.
THEOREM SecretsAreFresh == ASSUME NoFileErrors PROVE Spec /\ NoPutRevives => []NoStaleSecret
<1>1. Init => SecretInv
  BY DEF Init, SecretInv, Orphans, KeyAhead, NoStaleSecret, Holds, Holding
<1>2. TypeOK /\ TypeOK' /\ RunsInv /\ KnownRequests' /\ KeysInv /\ SecretInv /\ [Next]_vars
      => SecretInv'
  BY SecretStep
<1>3. SecretInv => NoStaleSecret BY DEF SecretInv
<1> QED
  BY <1>1, <1>2, <1>3, RunsCorrect, KeysCorrect, KnownRequestsAlways, TypeCorrect, PTL DEF Spec

=============================================================================
