---------------------------- MODULE EngineFiles ----------------------------
(***************************************************************************)
(* What the files promise, for any number of jobs, goroutines and requests *)
(* and for a crash at any moment: the order in which Put and Delete write  *)
(* them, under the mutex, never leaves a job without its key, loses no     *)
(* edit and brings no deleted job back.                                    *)
(***************************************************************************)
EXTENDS EngineProofs

-----------------------------------------------------------------------------
(* Which steps touch the files *)

\* A step that writes no key, and jobs.json only as a whole.
Harmless ==
    /\ mu' = mu /\ keyFile' = keyFile /\ gone' = gone /\ used \subseteq used'
    /\ \A h \in Handlers :
          /\ hpc[h] \in LockedStates \/ hpc'[h] \in LockedStates
                => hpc'[h] = hpc[h] /\ hjob'[h] = hjob[h]
          /\ hpc'[h] = "post" => \/ hjob'[h] = hjob[h] /\ hpc[h] = "post"
                                 \/ hjob'[h] \notin used
    /\ \A j \in Jobs :
          /\ (jobs'[j] = NoJob) <=> (jobs[j] = NoJob)
          /\ jobs[j] # NoJob => jobs'[j].secret = jobs[j].secret
    /\ jobsFile' \in {jobsFile, WholeRegistry(jobs')}
    /\ \/ mu = None /\ jobsFile' = WholeRegistry(jobs')
       \/ "write" \in Faults
       \/ /\ jobsFile' = jobsFile
          /\ \A j \in Jobs : jobs[j] # NoJob =>
                jobs'[j].enabled = jobs[j].enabled /\ jobs'[j].schedule = jobs[j].schedule

LEMMA WholeRegistryKeeps ==
    ASSUME NEW r, r \in [Jobs -> Job \cup {NoJob}], NEW j \in Jobs
    PROVE  /\ (WholeRegistry(r)[j] = NoJob) <=> (r[j] = NoJob)
           /\ r[j] # NoJob => /\ WholeRegistry(r)[j].enabled = r[j].enabled
                              /\ WholeRegistry(r)[j].schedule = r[j].schedule
                              /\ WholeRegistry(r)[j].secret = r[j].secret
<1>1. CASE r[j] = NoJob BY <1>1 DEF WholeRegistry, Stored
<1>2. CASE r[j] # NoJob
  <2>1. r[j] \in Job BY <1>2
  <2>2. WholeRegistry(r)[j] = [r[j] EXCEPT !.next = "never"] BY <1>2 DEF WholeRegistry, Stored
  <2>3. WholeRegistry(r)[j] \in Job BY <2>1, <2>2 DEF Job
  <2>4. WholeRegistry(r)[j] # NoJob BY <2>3, NoJobAssumption
  <2> QED BY <1>2, <2>1, <2>2, <2>4 DEF Job
<1> QED BY <1>1, <1>2

LEMMA LoadedKeeps ==
    ASSUME NEW r, r \in Job \cup {NoJob}
    PROVE  /\ (Loaded(r) = NoJob) <=> (r = NoJob)
           /\ r # NoJob => /\ Loaded(r).enabled = r.enabled
                           /\ Loaded(r).schedule = r.schedule
                           /\ Loaded(r).secret = r.secret
<1>1. CASE r = NoJob BY <1>1 DEF Loaded
<1>2. CASE r # NoJob
  <2> DEFINE q == [r EXCEPT !.running = FALSE, !.last = IF r.running THEN "cancelled" ELSE @]
  <2>1. r \in Job BY <1>2
  <2>2. /\ q \in Job /\ q.enabled = r.enabled /\ q.schedule = r.schedule /\ q.secret = r.secret
    BY <2>1 DEF Job, Codes
  <2>3. Loaded(r) = Rescheduled(q) BY <1>2 DEF Loaded
  <2> HIDE DEF q
  <2> QED BY <1>2, <2>2, <2>3, RescheduledKeeps
<1> QED BY <1>1, <1>2

LEMMA HarmlessDaemon ==
    ASSUME TypeOK,
           Stop \/ FireDue \/ TimePasses \/ UNCHANGED vars
    PROVE  Harmless
<1>1. CASE Stop
  BY <1>1 DEF Stop, Harmless, registryVars, handlerVars, fileVars, worldVars, LockedStates
<1>2. CASE FireDue
  BY <1>2 DEF FireDue, Harmless, registryVars, handlerVars, fileVars, worldVars, LockedStates
<1>3. ASSUME NEW j \in Jobs, ClockPasses(j) PROVE Harmless
  <2>1. jobs[j] \in Job BY <1>3 DEF ClockPasses, Exists, TypeOK, RegistryTypes
  <2>2. jobs' = [jobs EXCEPT ![j].next = "due"] BY <1>3 DEF ClockPasses
  <2>3. [jobs[j] EXCEPT !.next = "due"] \in Job BY <2>1 DEF Job
  <2>4. /\ jobs[j] # NoJob /\ jobs'[j] # NoJob
        /\ jobs'[j].secret = jobs[j].secret
        /\ jobs'[j].enabled = jobs[j].enabled /\ jobs'[j].schedule = jobs[j].schedule
    BY <2>1, <2>2, <2>3, NoJobAssumption DEF TypeOK, RegistryTypes, Job
  <2>5. \A i \in Jobs : i # j => jobs'[i] = jobs[i] BY <2>2 DEF TypeOK, RegistryTypes
  <2>6. UNCHANGED <<mu, hpc, hjob, jobsFile, keyFile, used, gone>>
    BY <1>3 DEF ClockPasses, handlerVars, fileVars, worldVars
  <2> QED BY <2>4, <2>5, <2>6 DEF Harmless, LockedStates
<1>4. CASE Calendar
  <2>1. UNCHANGED <<mu, hpc, hjob, jobsFile, keyFile, used, gone>>
    BY <1>4 DEF Calendar, handlerVars, fileVars
  <2> QED BY <1>4, <2>1, CalendarKeeps DEF Harmless, LockedStates
<1>5. CASE UNCHANGED vars
  BY <1>5 DEF vars, Harmless, registryVars, handlerVars, fileVars, worldVars, LockedStates
<1> QED BY <1>1, <1>2, <1>3, <1>4, <1>5 DEF TimePasses

LEMMA HarmlessRequest ==
    ASSUME TypeOK, KnownRequests', NEW h \in Handlers,
           \/ Post(h) \/ Accept(h) \/ SetEnabled(h) \/ ClearLogs(h) \/ SaveClearedLogs(h)
           \/ Cancel(h) \/ (\E w \in Workers : Launch(h, w))
    PROVE  Harmless
<1> USE DEF Respond, registryVars, fileVars, worldVars, Harmless, LockedStates, AllRequests
<1>1. CASE Post(h)
  BY <1>1 DEF Post, TypeOK, HandlerTypes
<1>2. CASE Accept(h)
  <2>1. \A r \in Requests : r \in AllRequests BY ParameterAssumption
  <2> QED BY <1>2, <2>1 DEF Accept, TypeOK, HandlerTypes
<1>3. CASE SetEnabled(h)
  <2> DEFINE j == hjob[h]
             q == [jobs[j] EXCEPT !.enabled = (hpc[h] = "enable")]
  <2>1. j \in Jobs /\ mu = None /\ hpc[h] \in {"enable", "disable"}
    BY <1>3 DEF SetEnabled, TypeOK, HandlerTypes
  <2>2. /\ UNCHANGED <<mu, keyFile, used, gone>>
        /\ hpc' = [hpc EXCEPT ![h] = "idle"] /\ hjob' = [hjob EXCEPT ![h] = None]
    BY <1>3 DEF SetEnabled
  <2>3. CASE Exists(j)
    <3>1. jobs[j] \in Job BY <2>1, <2>3 DEF Exists, TypeOK, RegistryTypes
    <3>2. q \in Job /\ q.secret = jobs[j].secret BY <3>1 DEF Job
    <3>3. jobs' = [jobs EXCEPT ![j] = Rescheduled(q)] /\ SaveJobs(jobs')
      BY <1>3, <2>3 DEF SetEnabled
    <3> HIDE DEF q
    <3>4. jobs'[j] = Rescheduled(q) BY <2>1, <3>3 DEF TypeOK, RegistryTypes
    <3>5. jobs'[j] # NoJob /\ jobs'[j].secret = jobs[j].secret
      BY <3>2, <3>4, RescheduledKeeps
    <3>6. \A i \in Jobs : i # j => jobs'[i] = jobs[i] BY <3>3 DEF TypeOK, RegistryTypes
    <3>7. /\ jobsFile' \in {jobsFile, WholeRegistry(jobs')}
          /\ jobsFile' = WholeRegistry(jobs') \/ "write" \in Faults
      BY <3>3 DEF SaveJobs
    <3> HIDE DEF j
    <3>8. \A i \in Jobs :
            /\ (jobs'[i] = NoJob) <=> (jobs[i] = NoJob)
            /\ jobs[i] # NoJob => jobs'[i].secret = jobs[i].secret
      BY <2>3, <3>5, <3>6 DEF Exists
    <3>9. \A g \in Handlers :
            /\ hpc[g] \in LockedStates \/ hpc'[g] \in LockedStates
                 => hpc'[g] = hpc[g] /\ hjob'[g] = hjob[g]
            /\ hpc'[g] = "post" => hjob'[g] = hjob[g] /\ hpc[g] = "post"
      BY <2>1, <2>2 DEF TypeOK, HandlerTypes
    <3> QED BY <2>1, <2>2, <3>7, <3>8, <3>9
  <2>4. CASE ~Exists(j)
    BY <1>3, <2>2, <2>4 DEF SetEnabled, TypeOK, HandlerTypes
  <2> QED BY <2>3, <2>4
<1>4. CASE ClearLogs(h) BY <1>4 DEF ClearLogs, TypeOK, HandlerTypes
<1>5. CASE SaveClearedLogs(h) BY <1>5 DEF SaveClearedLogs, TypeOK, HandlerTypes
<1>6. CASE Cancel(h) BY <1>6 DEF Cancel, TypeOK, HandlerTypes
<1>7. CASE \E w \in Workers : Launch(h, w) BY <1>7 DEF Launch, TypeOK, HandlerTypes
<1> QED BY <1>1, <1>2, <1>3, <1>4, <1>5, <1>6, <1>7

LEMMA HarmlessRun ==
    ASSUME TypeOK, NEW w \in Workers, SpawnDue(w) \/ RunStep(w) \/ Expire(w) \/ Log(w)
    PROVE  Harmless
<1> USE DEF registryVars, handlerVars, fileVars, worldVars, Harmless, LockedStates
<1>1. CASE SpawnDue(w) BY <1>1 DEF SpawnDue
<1>2. CASE Run(w) \/ ExecuteMissing(w) \/ ExecuteSkips(w)
  BY <1>2 DEF Run, ExecuteMissing, ExecuteSkips
<1>3. CASE ExecuteStarts(w)
  <2> DEFINE j == job[w]
  <2>1. j \in Jobs /\ jobs[j] \in Job /\ jobs[j] # NoJob
    BY <1>3 DEF ExecuteStarts, Exists, TypeOK, RegistryTypes, WorkerTypes
  <2>2. [jobs[j] EXCEPT !.running = TRUE] \in Job BY <2>1 DEF Job
  <2>3. jobs' = [jobs EXCEPT ![j].running = TRUE] BY <1>3 DEF ExecuteStarts
  <2>4. /\ jobs'[j] # NoJob /\ jobs'[j].secret = jobs[j].secret
        /\ jobs'[j].enabled = jobs[j].enabled /\ jobs'[j].schedule = jobs[j].schedule
    <3> HIDE DEF j
    <3> QED BY <2>1, <2>2, <2>3, NoJobAssumption DEF TypeOK, RegistryTypes, Job
  <2>5. \A i \in Jobs : i # j => jobs'[i] = jobs[i] BY <2>3 DEF TypeOK, RegistryTypes
  <2>6. UNCHANGED <<mu, hpc, hjob, jobsFile, keyFile, used, gone>> BY <1>3 DEF ExecuteStarts
  <2> HIDE DEF j
  <2> QED BY <2>1, <2>4, <2>5, <2>6
<1>4. CASE LoadSecrets(w) \/ OpReturns(w) \/ AppendResult(w)
  BY <1>4 DEF LoadSecrets, OpReturns, AppendResult
<1>5. CASE Finish(w)
  <2> DEFINE j == job[w]
  <2>1. j \in Jobs /\ result[w] \in Codes BY <1>5 DEF Finish, TypeOK, WorkerTypes
  <2>2. UNCHANGED <<mu, hpc, hjob, jobsFile, keyFile, used, gone>> BY <1>5 DEF Finish
  <2>3. CASE Exists(j) /\ jobs' = [jobs EXCEPT ![j] = Ended(@, result[w])]
    <3> DEFINE q == [jobs[j] EXCEPT !.running = FALSE, !.last = result[w]]
    <3>1. jobs[j] \in Job BY <2>1, <2>3 DEF Exists, TypeOK, RegistryTypes
    <3>2. /\ q \in Job /\ q.secret = jobs[j].secret
          /\ q.enabled = jobs[j].enabled /\ q.schedule = jobs[j].schedule
      BY <2>1, <3>1 DEF Job
    <3>3. jobs'[j] = Rescheduled(q) BY <2>1, <2>3 DEF Ended, TypeOK, RegistryTypes
    <3> HIDE DEF q
    <3>4. /\ jobs'[j] # NoJob /\ jobs'[j].secret = jobs[j].secret
          /\ jobs'[j].enabled = jobs[j].enabled /\ jobs'[j].schedule = jobs[j].schedule
      BY <3>2, <3>3, RescheduledKeeps
    <3>5. \A i \in Jobs : i # j => jobs'[i] = jobs[i] BY <2>3 DEF TypeOK, RegistryTypes
    <3> HIDE DEF j
    <3> QED BY <2>2, <2>3, <3>4, <3>5 DEF Exists
  <2>4. CASE UNCHANGED jobs BY <2>2, <2>4
  <2> QED BY <1>5, <2>3, <2>4 DEF Finish
<1>6. CASE Record(w) BY <1>6 DEF Record, SaveJobs
<1>7. CASE SaveLogs(w) BY <1>7 DEF SaveLogs
<1>8. CASE Expire(w) BY <1>8 DEF Expire
<1>9. CASE Log(w) BY <1>9 DEF Log
<1> QED BY <1>1, <1>2, <1>3, <1>4, <1>5, <1>6, <1>7, <1>8, <1>9 DEF RunStep

\* What is left are the steps the invariants below have to look at.
LEMMA FileSteps ==
    ASSUME TypeOK, KnownRequests', [Next]_vars
    PROVE  \/ Harmless \/ Restart
           \/ \E h \in Handlers : Put(h) \/ Delete(h) \/ LockedStep(h)
<1>1. CASE Daemon \/ UNCHANGED vars BY <1>1, HarmlessDaemon DEF Daemon
<1>2. CASE Ticker BY <1>2, HarmlessDaemon, HarmlessRun DEF Ticker
<1>3. CASE TimePasses BY <1>3, HarmlessDaemon
<1>4. CASE \E h \in Handlers : Request(h) \/ LockedStep(h)
  BY <1>4, HarmlessRequest DEF Request
<1>5. CASE \E w \in Workers : RunStep(w) \/ Expire(w) \/ Log(w) BY <1>5, HarmlessRun
<1> QED BY <1>1, <1>2, <1>3, <1>4, <1>5 DEF Next

-----------------------------------------------------------------------------
(* The two operations that write several files *)

LEMMA PutEffect ==
    ASSUME TypeOK, NEW h \in Handlers, Put(h)
    PROVE  /\ hjob[h] \in Jobs /\ hpc[h] \in {"post", "put"} /\ mu = None
           /\ jobs'[hjob[h]] # NoJob /\ \A i \in Jobs : i # hjob[h] => jobs'[i] = jobs[i]
           /\ KeepLock(h, "put-jobs") \/ (Unlock(h) /\ "write" \in Faults)
           /\ UNCHANGED <<jobsFile, gone, used>>
           /\ \A i \in Jobs : i # hjob[h] => keyFile'[i] = keyFile[i]
           /\ NoFileErrors => keyFile'[hjob[h]] >= keyFile[hjob[h]]
           /\ NoFileErrors /\ KeyNotOlderThanMemory => keyFile'[hjob[h]] >= jobs'[hjob[h]].secret
<1> DEFINE j == hjob[h]
           known == IF Exists(j) THEN jobs[j].secret ELSE 0
           fresh == Newer(keyFile[j], known) + 1
<1>1. j \in Jobs /\ hpc[h] \in {"post", "put"} /\ mu = None BY DEF Put, TypeOK, HandlerTypes
<1>2. known \in Nat /\ keyFile[j] \in Nat
  BY <1>1 DEF Exists, Job, TypeOK, RegistryTypes, FileTypes
<1>3. fresh \in Nat /\ fresh >= keyFile[j] BY <1>2 DEF Newer
<1>4. PICK enabled \in BOOLEAN, schedule \in Schedules, given \in BOOLEAN :
        /\ jobs' = [jobs EXCEPT ![j] =
                     Redefined(jobs[j], enabled, schedule, IF given THEN fresh ELSE known)]
        /\ \/ /\ keyFile' = IF given THEN [keyFile EXCEPT ![j] = fresh] ELSE keyFile
              /\ KeepLock(h, "put-jobs")
           \/ /\ ~given /\ "read" \in Faults
              /\ keyFile' = [keyFile EXCEPT ![j] = 0]
              /\ KeepLock(h, "put-jobs")
           \/ /\ "write" \in Faults
              /\ Unlock(h) /\ UNCHANGED keyFile
  BY DEF Put
<1>5. jobsFile' = jobsFile /\ gone' = gone /\ used' = used BY DEF Put, worldVars
<1>6. jobs'[j] # NoJob /\ jobs'[j].secret = IF given THEN fresh ELSE known
  <2>1. (IF given THEN fresh ELSE known) \in Nat /\ schedule \in ScheduleTypes
    BY <1>2, <1>3, ParameterAssumption
  <2>2. jobs[j] \in Job \cup {NoJob} BY <1>1 DEF TypeOK, RegistryTypes
  <2>3. jobs'[j] = Redefined(jobs[j], enabled, schedule, IF given THEN fresh ELSE known)
    BY <1>1, <1>4 DEF TypeOK, RegistryTypes
  <2> HIDE DEF j, known, fresh
  <2>4. enabled \in BOOLEAN OBVIOUS
  <2> QED BY <2>1, <2>2, <2>3, <2>4, RedefinedKeepsFlag
<1>7. KeyNotOlderThanMemory => keyFile[j] >= known
  BY <1>1, <1>2 DEF KeyNotOlderThanMemory
<1>8. /\ \A i \in Jobs : i # j => jobs'[i] = jobs[i]
      /\ \A i \in Jobs : i # j => keyFile'[i] = keyFile[i]
  BY <1>4 DEF TypeOK, RegistryTypes, FileTypes
<1> HIDE DEF j, known, fresh
<1>9. NoFileErrors => keyFile'[j] = IF given THEN fresh ELSE keyFile[j]
  BY <1>1, <1>4 DEF NoFileErrors, TypeOK, FileTypes
<1> QED BY <1>1, <1>2, <1>3, <1>4, <1>5, <1>6, <1>7, <1>8, <1>9 DEF j

LEMMA DeleteEffect ==
    ASSUME TypeOK, NEW h \in Handlers, Delete(h)
    PROVE  /\ hjob[h] \in Jobs /\ hpc[h] = "delete" /\ mu = None
           /\ jobs' = [jobs EXCEPT ![hjob[h]] = NoJob]
           /\ UNCHANGED <<keyFile, gone, used>>
           /\ \/ jobsFile' = WholeRegistry(jobs') /\ KeepLock(h, "delete-logs")
              \/ "write" \in Faults /\ UNCHANGED jobsFile /\ Unlock(h)
BY DEF Delete, TypeOK, HandlerTypes, worldVars

\* PutSaveJobs, DeleteLogs and DeleteSecrets: the mutex is with the request.
LEMMA LockedEffect ==
    ASSUME TypeOK, LockHolder, NEW h \in Handlers, LockedStep(h)
    PROVE  /\ hjob[h] \in Jobs /\ hpc[h] \in LockedStates /\ mu = h
           /\ UNCHANGED <<jobs, used>>
           /\ \/ hpc[h] = "delete-logs" /\ KeepLock(h, "delete-keys")
              \/ Unlock(h)
           /\ \/ hpc[h] = "put-jobs" /\ jobsFile' = WholeRegistry(jobs)
              \/ UNCHANGED jobsFile /\ (hpc[h] = "put-jobs" => "write" \in Faults)
           /\ \/ UNCHANGED <<keyFile, gone>>
              \/ /\ hpc[h] = "delete-keys"
                 /\ keyFile' = [keyFile EXCEPT ![hjob[h]] = 0] /\ gone' = gone \cup {hjob[h]}
<1>1. hpc[h] \in LockedStates /\ hjob[h] \in Jobs
  BY DEF LockedStep, PutSaveJobs, DeleteLogs, DeleteSecrets, LockedStates, TypeOK, HandlerTypes
<1>2. mu = h BY <1>1 DEF LockHolder
<1>3. CASE PutSaveJobs(h)
  BY <1>1, <1>2, <1>3 DEF PutSaveJobs, SaveJobs, registryVars, worldVars
<1>4. CASE DeleteLogs(h) BY <1>1, <1>2, <1>4 DEF DeleteLogs, registryVars, worldVars
<1>5. CASE DeleteSecrets(h) BY <1>1, <1>2, <1>5 DEF DeleteSecrets, registryVars, worldVars
<1> QED BY <1>3, <1>4, <1>5 DEF LockedStep

-----------------------------------------------------------------------------
(* The mutex between two file operations *)

LEMMA LockInit == Init => LockInv
BY DEF Init, LockInv, LockHolder, DeletedFirst, LockedStates

LEMMA LockStep ==
    ASSUME TypeOK, KnownRequests', LockInv, [Next]_vars
    PROVE  LockInv'
<1> USE DEF LockInv, LockHolder, DeletedFirst, LockedStates, Exists
<1>1. CASE Harmless
  <2>1. \A h \in Handlers : hpc'[h] \in LockedStates =>
          hpc'[h] = hpc[h] /\ hjob'[h] = hjob[h] /\ hjob[h] \in Jobs
    BY <1>1 DEF Harmless, TypeOK, HandlerTypes
  <2>2. \A j \in Jobs : jobs[j] = NoJob /\ jobsFile[j] = NoJob
          => jobs'[j] = NoJob /\ jobsFile'[j] = NoJob
    BY <1>1 DEF Harmless, WholeRegistry, Stored
  <2>3. mu' = mu BY <1>1 DEF Harmless
  <2> QED BY <2>1, <2>2, <2>3
<1>2. CASE Restart BY <1>2 DEF Restart
<1>3. ASSUME NEW h \in Handlers, Put(h) PROVE LockInv'
  <2>1. \A g \in Handlers : hpc[g] \notin LockedStates
    BY <1>3, PutEffect, NoneAssumption
  <2> QED BY <1>3, <2>1, PutEffect DEF KeepLock, Unlock, Respond, TypeOK, HandlerTypes
<1>4. ASSUME NEW h \in Handlers, Delete(h) PROVE LockInv'
  <2>1. \A g \in Handlers : hpc[g] \notin LockedStates
    BY <1>4, DeleteEffect, NoneAssumption
  <2> QED
    BY <1>4, <2>1, DeleteEffect
    DEF KeepLock, Unlock, Respond, WholeRegistry, Stored, TypeOK, HandlerTypes, RegistryTypes
<1>5. ASSUME NEW h \in Handlers, LockedStep(h) PROVE LockInv'
  <2>1. \A g \in Handlers : hpc[g] \in LockedStates => g = h
    BY <1>5, LockedEffect, NoneAssumption
  <2> QED BY <1>5, <2>1, LockedEffect DEF KeepLock, Unlock, Respond, TypeOK, HandlerTypes
<1> QED BY <1>1, <1>2, <1>3, <1>4, <1>5, FileSteps

THEOREM LockCorrect == Spec => []LockInv
<1>1. TypeOK /\ KnownRequests /\ LockInv /\ [Next]_vars => LockInv'
  BY LockStep, KnownRequestsStep
<1> QED BY <1>1, LockInit, KnownRequestsAlways, TypeCorrect, PTL DEF Spec

-----------------------------------------------------------------------------
(* Keys *)

LEMMA KeysInit == Init => KeyNotOlderThanMemory /\ KeyNotOlderThanJob
BY DEF Init, KeyNotOlderThanMemory, KeyNotOlderThanJob, Exists

\* Whatever jobs.json has comes from the registry, whose keys are on disk.
LEMMA KeysStep ==
    ASSUME NoFileErrors, TypeOK, TypeOK', KnownRequests', KeysInv, LockInv', [Next]_vars
    PROVE  KeysInv'
<1> SUFFICES ASSUME NEW j \in Jobs
             PROVE  /\ jobs'[j] # NoJob => keyFile'[j] >= jobs'[j].secret
                    /\ jobsFile'[j] # NoJob => keyFile'[j] >= jobsFile'[j].secret
  BY DEF KeysInv, KeyNotOlderThanMemory, KeyNotOlderThanJob, Exists
<1>1. /\ jobs[j] # NoJob => keyFile[j] >= jobs[j].secret
      /\ jobsFile[j] # NoJob => keyFile[j] >= jobsFile[j].secret
  BY DEF KeysInv, KeyNotOlderThanMemory, KeyNotOlderThanJob, Exists
<1>2. jobs \in [Jobs -> Job \cup {NoJob}] /\ jobs' \in [Jobs -> Job \cup {NoJob}]
  BY DEF TypeOK, RegistryTypes
<1>3. /\ WholeRegistry(jobs')[j] # NoJob =>
           jobs'[j] # NoJob /\ WholeRegistry(jobs')[j].secret = jobs'[j].secret
      /\ WholeRegistry(jobs)[j] # NoJob =>
           jobs[j] # NoJob /\ WholeRegistry(jobs)[j].secret = jobs[j].secret
  BY <1>2, WholeRegistryKeeps
<1>4. CASE Harmless BY <1>1, <1>3, <1>4 DEF Harmless
<1>5. CASE Restart
  <2>1. jobsFile[j] \in Job \cup {NoJob} BY DEF TypeOK, FileTypes
  <2>2. jobs'[j] = Loaded(jobsFile[j]) /\ jobsFile' = jobsFile /\ keyFile' = keyFile
    BY <1>5 DEF Restart, fileVars
  <2> QED BY <1>1, <2>1, <2>2, LoadedKeeps
<1>6. ASSUME NEW h \in Handlers, Put(h)
      PROVE  /\ jobs'[j] # NoJob => keyFile'[j] >= jobs'[j].secret
             /\ jobsFile'[j] # NoJob => keyFile'[j] >= jobsFile'[j].secret
  <2>1. CASE j = hjob[h]
    <3>1. /\ keyFile'[j] >= keyFile[j] /\ keyFile'[j] >= jobs'[j].secret
          /\ jobsFile' = jobsFile
      BY <1>6, <2>1, PutEffect DEF KeysInv
    <3>2. keyFile[j] \in Nat /\ keyFile'[j] \in Nat BY DEF TypeOK, FileTypes
    <3>3. jobsFile[j] # NoJob => jobsFile[j].secret \in Nat BY DEF TypeOK, FileTypes, Job
    <3> QED BY <1>1, <3>1, <3>2, <3>3
  <2>2. CASE j # hjob[h] BY <1>1, <1>6, <2>2, PutEffect
  <2> QED BY <2>1, <2>2
<1>7. ASSUME NEW h \in Handlers, Delete(h)
      PROVE  /\ jobs'[j] # NoJob => keyFile'[j] >= jobs'[j].secret
             /\ jobsFile'[j] # NoJob => keyFile'[j] >= jobsFile'[j].secret
  <2>1. jobs'[j] # NoJob => jobs'[j] = jobs[j] BY <1>7, <1>2, DeleteEffect
  <2>2. keyFile' = keyFile /\ jobsFile' \in {jobsFile, WholeRegistry(jobs')}
    BY <1>7, DeleteEffect
  <2> QED BY <1>1, <1>3, <2>1, <2>2
<1>8. ASSUME NEW h \in Handlers, LockedStep(h)
      PROVE  /\ jobs'[j] # NoJob => keyFile'[j] >= jobs'[j].secret
             /\ jobsFile'[j] # NoJob => keyFile'[j] >= jobsFile'[j].secret
  <2>1. jobs' = jobs /\ jobsFile' \in {jobsFile, WholeRegistry(jobs)}
    BY <1>8, LockedEffect DEF KeysInv, LockInv
  <2>2. CASE hpc[h] = "delete-keys" /\ hjob[h] = j
    <3>1. jobs[j] = NoJob /\ jobsFile[j] = NoJob BY <2>2 DEF KeysInv, LockInv, DeletedFirst, Exists
    <3> QED BY <1>3, <2>1, <3>1
  <2>3. CASE ~(hpc[h] = "delete-keys" /\ hjob[h] = j)
    <3>1. keyFile'[j] = keyFile[j]
      BY <1>8, <2>3, LockedEffect DEF KeysInv, LockInv, TypeOK, FileTypes
    <3> QED BY <1>1, <1>3, <2>1, <3>1
  <2> QED BY <2>2, <2>3
<1> QED BY <1>4, <1>5, <1>6, <1>7, <1>8, FileSteps

\* Without file errors the key file is behind neither the registry nor jobs.json:
\* Put writes it before both change, Delete removes it after the job is out of both.
THEOREM KeysCorrect == ASSUME NoFileErrors PROVE Spec => []KeysInv
<1>1. TypeOK /\ TypeOK' /\ KnownRequests' /\ KeysInv /\ LockInv' /\ [Next]_vars => KeysInv'
  BY KeysStep
<1>2. Init => KeysInv BY KeysInit, LockInit DEF KeysInv
<1> QED BY <1>1, <1>2, LockCorrect, KnownRequestsAlways, TypeCorrect, PTL DEF Spec

\* Without file errors, no crash finds a job in jobs.json whose key file is
\* missing or older than the job (the order of SaveSecrets and SaveJobs in Put,
\* of persistJobsLocked and DeleteSecrets in Delete).
THEOREM KeysNeverOlder == ASSUME NoFileErrors PROVE Spec => []KeyNotOlderThanJob
<1>1. KeysInv => KeyNotOlderThanJob BY DEF KeysInv
<1> QED BY <1>1, KeysCorrect, PTL

-----------------------------------------------------------------------------
(* The registry and jobs.json *)

LEMMA WholeRegistryIsSame ==
    ASSUME TypeOK', jobsFile' = WholeRegistry(jobs'), NEW j \in Jobs
    PROVE  SameDefinition(j)'
<1>1. jobs' \in [Jobs -> Job \cup {NoJob}] BY DEF TypeOK, RegistryTypes
<1> QED BY <1>1, WholeRegistryKeeps DEF SameDefinition, Exists

LEMMA DurableStep ==
    ASSUME "write" \notin Faults, TypeOK, TypeOK', KnownRequests', DurableInv, LockInv', [Next]_vars
    PROVE  DurableInv'
<1> SUFFICES ASSUME \A h \in Handlers : hpc'[h] # "put-jobs", NEW j \in Jobs
             PROVE  SameDefinition(j)'
  BY DEF DurableInv
<1>1. CASE jobsFile' = WholeRegistry(jobs') BY <1>1, WholeRegistryIsSame
<1>2. CASE Harmless /\ jobsFile' # WholeRegistry(jobs')
  <2>1. \A h \in Handlers : hpc[h] # "put-jobs" BY <1>2 DEF Harmless, LockedStates
  <2>2. SameDefinition(j) BY <2>1 DEF DurableInv
  <2> QED BY <1>2, <2>2 DEF Harmless, SameDefinition, Exists
<1>3. CASE Restart
  <2>1. jobsFile[j] \in Job \cup {NoJob} BY DEF TypeOK, FileTypes
  <2>2. jobs'[j] = Loaded(jobsFile[j]) /\ jobsFile' = jobsFile BY <1>3 DEF Restart, fileVars
  <2> QED BY <2>1, <2>2, LoadedKeeps DEF SameDefinition, Exists
<1>4. ASSUME NEW h \in Handlers, Put(h) PROVE FALSE
  BY <1>4, PutEffect DEF KeepLock, TypeOK, HandlerTypes
<1>5. ASSUME NEW h \in Handlers, Delete(h) PROVE jobsFile' = WholeRegistry(jobs')
  BY <1>5, DeleteEffect
<1>6. ASSUME NEW h \in Handlers, LockedStep(h) PROVE SameDefinition(j)'
  <2>1. CASE hpc[h] = "put-jobs"
    BY <1>6, <2>1, <1>1, LockedEffect DEF DurableInv, LockInv
  <2>2. CASE hpc[h] # "put-jobs"
    <3>1. \A g \in Handlers : hpc[g] # "put-jobs"
      BY <1>6, <2>2, LockedEffect DEF DurableInv, LockInv, LockHolder, LockedStates
    <3>2. SameDefinition(j) BY <3>1 DEF DurableInv
    <3>3. jobs' = jobs /\ jobsFile' = jobsFile
      BY <1>6, <2>2, LockedEffect DEF DurableInv, LockInv
    <3> QED BY <3>2, <3>3 DEF SameDefinition, Exists
  <2> QED BY <2>1, <2>2
<1> QED BY <1>1, <1>2, <1>3, <1>4, <1>5, <1>6, FileSteps

\* Without write errors a crash between two critical sections loses no edit: every
\* change of the registry is in jobs.json before the mutex is given back
\* (persistJobsLocked in Put, Delete and SetEnabled).
THEOREM EditsAreDurable == ASSUME "write" \notin Faults PROVE Spec => []RegistryIsDurable
<1>1. Init => DurableInv
  BY LockInit DEF Init, DurableInv, SameDefinition, Exists
<1>2. TypeOK /\ TypeOK' /\ KnownRequests' /\ DurableInv /\ LockInv' /\ [Next]_vars => DurableInv'
  BY DurableStep
<1>3. TypeOK /\ DurableInv => RegistryIsDurable
  BY NoneAssumption DEF DurableInv, LockInv, LockHolder, LockedStates, RegistryIsDurable
<1> QED BY <1>1, <1>2, <1>3, LockCorrect, KnownRequestsAlways, TypeCorrect, PTL DEF Spec

-----------------------------------------------------------------------------
(* Deleted jobs *)

LEMMA DeletedStep ==
    ASSUME TypeOK, TypeOK', RunsInv, KnownRequests', LockInv, DeletedInv, [Next]_vars,
           [NoRevival]_vars
    PROVE  DeletedInv'
<1> USE DEF Exists
<1>1. \A i \in Jobs : jobs[i] = NoJob => WholeRegistry(jobs)[i] = NoJob
  BY DEF WholeRegistry, Stored
<1>2. \A i \in Jobs : jobs'[i] = NoJob => WholeRegistry(jobs')[i] = NoJob
  BY DEF WholeRegistry, Stored
<1>3. gone \subseteq Jobs BY DEF TypeOK
<1>4. CASE Harmless
  BY <1>2, <1>3, <1>4 DEF Harmless, DeletedInv, DeletedStaysDeleted
<1>5. CASE Restart
  BY <1>3, <1>5
  DEF Restart, fileVars, worldVars, DeletedInv, DeletedStaysDeleted, Loaded
<1>6. ASSUME NEW h \in Handlers, Put(h) PROVE DeletedInv'
  <2>1. vars' # vars
    BY <1>6, PutEffect, NoneAssumption
    DEF vars, handlerVars, KeepLock, Unlock, Respond, TypeOK, HandlerTypes
  <2>2. hjob[h] \notin gone
    BY <1>6, <2>1, PutEffect DEF DeletedInv, DeletedStaysDeleted, NoRevival
  <2> QED
    BY <1>3, <1>6, <2>2, PutEffect
    DEF DeletedInv, DeletedStaysDeleted, KeepLock, Unlock, Respond, TypeOK, HandlerTypes
<1>7. ASSUME NEW h \in Handlers, Delete(h) PROVE DeletedInv'
  BY <1>2, <1>3, <1>7, DeleteEffect
  DEF DeletedInv, DeletedStaysDeleted, KeepLock, Unlock, Respond, TypeOK, HandlerTypes, RegistryTypes
<1>8. ASSUME NEW h \in Handlers, LockedStep(h) PROVE DeletedInv'
  <2>1. hjob[h] \in Jobs /\ jobs' = jobs /\ used' = used
    BY <1>8, LockedEffect DEF LockInv
  <2>2. jobsFile' \in {jobsFile, WholeRegistry(jobs)} BY <1>8, LockedEffect DEF LockInv
  <2>3. CASE UNCHANGED <<keyFile, gone>>
    BY <1>1, <1>3, <1>8, <2>1, <2>2, <2>3, LockedEffect
    DEF DeletedInv, DeletedStaysDeleted, KeepLock, Unlock, Respond, LockInv, TypeOK, HandlerTypes,
        LockedStates
  <2>4. CASE /\ hpc[h] = "delete-keys"
             /\ keyFile' = [keyFile EXCEPT ![hjob[h]] = 0] /\ gone' = gone \cup {hjob[h]}
    <3>1. jobs[hjob[h]] = NoJob /\ jobsFile[hjob[h]] = NoJob
      BY <2>4 DEF LockInv, DeletedFirst
    <3>2. \A j \in gone' : jobs'[j] = NoJob /\ jobsFile'[j] = NoJob /\ keyFile'[j] = 0
      BY <1>1, <1>3, <2>1, <2>2, <2>4, <3>1
      DEF DeletedInv, DeletedStaysDeleted, TypeOK, FileTypes
    <3>3. hjob[h] \in used
      BY <2>1 DEF RunsInv, FreshIds
    <3>4. \A g \in Handlers : hpc'[g] = "post" => hpc[g] = "post" /\ hjob'[g] = hjob[g] /\ g # h
      BY <1>8, <2>4, LockedEffect
      DEF LockInv, KeepLock, Unlock, Respond, TypeOK, HandlerTypes, LockedStates
    <3>5. \A g \in Handlers : hpc[g] = "post" /\ g # h => hjob[g] # hjob[h]
      BY DEF RunsInv, FreshIds
    <3> QED BY <2>1, <2>4, <3>2, <3>3, <3>4, <3>5 DEF DeletedInv, DeletedStaysDeleted
  <2> QED BY <1>8, <2>3, <2>4, LockedEffect DEF LockInv
<1> QED BY <1>4, <1>5, <1>6, <1>7, <1>8, FileSteps

\* A DELETE that was answered with success is final - whatever fails, and also
\* after a restart - in every behaviour in which no PUT that had found the job
\* before is applied after it (Delete).
THEOREM DeletedIsFinal == Spec /\ NoPutRevives => []DeletedStaysDeleted
<1>1. Init => DeletedInv
  BY DEF Init, DeletedInv, DeletedStaysDeleted
<1>2. /\ TypeOK /\ TypeOK' /\ RunsInv /\ KnownRequests' /\ LockInv /\ DeletedInv /\ [Next]_vars
      /\ [NoRevival]_vars
      => DeletedInv'
  BY DeletedStep
<1>3. DeletedInv => DeletedStaysDeleted BY DEF DeletedInv
<1> QED
  BY <1>1, <1>2, <1>3, RunsCorrect, KnownRequestsAlways, LockCorrect, TypeCorrect, PTL
  DEF Spec, NoPutRevives

=============================================================================
