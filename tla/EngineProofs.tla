---------------------------- MODULE EngineProofs ----------------------------
(***************************************************************************)
(* Proofs about Engine, for any number of jobs, runs and requests: type    *)
(* correctness; no two runs of a job overlap, as long as no PUT brings a   *)
(* deleted job back; which clients never send such a PUT; and the engine   *)
(* implements JobRuns.  EngineFiles and EngineRuns build on it.            *)
(***************************************************************************)
EXTENDS EngineInvariants, SequenceTheorems, TLAPS

-----------------------------------------------------------------------------
(* What the helpers return *)

LEMMA RescheduledType == ASSUME NEW r \in Job PROVE Rescheduled(r) \in Job
BY DEF Rescheduled, Job

\* The calendar changes nothing of a job but its next time.
LEMMA DateComeKeeps ==
    ASSUME NEW r \in Job
    PROVE  /\ DateCome(r) \in Job /\ DateCome(r) # NoJob
           /\ DateCome(r).running = r.running /\ DateCome(r).secret = r.secret
           /\ DateCome(r).enabled = r.enabled /\ DateCome(r).schedule = r.schedule
BY NoJobAssumption DEF DateCome, Job

LEMMA CalendarKeeps ==
    ASSUME TypeOK, Calendar
    PROVE  /\ jobs' \in [Jobs -> Job \cup {NoJob}]
           /\ \A j \in Jobs :
                 /\ (jobs'[j] = NoJob) <=> (jobs[j] = NoJob)
                 /\ jobs[j] # NoJob =>
                      /\ jobs'[j].running = jobs[j].running /\ jobs'[j].secret = jobs[j].secret
                      /\ jobs'[j].enabled = jobs[j].enabled /\ jobs'[j].schedule = jobs[j].schedule
<1>1. jobs' = [j \in Jobs |-> IF ahead THEN DateCome(jobs[j]) ELSE jobs[j]] BY DEF Calendar
<1>2. \A j \in Jobs : jobs[j] \in Job \cup {NoJob} BY DEF TypeOK, RegistryTypes
<1>3. DateCome(NoJob) = NoJob BY DEF DateCome
<1> QED BY <1>1, <1>2, <1>3, DateComeKeeps

LEMMA EndedType ==
    ASSUME NEW r \in Job, NEW code \in Codes PROVE Ended(r, code) \in Job
<1>1. [r EXCEPT !.running = FALSE, !.last = code] \in Job BY DEF Job
<1> QED BY <1>1, RescheduledType DEF Ended

LEMMA EnabledType ==
    ASSUME NEW r \in Job, NEW enabled \in BOOLEAN PROVE [r EXCEPT !.enabled = enabled] \in Job
BY DEF Job

LEMMA StoredType ==
    ASSUME NEW r \in Job \cup {NoJob} PROVE Stored(r) \in Job \cup {NoJob}
BY DEF Stored, Job

LEMMA LoadedType ==
    ASSUME NEW r \in Job \cup {NoJob} PROVE Loaded(r) \in Job \cup {NoJob}
<1>1. CASE r = NoJob BY <1>1 DEF Loaded
<1>2. CASE r \in Job /\ r # NoJob
  <2>1. [r EXCEPT !.running = FALSE, !.last = IF r.running THEN "cancelled" ELSE @] \in Job
    BY <1>2 DEF Job, Codes
  <2> QED BY <1>2, <2>1, RescheduledType DEF Loaded
<1> QED BY <1>1, <1>2

LEMMA RedefinedType ==
    ASSUME NEW r \in Job \cup {NoJob}, NEW enabled \in BOOLEAN,
           NEW schedule \in ScheduleTypes, NEW secret \in Nat
    PROVE  Redefined(r, enabled, schedule, secret) \in Job
<1>1. [enabled |-> enabled, schedule |-> schedule, next |-> "never",
       running |-> IF r = NoJob THEN FALSE ELSE r.running,
       last    |-> IF r = NoJob THEN "none" ELSE r.last,
       secret  |-> secret] \in Job
  BY DEF Job
<1> QED BY <1>1, RescheduledType DEF Redefined

LEMMA WholeRegistryType ==
    ASSUME NEW registry \in [Jobs -> Job \cup {NoJob}]
    PROVE  WholeRegistry(registry) \in [Jobs -> Job \cup {NoJob}]
BY StoredType DEF WholeRegistry

\* record keeps the history within its limit.
LEMMA PrependType ==
    ASSUME NEW code \in Codes, NEW history \in Histories
    PROVE  Prepend(code, history) \in Histories
<1> DEFINE all == <<code>> \o history
<1>1. history \in Seq(Codes) /\ Len(history) <= MaxLogEntries BY DEF Histories
<1>2. <<code>> \in Seq(Codes) BY DEF Codes
<1>3. all \in Seq(Codes) BY <1>1, <1>2, ConcatProperties
<1>4. Len(all) \in Nat BY <1>3, LenProperties
<1>5. CASE Len(all) > MaxLogEntries
  <2>0. MaxLogEntries \in Nat BY ParameterAssumption
  <2>1. \A i \in 1..MaxLogEntries : all[i] \in Codes
    BY <1>3, <1>4, <1>5, <2>0, ElementOfSeq
  <2>2. SubSeq(all, 1, MaxLogEntries) \in Seq(Codes) /\ Len(SubSeq(all, 1, MaxLogEntries)) = MaxLogEntries
    BY <1>3, <1>4, <1>5, <2>0, <2>1, SubSeqProperties
  <2> QED BY <1>5, <2>0, <2>2 DEF Prepend, Histories
<1>6. CASE ~(Len(all) > MaxLogEntries)
  <2> QED BY <1>3, <1>4, <1>6, ParameterAssumption DEF Prepend, Histories
<1> QED BY <1>5, <1>6

LEMMA EmptyHistoryType == <<>> \in Histories
<1>1. <<>> \in Seq(Codes) /\ Len(<<>>) = 0 BY EmptySeq
<1> QED BY <1>1, ParameterAssumption DEF Histories

-----------------------------------------------------------------------------
(* Type correctness *)

LEMMA TypeInit == Init => TypeOK
<1> SUFFICES ASSUME Init PROVE TypeOK OBVIOUS
<1>1. ahead \in BOOLEAN
  <2>1. ahead \in IF "dated" \in Schedules THEN BOOLEAN ELSE {TRUE} BY DEF Init
  <2> QED BY <2>1
<1>2. life \in {"up", "stopping"} /\ used \in SUBSET Jobs /\ gone \in SUBSET Jobs
  BY DEF Init
<1>3. RegistryTypes BY EmptyHistoryType DEF Init, RegistryTypes
<1>4. WorkerTypes BY EmptyHistoryType DEF Init, WorkerTypes, WorkerStates, Codes
<1>5. HandlerTypes BY DEF Init, HandlerTypes, HandlerStates
<1>6. FileTypes BY EmptyHistoryType DEF Init, FileTypes
<1> QED BY <1>1, <1>2, <1>3, <1>4, <1>5, <1>6 DEF TypeOK

LEMMA ReturnTypes ==
    ASSUME WorkerTypes, NEW w \in Workers, Return(w) PROVE WorkerTypes'
BY EmptyHistoryType DEF WorkerTypes, Return, WorkerStates, Codes

LEMMA RespondTypes ==
    ASSUME HandlerTypes, NEW h \in Handlers, Respond(h), mu' \in {mu, None}
    PROVE  HandlerTypes'
BY DEF HandlerTypes, Respond, HandlerStates

LEMMA KeepLockTypes ==
    ASSUME HandlerTypes, NEW h \in Handlers, hpc[h] # "idle",
           NEW label \in HandlerStates, KeepLock(h, label)
    PROVE  HandlerTypes'
BY DEF HandlerTypes, KeepLock

LEMMA SaveJobsTypes ==
    ASSUME NEW registry \in [Jobs -> Job \cup {NoJob}], SaveJobs(registry), FileTypes
    PROVE  jobsFile' \in [Jobs -> Job \cup {NoJob}]
BY WholeRegistryType DEF SaveJobs, FileTypes

LEMMA TypeStep == TypeOK /\ [Next]_vars => TypeOK'
<1> SUFFICES ASSUME TypeOK, [Next]_vars PROVE TypeOK' OBVIOUS
<1> USE DEF TypeOK, RegistryTypes, WorkerTypes, HandlerTypes, FileTypes
<1>1. CASE Stop
  BY <1>1 DEF Stop, registryVars, handlerVars, fileVars, worldVars
<1>2. CASE Restart
  BY <1>2, LoadedType, EmptyHistoryType
  DEF Restart, fileVars, worldVars, WorkerStates, HandlerStates, Holding, Codes
<1>3. ASSUME NEW j \in Jobs, ClockPasses(j) PROVE TypeOK'
  <2>1. jobs[j] \in Job BY <1>3 DEF ClockPasses, Exists
  <2>2. [jobs[j] EXCEPT !.next = "due"] \in Job BY <2>1 DEF Job
  <2>3. jobs' = [jobs EXCEPT ![j] = [jobs[j] EXCEPT !.next = "due"]] BY <1>3 DEF ClockPasses
  <2>4. jobs' \in [Jobs -> Job \cup {NoJob}] BY <2>2, <2>3
  <2> QED BY <1>3, <2>4 DEF ClockPasses, workerVars, handlerVars, fileVars, worldVars
<1>31. CASE Calendar
  BY <1>31, CalendarKeeps DEF Calendar, workerVars, handlerVars, fileVars
<1>4. CASE FireDue
  BY <1>4 DEF FireDue, registryVars, workerVars, handlerVars, fileVars, worldVars
<1>5. ASSUME NEW w \in Workers, SpawnDue(w) PROVE TypeOK'
  BY <1>5 DEF SpawnDue, Spawn, registryVars, handlerVars, fileVars, worldVars, WorkerStates
<1>6. ASSUME NEW h \in Handlers, Post(h) PROVE TypeOK'
  BY <1>6 DEF Post, registryVars, workerVars, fileVars, HandlerStates, AllRequests
<1>7. ASSUME NEW h \in Handlers, Accept(h) PROVE TypeOK'
  BY <1>7, ParameterAssumption
  DEF Accept, registryVars, workerVars, fileVars, worldVars, HandlerStates
<1>8. ASSUME NEW h \in Handlers, Put(h) PROVE TypeOK'
  <2> DEFINE j == hjob[h]
             known == IF Exists(j) THEN jobs[j].secret ELSE 0
             fresh == Newer(keyFile[j], known) + 1
  <2>1. j \in Jobs /\ hpc[h] # "idle" BY <1>8 DEF Put
  <2>2. known \in Nat /\ fresh \in Nat
    BY <2>1 DEF Exists, Newer, Job
  <2>3. PICK enabled \in BOOLEAN, schedule \in Schedules, given \in BOOLEAN :
          /\ jobs' = [jobs EXCEPT ![j] =
                        Redefined(jobs[j], enabled, schedule, IF given THEN fresh ELSE known)]
          /\ \/ keyFile' = [keyFile EXCEPT ![j] = fresh] /\ KeepLock(h, "put-jobs")
             \/ keyFile' = [keyFile EXCEPT ![j] = 0] /\ KeepLock(h, "put-jobs")
             \/ keyFile' = keyFile /\ KeepLock(h, "put-jobs")
             \/ keyFile' = keyFile /\ Unlock(h)
    BY <1>8 DEF Put
  <2>4. jobs' \in [Jobs -> Job \cup {NoJob}]
    <3>1. jobs[j] \in Job \cup {NoJob} BY <2>1
    <3>2. \A r \in Job : [jobs EXCEPT ![j] = r] \in [Jobs -> Job \cup {NoJob}] OBVIOUS
    <3> HIDE DEF j, known, fresh
    <3>3. jobs' = [jobs EXCEPT ![j] =
                     Redefined(jobs[j], enabled, schedule, IF given THEN fresh ELSE known)]
      BY <2>3
    <3>4. /\ schedule \in ScheduleTypes
          /\ (IF given THEN fresh ELSE known) \in Nat
      BY <2>2, ParameterAssumption
    <3>5. Redefined(jobs[j], enabled, schedule, IF given THEN fresh ELSE known) \in Job
      BY <3>1, <3>4, RedefinedType
    <3> QED BY <3>2, <3>3, <3>5
  <2>5. keyFile' \in [Jobs -> Nat]
    <3>1. \A n \in Nat : [keyFile EXCEPT ![j] = n] \in [Jobs -> Nat] OBVIOUS
    <3> HIDE DEF j, known, fresh
    <3> QED BY <2>2, <2>3, <3>1
  <2>6. HandlerTypes'
    BY <2>1, <2>3, KeepLockTypes, RespondTypes DEF Unlock, HandlerStates
  <2> QED BY <1>8, <2>4, <2>5, <2>6 DEF Put, workerVars, worldVars
<1>9. ASSUME NEW h \in Handlers, PutSaveJobs(h) PROVE TypeOK'
  BY <1>9, WholeRegistryType
  DEF PutSaveJobs, SaveJobs, Unlock, Respond, registryVars, workerVars, worldVars, HandlerStates
<1>10. ASSUME NEW h \in Handlers, Delete(h) PROVE TypeOK'
  <2>1. hjob[h] \in Jobs /\ hpc[h] # "idle" BY <1>10 DEF Delete
  <2>2. jobs' \in [Jobs -> Job \cup {NoJob}] BY <1>10, <2>1 DEF Delete
  <2>3. jobsFile' \in [Jobs -> Job \cup {NoJob}] 
    <3>1. WholeRegistry(jobs') \in [Jobs -> Job \cup {NoJob}] BY <2>2, WholeRegistryType
    <3>2. jobsFile' = WholeRegistry(jobs') \/ jobsFile' = jobsFile BY <1>10 DEF Delete
    <3> QED BY <3>1, <3>2
  <2>4. RegistryTypes' BY <1>10, <2>1, <2>2, EmptyHistoryType DEF Delete, WithoutOutput
  <2>5. WorkerTypes' BY <1>10 DEF Delete, Cancelled
  <2>6. HandlerTypes'
    BY <1>10, <2>1, KeepLockTypes, RespondTypes DEF Delete, Unlock, HandlerStates
  <2> QED BY <1>10, <2>3, <2>4, <2>5, <2>6 DEF Delete, worldVars
<1>11. ASSUME NEW h \in Handlers, DeleteLogs(h) PROVE TypeOK'
  <2>1. hjob[h] \in Jobs /\ hpc[h] # "idle" BY <1>11 DEF DeleteLogs
  <2>2. logFile' \in [Jobs -> Histories] BY <1>11, <2>1, EmptyHistoryType DEF DeleteLogs
  <2>3. HandlerTypes'
    BY <1>11, <2>1, KeepLockTypes, RespondTypes DEF DeleteLogs, Unlock, HandlerStates
  <2> QED BY <1>11, <2>2, <2>3 DEF DeleteLogs, registryVars, workerVars, worldVars
<1>12. ASSUME NEW h \in Handlers, DeleteSecrets(h) PROVE TypeOK'
  BY <1>12 DEF DeleteSecrets, Unlock, Respond, registryVars, workerVars, HandlerStates
<1>13. ASSUME NEW h \in Handlers, SetEnabled(h) PROVE TypeOK'
  <2> DEFINE j == hjob[h]
  <2>1. j \in Jobs BY <1>13 DEF SetEnabled
  <2>2. CASE ~Exists(j) /\ UNCHANGED <<jobs, jobsFile>>
    <3>1. HandlerTypes' BY <1>13, RespondTypes DEF SetEnabled
    <3> QED BY <1>13, <2>2, <3>1 DEF SetEnabled, workerVars, worldVars
  <2>3. CASE /\ Exists(j)
             /\ jobs' = [jobs EXCEPT ![j] =
                           Rescheduled([@ EXCEPT !.enabled = (hpc[h] = "enable")])]
             /\ SaveJobs(jobs')
    <3>1. [jobs[j] EXCEPT !.enabled = (hpc[h] = "enable")] \in Job
      <4>1. jobs[j] \in Job BY <2>1, <2>3 DEF Exists
      <4>2. (hpc[h] = "enable") \in BOOLEAN OBVIOUS
      <4> QED BY <4>1, <4>2, EnabledType
    <3>2. jobs' \in [Jobs -> Job \cup {NoJob}] BY <2>1, <2>3, <3>1, RescheduledType
    <3>3. jobsFile' \in [Jobs -> Job \cup {NoJob}] BY <2>3, <3>2, SaveJobsTypes
    <3>4. HandlerTypes' BY <1>13, RespondTypes DEF SetEnabled
    <3> QED BY <1>13, <3>2, <3>3, <3>4 DEF SetEnabled, workerVars, worldVars
  <2> QED BY <1>13, <2>2, <2>3 DEF SetEnabled
<1>14. ASSUME NEW h \in Handlers, ClearLogs(h) PROVE TypeOK'
  BY <1>14, EmptyHistoryType DEF ClearLogs, workerVars, fileVars, worldVars, HandlerStates
<1>15. ASSUME NEW h \in Handlers, SaveClearedLogs(h) PROVE TypeOK'
  <2>1. hjob[h] \in Jobs BY <1>15 DEF SaveClearedLogs
  <2>2. logFile' \in [Jobs -> Histories] BY <1>15, <2>1, EmptyHistoryType DEF SaveClearedLogs
  <2>3. HandlerTypes' BY <1>15, RespondTypes DEF SaveClearedLogs
  <2> QED BY <1>15, <2>2, <2>3 DEF SaveClearedLogs, registryVars, workerVars, worldVars
<1>16. ASSUME NEW h \in Handlers, Cancel(h) PROVE TypeOK'
  BY <1>16 DEF Cancel, Cancelled, Respond, registryVars, fileVars, worldVars, HandlerStates
<1>17. ASSUME NEW h \in Handlers, NEW w \in Workers, Launch(h, w) PROVE TypeOK'
  <2>1. hjob[h] \in Jobs BY <1>17 DEF Launch
  <2>2. WorkerTypes' BY <1>17, <2>1 DEF Launch, Spawn, WorkerStates
  <2>3. HandlerTypes' BY <1>17, RespondTypes DEF Launch
  <2> QED BY <1>17, <2>2, <2>3 DEF Launch, registryVars, fileVars, worldVars
<1>18. ASSUME NEW w \in Workers, Run(w) PROVE TypeOK'
  <2>1. WorkerTypes' BY <1>18, ReturnTypes DEF Run, Goto, WorkerStates
  <2> QED BY <1>18, <2>1 DEF Run, registryVars, handlerVars, fileVars, worldVars
<1>19. ASSUME NEW w \in Workers, ExecuteMissing(w) PROVE TypeOK'
  <2>1. WorkerTypes' BY <1>19, ReturnTypes DEF ExecuteMissing
  <2> QED BY <1>19, <2>1 DEF ExecuteMissing, registryVars, handlerVars, fileVars, worldVars
<1>20. ASSUME NEW w \in Workers, ExecuteSkips(w) PROVE TypeOK'
  BY <1>20
  DEF ExecuteSkips, Goto, registryVars, handlerVars, fileVars, worldVars, WorkerStates, Codes
<1>21. ASSUME NEW w \in Workers, ExecuteStarts(w) PROVE TypeOK'
  <2>1. job[w] \in Jobs /\ jobs[job[w]] \in Job BY <1>21 DEF ExecuteStarts, Exists
  <2>2. [jobs[job[w]] EXCEPT !.running = TRUE] \in Job BY <2>1 DEF Job
  <2>3. jobs' \in [Jobs -> Job \cup {NoJob}] BY <1>21, <2>1, <2>2 DEF ExecuteStarts
  <2>4. snapshot' \in [Workers -> Nat] BY <1>21, <2>1 DEF ExecuteStarts, Job
  <2>5. RegistryTypes' BY <1>21, <2>1, <2>3 DEF ExecuteStarts, WithoutOutput
  <2>6. WorkerTypes' BY <1>21, <2>1, <2>4 DEF ExecuteStarts, Goto, WorkerStates, Holding
  <2> QED BY <1>21, <2>5, <2>6 DEF ExecuteStarts, handlerVars, fileVars, worldVars
<1>22. ASSUME NEW w \in Workers, LoadSecrets(w) PROVE TypeOK'
  BY <1>22
  DEF LoadSecrets, Goto, registryVars, handlerVars, fileVars, worldVars, WorkerStates, Holding
<1>23. ASSUME NEW w \in Workers, Expire(w) PROVE TypeOK'
  BY <1>23 DEF Expire, registryVars, handlerVars, fileVars, worldVars
<1>24. ASSUME NEW w \in Workers, Log(w) PROVE TypeOK'
  BY <1>24 DEF Log, workerVars, handlerVars, fileVars, worldVars
<1>25. ASSUME NEW w \in Workers, OpReturns(w) PROVE TypeOK'
  BY <1>25, ParameterAssumption
  DEF OpReturns, Goto, registryVars, handlerVars, fileVars, worldVars, WorkerStates, Holding, Codes
<1>26. ASSUME NEW w \in Workers, AppendResult(w) PROVE TypeOK'
  BY <1>26
  DEF AppendResult, Goto, handlerVars, fileVars, worldVars, WorkerStates, Holding, Codes
<1>27. ASSUME NEW w \in Workers, Finish(w) PROVE TypeOK'
  <2>1. job[w] \in Jobs BY <1>27 DEF Finish
  <2>2. jobs' \in [Jobs -> Job \cup {NoJob}]
    <3>1. CASE Exists(job[w]) /\ jobs' = [jobs EXCEPT ![job[w]] = Ended(@, result[w])]
      <4>1. jobs[job[w]] \in Job /\ result[w] \in Codes BY <2>1, <3>1 DEF Exists
      <4>2. Ended(jobs[job[w]], result[w]) \in Job BY <4>1, EndedType
      <4> QED BY <2>1, <3>1, <4>2
    <3>2. CASE UNCHANGED jobs BY <3>2
    <3> QED BY <1>27, <3>1, <3>2 DEF Finish
  <2>3. WorkerTypes'
    <3>1. CASE Return(w) BY <3>1, ReturnTypes
    <3>2. CASE Goto(w, "record") /\ UNCHANGED <<job, ctx, snapshot, secrets, result, entries>>
      BY <2>1, <3>2 DEF Goto, WorkerStates, WorkerTypes
    <3> QED BY <1>27, <3>1, <3>2 DEF Finish
  <2> QED BY <1>27, <2>1, <2>2, <2>3 DEF Finish, handlerVars, fileVars, worldVars
<1>28. ASSUME NEW w \in Workers, Record(w) PROVE TypeOK'
  <2> DEFINE j == job[w]
  <2>1. j \in Jobs BY <1>28 DEF Record
  <2>2. CASE ~Exists(j) /\ Return(w) /\ UNCHANGED <<logs, jobsFile>>
    <3>1. WorkerTypes' BY <2>2, ReturnTypes
    <3> QED BY <1>28, <2>2, <3>1 DEF Record, handlerVars, worldVars
  <2>3. CASE /\ logs' = [logs EXCEPT ![j] = Prepend(result[w], @)]
             /\ entries' = [entries EXCEPT ![w] = logs'[j]]
             /\ SaveJobs(jobs) /\ Goto(w, "save")
             /\ UNCHANGED <<job, ctx, snapshot, secrets, result>>
    <3>1. logs' \in [Jobs -> Histories] BY <2>1, <2>3, PrependType
    <3>2. entries' \in [Workers -> Histories] BY <2>1, <2>3, <3>1
    <3>3. jobsFile' \in [Jobs -> Job \cup {NoJob}] BY <2>3, SaveJobsTypes
    <3>4. WorkerTypes' BY <2>1, <2>3, <3>2 DEF Goto, WorkerStates
    <3> QED BY <1>28, <3>1, <3>3, <3>4 DEF Record, handlerVars, worldVars
  <2> QED BY <1>28, <2>2, <2>3 DEF Record
<1>29. ASSUME NEW w \in Workers, SaveLogs(w) PROVE TypeOK'
  BY <1>29, EmptyHistoryType
  DEF SaveLogs, Return, registryVars, handlerVars, worldVars, WorkerStates, Codes
<1>30. CASE UNCHANGED vars
  BY <1>30 DEF vars, registryVars, workerVars, handlerVars, fileVars, worldVars
<1> QED
  BY <1>1, <1>2, <1>3, <1>4, <1>5, <1>6, <1>7, <1>8, <1>9, <1>10, <1>11, <1>12, <1>13, <1>14,
     <1>15, <1>16, <1>17, <1>18, <1>19, <1>20, <1>21, <1>22, <1>23, <1>24, <1>25, <1>26, <1>27,
     <1>28, <1>29, <1>30, <1>31
  DEF Next, TimePasses, Daemon, Ticker, Request, LockedStep, RunStep

\* Every variable keeps its type; in particular no history exceeds its limit and
\* a goroutine or request that is under way always has the id of a job.
THEOREM TypeCorrect == Spec => []TypeOK
BY TypeInit, TypeStep, PTL DEF Spec

-----------------------------------------------------------------------------
(* Runs never overlap, as long as no PUT that found its job is applied after *)
(* the job was deleted.                                                    *)

LEMMA RunsInit == Init => RunsInv
BY NoneAssumption
DEF Init, RunsInv, FreshIds, Unknown, RunIsMarked, NoOverlap, RunningMeansARun, Exists,
    Holds, Holding

-----------------------------------------------------------------------------
(* Requests and ids *)

LEMMA KnownRequestsStep == TypeOK /\ KnownRequests /\ [Next]_vars => KnownRequests'
<1> SUFFICES ASSUME TypeOK, KnownRequests, [Next]_vars PROVE KnownRequests' OBVIOUS
<1> USE DEF KnownRequests, AllRequests
<1>1. CASE Daemon BY <1>1 DEF Daemon, Stop, Restart, handlerVars
<1>2. CASE Ticker BY <1>2 DEF Ticker, FireDue, SpawnDue, handlerVars
<1>3. CASE TimePasses BY <1>3 DEF TimePasses, Calendar, ClockPasses, handlerVars
<1>4. ASSUME NEW h \in Handlers, Request(h) \/ LockedStep(h) PROVE KnownRequests'
  <2> USE DEF TypeOK, HandlerTypes
  <2>1. CASE Post(h) BY <2>1 DEF Post
  <2>2. CASE Accept(h) BY <2>2 DEF Accept
  <2>3. CASE Put(h) BY <2>3 DEF Put, KeepLock, Unlock, Respond
  <2>4. CASE Delete(h) BY <2>4 DEF Delete, KeepLock, Unlock, Respond
  <2>5. CASE SetEnabled(h) BY <2>5 DEF SetEnabled, Respond
  <2>6. CASE ClearLogs(h) \/ SaveClearedLogs(h) BY <2>6 DEF ClearLogs, SaveClearedLogs, Respond
  <2>7. CASE Cancel(h) BY <2>7 DEF Cancel, Respond
  <2>8. CASE \E w \in Workers : Launch(h, w) BY <2>8 DEF Launch, Respond
  <2>9. CASE LockedStep(h)
    BY <2>9 DEF LockedStep, PutSaveJobs, DeleteLogs, DeleteSecrets, KeepLock, Unlock, Respond
  <2> QED BY <1>4, <2>1, <2>2, <2>3, <2>4, <2>5, <2>6, <2>7, <2>8, <2>9 DEF Request
<1>5. ASSUME NEW w \in Workers, RunStep(w) \/ Expire(w) \/ Log(w) PROVE KnownRequests'
  BY <1>5
  DEF RunStep, Run, ExecuteMissing, ExecuteSkips, ExecuteStarts, LoadSecrets, OpReturns,
      AppendResult, Finish, Record, SaveLogs, Expire, Log, handlerVars
<1>6. CASE UNCHANGED vars BY <1>6 DEF vars, handlerVars
<1> QED BY <1>1, <1>2, <1>3, <1>4, <1>5, <1>6 DEF Next

LEMMA KnownRequestsAlways == Spec => []KnownRequests
<1>1. Init => KnownRequests BY DEF Init, KnownRequests, AllRequests
<1> QED BY <1>1, KnownRequestsStep, TypeCorrect, PTL DEF Spec

-----------------------------------------------------------------------------
(* What the helpers do to the Running flag *)

LEMMA RescheduledKeeps ==
    ASSUME NEW r \in Job
    PROVE  /\ Rescheduled(r) \in Job /\ Rescheduled(r) # NoJob
           /\ Rescheduled(r).running = r.running /\ Rescheduled(r).secret = r.secret
           /\ Rescheduled(r).enabled = r.enabled /\ Rescheduled(r).schedule = r.schedule
BY RescheduledType, NoJobAssumption DEF Rescheduled, Job

LEMMA EndedIsIdle ==
    ASSUME NEW r \in Job, NEW code \in Codes
    PROVE  Ended(r, code) # NoJob /\ ~Ended(r, code).running
<1> DEFINE q == [r EXCEPT !.running = FALSE, !.last = code]
<1>1. q \in Job /\ ~q.running BY DEF Job
<1> QED BY <1>1, RescheduledKeeps DEF Ended

LEMMA RedefinedKeepsFlag ==
    ASSUME NEW r, r \in Job \cup {NoJob}, NEW enabled, enabled \in BOOLEAN,
           NEW schedule, schedule \in ScheduleTypes, NEW secret, secret \in Nat
    PROVE  /\ Redefined(r, enabled, schedule, secret) \in Job
           /\ Redefined(r, enabled, schedule, secret) # NoJob
           /\ Redefined(r, enabled, schedule, secret).secret = secret
           /\ r = NoJob => ~Redefined(r, enabled, schedule, secret).running
           /\ r # NoJob => Redefined(r, enabled, schedule, secret).running = r.running
<1> DEFINE q == [enabled |-> enabled, schedule |-> schedule, next |-> "never",
                 running |-> IF r = NoJob THEN FALSE ELSE r.running,
                 last    |-> IF r = NoJob THEN "none" ELSE r.last,
                 secret  |-> secret]
<1>1. q \in Job BY DEF Job
<1>2. Redefined(r, enabled, schedule, secret) = Rescheduled(q) BY DEF Redefined
<1>3. /\ r = NoJob => ~q.running
      /\ r # NoJob => q.running = r.running
      /\ q.secret = secret
  OBVIOUS
<1> HIDE DEF q
<1> QED BY <1>1, <1>2, <1>3, RescheduledKeeps

-----------------------------------------------------------------------------
(* The steps *)

\* Steps that leave alone which jobs exist and are running, the cancel map, the
\* ids in use and who is between Execute's first and last critical section.
LEMMA RunsFrame ==
    ASSUME TypeOK, RunsInv,
           \A j \in Jobs :
              /\ (jobs'[j] = NoJob) <=> (jobs[j] = NoJob)
              /\ jobs[j] # NoJob => jobs'[j].running = jobs[j].running
              /\ jobsFile[j] = NoJob /\ jobs[j] = NoJob => jobsFile'[j] = NoJob,
           \A w \in Workers :
              /\ (pc'[w] \in Holding) <=> (pc[w] \in Holding)
              /\ job'[w] = job[w] \/ (job'[w] = None /\ pc[w] \notin Holding),
           \A h \in Handlers :
              /\ hjob'[h] \in {hjob[h], None}
              /\ hpc'[h] = "post" => hpc[h] = "post" /\ hjob'[h] = hjob[h],
           cancel' = cancel, used' = used, \A j \in due' : j \in due \/ jobs[j] # NoJob
    PROVE  RunsInv'
<1> USE DEF TypeOK, RunsInv, Exists, Holds
<1>1. \A j \in Jobs : Unknown(j) => Unknown(j)'
  BY NoneAssumption DEF Unknown, RegistryTypes
<1>2. FreshIds'
  <2>1. \A j \in Jobs : j \notin used => Unknown(j)' /\ \A h \in Handlers : hjob'[h] # j
    BY <1>1, NoneAssumption DEF FreshIds
  <2>2. ASSUME NEW h \in Handlers, hpc'[h] = "post"
        PROVE  Unknown(hjob[h])' /\ \A g \in Handlers : hjob'[g] = hjob'[h] => g = h
    <3>1. hpc[h] = "post" /\ hjob[h] \in Jobs /\ hjob[h] # None /\ hjob'[h] = hjob[h]
      BY <2>2, NoneAssumption DEF HandlerTypes
    <3>2. \A g \in Handlers : hjob'[g] = hjob'[h] => g = h BY <3>1 DEF FreshIds
    <3>3. Unknown(hjob[h]) BY <3>1 DEF FreshIds
    <3> QED BY <1>1, <3>1, <3>2, <3>3 DEF Unknown
  <2> QED BY <2>1, <2>2 DEF FreshIds
<1>3. RunIsMarked' BY DEF RunIsMarked, WorkerTypes, Holding
<1>4. NoOverlap' BY DEF NoOverlap
<1>5. RunningMeansARun' BY DEF RunningMeansARun, RegistryTypes
<1> QED BY <1>2, <1>3, <1>4, <1>5

LEMMA RestartRuns == ASSUME TypeOK, TypeOK', RunsInv, Restart PROVE RunsInv'
<1>1. \A j \in Jobs : jobs'[j] # NoJob => jobsFile[j] # NoJob /\ ~jobs'[j].running
  <2> SUFFICES ASSUME NEW j \in Jobs, jobs'[j] # NoJob
               PROVE  jobsFile[j] # NoJob /\ ~jobs'[j].running
    OBVIOUS
  <2> DEFINE r == jobsFile[j]
             q == [r EXCEPT !.running = FALSE, !.last = IF r.running THEN "cancelled" ELSE @]
  <2>1. jobs'[j] = Loaded(r) BY DEF Restart
  <2>2. r # NoJob /\ r \in Job BY <2>1 DEF Loaded, TypeOK, FileTypes
  <2>3. q \in Job /\ ~q.running BY <2>2 DEF Job, Codes
  <2>4. jobs'[j] = Rescheduled(q) BY <2>1, <2>2 DEF Loaded
  <2> HIDE DEF q
  <2> QED BY <2>2, <2>3, <2>4, RescheduledKeeps
<1>2. RunIsMarked' /\ NoOverlap'
  BY DEF Restart, RunIsMarked, NoOverlap, Holds, Holding
<1>3. RunningMeansARun' BY <1>1 DEF RunningMeansARun, Exists
<1>4. FreshIds'
  BY <1>1, NoneAssumption
  DEF Restart, RunsInv, FreshIds, Unknown, Exists, fileVars, worldVars
<1> QED BY <1>2, <1>3, <1>4 DEF RunsInv

LEMMA StartRuns ==
    ASSUME TypeOK, RunsInv, NEW w \in Workers, ExecuteStarts(w) PROVE RunsInv'
<1> DEFINE j == job[w]
<1>1. j \in Jobs /\ jobs[j] \in Job /\ ~jobs[j].running
  BY DEF ExecuteStarts, Exists, Free, TypeOK, RegistryTypes, WorkerTypes
<1>2. /\ jobs' = [jobs EXCEPT ![j].running = TRUE]
      /\ cancel' = [cancel EXCEPT ![j] = w]
      /\ pc[w] = "execute" /\ pc' = [pc EXCEPT ![w] = "load"]
      /\ UNCHANGED <<job, due, hpc, hjob, jobsFile, used>>
  BY DEF ExecuteStarts, Goto, handlerVars, fileVars, worldVars
<1>3. jobs'[j] # NoJob /\ jobs'[j].running
  <2>1. [jobs[j] EXCEPT !.running = TRUE] \in Job BY <1>1 DEF Job
  <2> QED BY <1>1, <1>2, <2>1, NoJobAssumption DEF TypeOK, RegistryTypes, Job
<1>4. \A i \in Jobs : i # j => jobs'[i] = jobs[i] BY <1>2 DEF TypeOK, RegistryTypes
<1>5. \A v \in Workers : Holds(v) => job[v] # j
  BY <1>1, NoJobAssumption DEF RunsInv, RunIsMarked, Exists
<1>6. \A v \in Workers : Holds(v)' <=> (Holds(v) \/ v = w)
  BY <1>2 DEF Holds, Holding, TypeOK, WorkerTypes
<1> HIDE DEF j
<1>7. RunIsMarked'
  BY <1>2, <1>3, <1>4, <1>6 DEF RunsInv, RunIsMarked, Exists, TypeOK, WorkerTypes, j, Holds, Holding
<1>8. NoOverlap' BY <1>2, <1>5, <1>6 DEF RunsInv, NoOverlap, j
<1>9. RunningMeansARun'
  BY <1>1, <1>2, <1>4, <1>6, NoneAssumption
  DEF RunsInv, RunningMeansARun, Exists, TypeOK, RegistryTypes, j
<1>10. FreshIds'
  BY <1>1, <1>2, <1>3, <1>4, NoJobAssumption
  DEF RunsInv, FreshIds, Unknown, Exists, TypeOK, HandlerTypes, j
<1> QED BY <1>7, <1>8, <1>9, <1>10 DEF RunsInv

LEMMA FinishRuns ==
    ASSUME TypeOK, RunsInv, NEW w \in Workers, Finish(w) PROVE RunsInv'
<1> DEFINE j == job[w]
<1>1. j \in Jobs /\ Holds(w) /\ pc[w] = "finish"
  BY DEF Finish, TypeOK, WorkerTypes, Holds, Holding
<1>2. /\ cancel' = [cancel EXCEPT ![j] = None]
      /\ pc' = [pc EXCEPT ![w] = "record"] \/ pc' = [pc EXCEPT ![w] = "idle"]
      /\ job' = job \/ job' = [job EXCEPT ![w] = None]
      /\ UNCHANGED <<due, hpc, hjob, jobsFile, used>>
  BY DEF Finish, Goto, Return, handlerVars, fileVars, worldVars
<1>3. \A i \in Jobs : i # j => jobs'[i] = jobs[i] BY DEF Finish, TypeOK, RegistryTypes
<1>4. /\ (jobs'[j] = NoJob) <=> (jobs[j] = NoJob)
      /\ jobs'[j] # NoJob => ~jobs'[j].running
  <2>1. CASE Exists(j) /\ jobs' = [jobs EXCEPT ![j] = Ended(@, result[w])]
    <3>1. jobs[j] \in Job /\ result[w] \in Codes
      BY <1>1, <2>1 DEF Exists, TypeOK, RegistryTypes, WorkerTypes
    <3> QED BY <1>1, <2>1, <3>1, EndedIsIdle DEF Exists, TypeOK, RegistryTypes
  <2>2. CASE ~Exists(j) /\ UNCHANGED jobs BY <2>2 DEF Exists
  <2> QED BY <2>1, <2>2 DEF Finish
<1>5. \A v \in Workers : Holds(v) /\ job[v] = j => v = w BY <1>1 DEF RunsInv, NoOverlap
<1>6. \A v \in Workers : Holds(v)' <=> (Holds(v) /\ v # w)
  BY <1>1, <1>2 DEF Holds, Holding, TypeOK, WorkerTypes
<1>7. \A v \in Workers : v # w => job'[v] = job[v] BY <1>2 DEF TypeOK, WorkerTypes
<1> HIDE DEF j
<1>8. RunIsMarked'
  BY <1>2, <1>3, <1>5, <1>6, <1>7 DEF RunsInv, RunIsMarked, Exists, Holds, TypeOK, WorkerTypes, Holding
<1>9. NoOverlap' BY <1>6, <1>7 DEF RunsInv, NoOverlap
<1>10. RunningMeansARun'
  BY <1>1, <1>2, <1>3, <1>4, <1>6, <1>7
  DEF RunsInv, RunningMeansARun, Exists, TypeOK, RegistryTypes, j
<1>11. FreshIds'
  BY <1>1, <1>2, <1>3, <1>4, NoneAssumption
  DEF RunsInv, FreshIds, Unknown, Exists, TypeOK, HandlerTypes, WorkerTypes, j
<1> QED BY <1>8, <1>9, <1>10, <1>11 DEF RunsInv

\* A new or edited job keeps its flag; the id of a new one is known to nobody
\* else.  Here the hypothesis is needed: a PUT that had found its job before the
\* DELETE would bring it back.
LEMMA PutRuns ==
    ASSUME NoRevival, TypeOK, RunsInv, NEW h \in Handlers, Put(h) PROVE RunsInv'
<1> DEFINE j == hjob[h]
           known == IF Exists(j) THEN jobs[j].secret ELSE 0
           fresh == Newer(keyFile[j], known) + 1
<1>1. j \in Jobs /\ hpc[h] \in {"post", "put"} BY DEF Put, TypeOK, HandlerTypes
<1>2. known \in Nat /\ fresh \in Nat
  BY <1>1 DEF Exists, Newer, Job, TypeOK, RegistryTypes, FileTypes
<1>3. /\ \E enabled \in BOOLEAN, schedule \in Schedules, given \in BOOLEAN :
            jobs' = [jobs EXCEPT ![j] =
                      Redefined(jobs[j], enabled, schedule, IF given THEN fresh ELSE known)]
      /\ \/ hpc' = [hpc EXCEPT ![h] = "put-jobs"] /\ hjob' = hjob
         \/ hpc' = [hpc EXCEPT ![h] = "idle"] /\ hjob' = [hjob EXCEPT ![h] = None]
      /\ UNCHANGED <<due, jobsFile, used, cancel, pc, job>>
  BY DEF Put, KeepLock, Unlock, Respond, workerVars, worldVars
<1>4. /\ jobs'[j] # NoJob
      /\ jobs[j] = NoJob => ~jobs'[j].running
      /\ jobs[j] # NoJob => jobs'[j].running = jobs[j].running
  <2>1. PICK enabled \in BOOLEAN, schedule \in Schedules, given \in BOOLEAN :
          jobs' = [jobs EXCEPT ![j] =
                    Redefined(jobs[j], enabled, schedule, IF given THEN fresh ELSE known)]
    BY <1>3
  <2>2. (IF given THEN fresh ELSE known) \in Nat /\ schedule \in ScheduleTypes
    BY <1>2, ParameterAssumption
  <2>3. jobs[j] \in Job \cup {NoJob} BY <1>1 DEF TypeOK, RegistryTypes
  <2>4. jobs'[j] = Redefined(jobs[j], enabled, schedule, IF given THEN fresh ELSE known)
    BY <1>1, <2>1 DEF TypeOK, RegistryTypes
  <2> HIDE DEF j, known, fresh
  <2>5. enabled \in BOOLEAN OBVIOUS
  <2> QED BY <2>2, <2>3, <2>4, <2>5, RedefinedKeepsFlag DEF ScheduleTypes
<1>5. \A i \in Jobs : i # j => jobs'[i] = jobs[i] BY <1>3 DEF TypeOK, RegistryTypes
<1>6. jobs[j] = NoJob => Unknown(j)
  BY <1>1 DEF NoRevival, RunsInv, FreshIds, Exists
<1> HIDE DEF j, known, fresh
<1>7. RunIsMarked'
  BY <1>3, <1>4, <1>5, <1>6
  DEF RunsInv, RunIsMarked, Exists, Holds, Holding, Unknown, TypeOK, WorkerTypes
<1>8. NoOverlap' BY <1>3 DEF RunsInv, NoOverlap, Holds
<1>9. RunningMeansARun'
  BY <1>3, <1>4, <1>5 DEF RunsInv, RunningMeansARun, Exists, Holds
<1>10. j \in used /\ \A g \in Handlers : hpc[g] = "post" /\ g # h => hjob[g] # j
  BY <1>1 DEF RunsInv, FreshIds, j
<1>11. FreshIds'
  BY <1>1, <1>3, <1>5, <1>10, NoneAssumption
  DEF RunsInv, FreshIds, Unknown, Exists, TypeOK, HandlerTypes, j
<1> QED BY <1>7, <1>8, <1>9, <1>11 DEF RunsInv

LEMMA DeleteRuns ==
    ASSUME TypeOK, RunsInv, NEW h \in Handlers, Delete(h)
    PROVE  RunsInv'
<1> DEFINE j == hjob[h]
<1>1. j \in Jobs /\ hpc[h] = "delete" BY DEF Delete, TypeOK, HandlerTypes
<1>2. /\ jobs' = [jobs EXCEPT ![j] = NoJob]
      /\ \/ hpc' = [hpc EXCEPT ![h] = "delete-logs"] /\ hjob' = hjob
         \/ hpc' = [hpc EXCEPT ![h] = "idle"] /\ hjob' = [hjob EXCEPT ![h] = None]
      /\ UNCHANGED <<due, used, cancel, pc, job>>
  BY DEF Delete, KeepLock, Unlock, Respond, worldVars
<1>3. \A i \in Jobs : jobsFile[i] = NoJob /\ jobs[i] = NoJob => jobsFile'[i] = NoJob
  BY <1>2 DEF Delete, WholeRegistry, Stored, TypeOK, RegistryTypes
<1>4. RunIsMarked' /\ NoOverlap' /\ RunningMeansARun'
  BY <1>2
  DEF RunsInv, RunIsMarked, NoOverlap, RunningMeansARun, Exists, Holds, Holding, TypeOK,
      RegistryTypes, WorkerTypes
<1>5. FreshIds'
  BY <1>1, <1>2, <1>3, NoneAssumption
  DEF RunsInv, FreshIds, Unknown, Exists, TypeOK, RegistryTypes, HandlerTypes
<1> QED BY <1>4, <1>5 DEF RunsInv

LEMMA PostRuns ==
    ASSUME TypeOK, RunsInv, NEW h \in Handlers, Post(h) PROVE RunsInv'
<1> DEFINE j == hjob'[h]
<1>1. /\ j \in Jobs \ used /\ used' = used \cup {j} /\ hpc[h] = "idle"
      /\ hjob' = [hjob EXCEPT ![h] = j] /\ hpc' = [hpc EXCEPT ![h] = "post"]
      /\ UNCHANGED <<jobs, cancel, due, pc, job, jobsFile>>
  BY DEF Post, registryVars, workerVars, fileVars, TypeOK, HandlerTypes
<1>2. Unknown(j) /\ \A g \in Handlers : hjob[g] # j BY <1>1 DEF RunsInv, FreshIds
<1>3. RunIsMarked' /\ NoOverlap' /\ RunningMeansARun'
  BY <1>1 DEF RunsInv, RunIsMarked, NoOverlap, RunningMeansARun, Exists, Holds
<1> HIDE DEF j
<1>4. FreshIds'
  BY <1>1, <1>2 DEF RunsInv, FreshIds, Unknown, Exists, TypeOK, HandlerTypes
<1> QED BY <1>3, <1>4 DEF RunsInv

LEMMA AcceptRuns ==
    ASSUME TypeOK, RunsInv, NEW h \in Handlers, Accept(h) PROVE RunsInv'
<1>1. PICK j \in Jobs, r \in Requests \ {"post"} :
        /\ Exists(j) /\ hpc' = [hpc EXCEPT ![h] = r] /\ hjob' = [hjob EXCEPT ![h] = j]
        /\ UNCHANGED <<jobs, cancel, due, pc, job, jobsFile, used>>
  BY DEF Accept, registryVars, workerVars, fileVars, worldVars
<1>2. RunIsMarked' /\ NoOverlap' /\ RunningMeansARun'
  BY <1>1 DEF RunsInv, RunIsMarked, NoOverlap, RunningMeansARun, Exists, Holds
<1>3. FreshIds'
  BY <1>1 DEF RunsInv, FreshIds, Unknown, Exists, TypeOK, HandlerTypes
<1> QED BY <1>2, <1>3 DEF RunsInv

LEMMA SpawnDueRuns ==
    ASSUME TypeOK, RunsInv, NEW w \in Workers, SpawnDue(w) PROVE RunsInv'
<1>1. PICK j \in due :
        /\ due' = due \ {j} /\ pc[w] = "idle"
        /\ pc' = [pc EXCEPT ![w] = "lookup"] /\ job' = [job EXCEPT ![w] = j]
        /\ UNCHANGED <<jobs, cancel, hpc, hjob, jobsFile, used>>
  BY DEF SpawnDue, Spawn, registryVars, handlerVars, fileVars, worldVars
<1>2. RunIsMarked' /\ NoOverlap' /\ RunningMeansARun'
  BY <1>1, NoneAssumption
  DEF RunsInv, RunIsMarked, NoOverlap, RunningMeansARun, Exists, Holds, Holding, TypeOK,
      WorkerTypes, RegistryTypes
<1>3. FreshIds'
  BY <1>1 DEF RunsInv, FreshIds, Unknown, Exists, TypeOK, HandlerTypes, WorkerTypes, RegistryTypes
<1> QED BY <1>2, <1>3 DEF RunsInv

LEMMA LaunchRuns ==
    ASSUME TypeOK, RunsInv, NEW h \in Handlers, NEW w \in Workers, Launch(h, w)
    PROVE  RunsInv'
<1> DEFINE j == hjob[h]
<1>1. /\ j \in Jobs /\ hpc[h] \in {"run", "check"} /\ pc[w] = "idle"
      /\ \/ pc' = [pc EXCEPT ![w] = "lookup"]
         \/ pc' = [pc EXCEPT ![w] = "execute"]
      /\ job' = [job EXCEPT ![w] = j]
      /\ hpc' = [hpc EXCEPT ![h] = "idle"] /\ hjob' = [hjob EXCEPT ![h] = None]
      /\ UNCHANGED <<jobs, cancel, due, jobsFile, used>>
  BY DEF Launch, Spawn, Respond, registryVars, fileVars, worldVars, TypeOK, HandlerTypes
<1>2. RunIsMarked' /\ NoOverlap' /\ RunningMeansARun'
  BY <1>1, NoneAssumption
  DEF RunsInv, RunIsMarked, NoOverlap, RunningMeansARun, Exists, Holds, Holding, TypeOK,
      WorkerTypes, RegistryTypes
<1>3. FreshIds'
  BY <1>1, NoneAssumption
  DEF RunsInv, FreshIds, Unknown, Exists, TypeOK, HandlerTypes, WorkerTypes
<1> QED BY <1>2, <1>3 DEF RunsInv

-----------------------------------------------------------------------------
(* All steps together *)

\* The steps of the daemon, the clock and the ticker that touch no run.
LEMMA QuietRuns ==
    ASSUME TypeOK, RunsInv,
           Stop \/ FireDue \/ TimePasses \/ UNCHANGED vars
    PROVE  RunsInv'
<1>1. CASE Stop
  BY <1>1, RunsFrame DEF Stop, registryVars, handlerVars, fileVars, worldVars
<1>2. CASE FireDue
  BY <1>2, RunsFrame DEF FireDue, registryVars, workerVars, handlerVars, fileVars, worldVars, Exists
<1>3. ASSUME NEW j \in Jobs, ClockPasses(j) PROVE RunsInv'
  <2>1. jobs[j] \in Job BY <1>3 DEF ClockPasses, Exists, TypeOK, RegistryTypes
  <2>2. jobs' = [jobs EXCEPT ![j].next = "due"] BY <1>3 DEF ClockPasses
  <2>3. [jobs[j] EXCEPT !.next = "due"] \in Job BY <2>1 DEF Job
  <2>4. /\ jobs'[j] # NoJob /\ jobs'[j].running = jobs[j].running
        /\ \A i \in Jobs : i # j => jobs'[i] = jobs[i]
    BY <2>1, <2>2, <2>3, NoJobAssumption DEF TypeOK, RegistryTypes, Job
  <2>5. jobs[j] # NoJob BY <1>3 DEF ClockPasses, Exists
  <2>6. UNCHANGED <<cancel, due, pc, job, hpc, hjob, jobsFile, used>>
    BY <1>3 DEF ClockPasses, workerVars, handlerVars, fileVars, worldVars
  <2> QED BY <2>4, <2>5, <2>6, RunsFrame
<1>4. CASE Calendar
  <2>1. UNCHANGED <<cancel, due, pc, job, hpc, hjob, jobsFile, used>>
    BY <1>4 DEF Calendar, workerVars, handlerVars, fileVars
  <2> QED BY <1>4, <2>1, CalendarKeeps, RunsFrame DEF Exists
<1>5. CASE UNCHANGED vars
  BY <1>5, RunsFrame DEF vars, registryVars, workerVars, handlerVars, fileVars, worldVars
<1> QED BY <1>1, <1>2, <1>3, <1>4, <1>5 DEF TimePasses

\* The requests that create, redefine, remove and start nothing.
LEMMA RequestRuns ==
    ASSUME TypeOK, RunsInv, NEW h \in Handlers,
           \/ PutSaveJobs(h) \/ DeleteLogs(h) \/ DeleteSecrets(h) \/ SetEnabled(h)
           \/ ClearLogs(h) \/ SaveClearedLogs(h) \/ Cancel(h)
    PROVE  RunsInv'
<1> USE DEF Unlock, KeepLock, Respond, registryVars, workerVars, worldVars
<1>1. \A i \in Jobs : jobs[i] = NoJob => WholeRegistry(jobs)[i] = NoJob
  BY DEF WholeRegistry, Stored
<1>2. CASE PutSaveJobs(h)
  <2>1. \A i \in Jobs : jobsFile[i] = NoJob /\ jobs[i] = NoJob => jobsFile'[i] = NoJob
    BY <1>1, <1>2 DEF PutSaveJobs, SaveJobs
  <2> QED BY <1>2, <2>1, RunsFrame DEF PutSaveJobs, TypeOK, HandlerTypes
<1>3. CASE DeleteLogs(h)
  BY <1>3, RunsFrame DEF DeleteLogs, TypeOK, HandlerTypes
<1>4. CASE DeleteSecrets(h)
  BY <1>4, RunsFrame DEF DeleteSecrets, TypeOK, HandlerTypes
<1>5. CASE SetEnabled(h)
  <2> DEFINE j == hjob[h]
             q == [jobs[j] EXCEPT !.enabled = (hpc[h] = "enable")]
  <2>1. j \in Jobs BY <1>5 DEF SetEnabled, TypeOK, HandlerTypes
  <2>2. CASE Exists(j)
    <3>1. jobs[j] \in Job BY <2>1, <2>2 DEF Exists, TypeOK, RegistryTypes
    <3>2. q \in Job /\ q.running = jobs[j].running BY <3>1 DEF Job
    <3>3. jobs' = [jobs EXCEPT ![j] = Rescheduled(q)] /\ SaveJobs(jobs')
      BY <1>5, <2>2 DEF SetEnabled
    <3> HIDE DEF q
    <3>4. jobs'[j] = Rescheduled(q) BY <2>1, <3>3 DEF TypeOK, RegistryTypes
    <3>5. jobs'[j] # NoJob /\ jobs'[j].running = jobs[j].running
      BY <3>2, <3>4, RescheduledKeeps
    <3>6. \A i \in Jobs : i # j => jobs'[i] = jobs[i] BY <3>3 DEF TypeOK, RegistryTypes
    <3>7. \A i \in Jobs : jobsFile[i] = NoJob /\ jobs[i] = NoJob => jobsFile'[i] = NoJob
      BY <3>3, <3>6, <2>2 DEF SaveJobs, WholeRegistry, Stored, Exists
    <3>8. /\ UNCHANGED <<cancel, due, pc, job, used>>
          /\ hpc' = [hpc EXCEPT ![h] = "idle"] /\ hjob' = [hjob EXCEPT ![h] = None]
      BY <1>5 DEF SetEnabled
    <3> HIDE DEF j
    <3> QED BY <2>2, <3>5, <3>6, <3>7, <3>8, RunsFrame DEF Exists, TypeOK, HandlerTypes
  <2>3. CASE ~Exists(j)
    BY <1>5, <2>3, RunsFrame DEF SetEnabled, TypeOK, HandlerTypes
  <2> QED BY <2>2, <2>3
<1>6. CASE ClearLogs(h)
  BY <1>6, RunsFrame DEF ClearLogs, fileVars, TypeOK, HandlerTypes
<1>7. CASE SaveClearedLogs(h)
  BY <1>7, RunsFrame DEF SaveClearedLogs, TypeOK, HandlerTypes
<1>8. CASE Cancel(h)
  BY <1>8, RunsFrame DEF Cancel, fileVars, TypeOK, HandlerTypes
<1> QED BY <1>2, <1>3, <1>4, <1>5, <1>6, <1>7, <1>8

\* The steps of a goroutine that neither take nor give back its job.
LEMMA WorkerRuns ==
    ASSUME TypeOK, RunsInv, NEW w \in Workers,
           \/ Run(w) \/ ExecuteMissing(w) \/ ExecuteSkips(w) \/ LoadSecrets(w) \/ OpReturns(w)
           \/ AppendResult(w) \/ Record(w) \/ SaveLogs(w) \/ Expire(w) \/ Log(w)
    PROVE  RunsInv'
<1> USE DEF Goto, Return, registryVars, handlerVars, worldVars
<1>1. CASE Run(w) \/ ExecuteMissing(w) \/ ExecuteSkips(w)
  BY <1>1, RunsFrame DEF Run, ExecuteMissing, ExecuteSkips, fileVars, Holding, TypeOK, WorkerTypes
<1>2. CASE LoadSecrets(w)
  BY <1>2, RunsFrame DEF LoadSecrets, fileVars, Holding, TypeOK, WorkerTypes
<1>3. CASE OpReturns(w)
  BY <1>3, RunsFrame DEF OpReturns, fileVars, Holding, TypeOK, WorkerTypes
<1>4. CASE AppendResult(w)
  BY <1>4, RunsFrame DEF AppendResult, fileVars, Holding, TypeOK, WorkerTypes
<1>5. CASE Record(w)
  <2>1. \A i \in Jobs : jobsFile[i] = NoJob /\ jobs[i] = NoJob => jobsFile'[i] = NoJob
    BY <1>5 DEF Record, SaveJobs, WholeRegistry, Stored
  <2> QED BY <1>5, <2>1, RunsFrame DEF Record, Holding, TypeOK, WorkerTypes
<1>6. CASE SaveLogs(w)
  BY <1>6, RunsFrame DEF SaveLogs, Holding, TypeOK, WorkerTypes
<1>7. CASE Expire(w)
  BY <1>7, RunsFrame DEF Expire, fileVars
<1>8. CASE Log(w)
  BY <1>8, RunsFrame DEF Log, fileVars, workerVars
<1> QED BY <1>1, <1>2, <1>3, <1>4, <1>5, <1>6, <1>7, <1>8

LEMMA RunsStep ==
    ASSUME TypeOK, TypeOK', RunsInv, [Next]_vars, [NoRevival]_vars
    PROVE  RunsInv'
<1>1. CASE UNCHANGED vars BY <1>1, QuietRuns
<1>2. CASE Daemon BY <1>2, QuietRuns, RestartRuns DEF Daemon
<1>3. CASE Ticker BY <1>3, QuietRuns, SpawnDueRuns DEF Ticker
<1>4. CASE TimePasses BY <1>4, QuietRuns
<1>5. ASSUME NEW h \in Handlers, Request(h) \/ LockedStep(h), NoRevival PROVE RunsInv'
  BY <1>5, PostRuns, AcceptRuns, PutRuns, DeleteRuns, LaunchRuns, RequestRuns
  DEF Request, LockedStep
<1>6. ASSUME NEW w \in Workers, RunStep(w) \/ Expire(w) \/ Log(w) PROVE RunsInv'
  BY <1>6, StartRuns, FinishRuns, WorkerRuns DEF RunStep
<1> QED BY <1>1, <1>2, <1>3, <1>4, <1>5, <1>6 DEF Next

THEOREM RunsCorrect == Spec /\ NoPutRevives => []RunsInv
<1>1. Init => RunsInv BY RunsInit
<1>2. TypeOK /\ TypeOK' /\ RunsInv /\ [Next]_vars /\ [NoRevival]_vars => RunsInv' BY RunsStep
<1> QED BY <1>1, <1>2, TypeCorrect, PTL DEF Spec, NoPutRevives

\* Run's promise that "backups and mirrors must never overlap themselves"
\* (Execute) is kept in every behaviour in which no PUT brings back a job that
\* was deleted: nothing else can break it.
THEOREM RunsNeverOverlap == Spec /\ NoPutRevives => []NoOverlap
<1>1. RunsInv => NoOverlap BY DEF RunsInv
<1> QED BY <1>1, RunsCorrect, PTL

\* In the same behaviours the Running flag is never left set without a run
\* that the cancel map reaches (Execute's start and end, New).
THEOREM RunningIsReachable == Spec /\ NoPutRevives => []RunningMeansARun
<1>1. RunsInv => RunningMeansARun BY DEF RunsInv
<1> QED BY <1>1, RunsCorrect, PTL

-----------------------------------------------------------------------------
(* When no PUT revives a job *)

LEMMA JobKept ==
    ASSUME TypeOK, NEW w \in Workers, ExecuteStarts(w) \/ Finish(w), NEW i \in Jobs, Exists(i)
    PROVE  jobs'[i] # NoJob
<1> DEFINE j == job[w]
<1>1. jobs[i] \in Job /\ jobs[i] # NoJob /\ j \in Jobs
  BY DEF Exists, ExecuteStarts, Finish, TypeOK, RegistryTypes, WorkerTypes
<1>2. CASE ExecuteStarts(w)
  <2>1. jobs' = [jobs EXCEPT ![j].running = TRUE] /\ jobs[j] \in Job
    BY <1>1, <1>2 DEF ExecuteStarts, Exists, TypeOK, RegistryTypes
  <2>2. [jobs[j] EXCEPT !.running = TRUE] \in Job BY <2>1 DEF Job
  <2> QED BY <1>1, <2>1, <2>2, NoJobAssumption DEF TypeOK, RegistryTypes, Job
<1>3. CASE Finish(w)
  <2>1. CASE Exists(j) /\ jobs' = [jobs EXCEPT ![j] = Ended(@, result[w])]
    <3>1. jobs[j] \in Job /\ result[w] \in Codes
      BY <1>1, <2>1 DEF Exists, TypeOK, RegistryTypes, WorkerTypes
    <3> QED BY <1>1, <2>1, <3>1, EndedIsIdle DEF TypeOK, RegistryTypes
  <2>2. CASE UNCHANGED jobs BY <1>1, <2>2
  <2> QED BY <1>3, <2>1, <2>2 DEF Finish
<1> QED BY <1>2, <1>3

\* Only Restart and Delete take a job out of the registry.
LEMMA JobsStay ==
    ASSUME TypeOK, [Next]_vars, ~Restart, \A h \in Handlers : ~Delete(h), NEW i \in Jobs, Exists(i)
    PROVE  Exists(i)'
<1> USE DEF Exists
<1>1. jobs[i] \in Job /\ jobs[i] # NoJob BY DEF TypeOK, RegistryTypes
<1>2. ASSUME jobs' = jobs PROVE jobs'[i] # NoJob BY <1>1, <1>2
<1>3. ASSUME NEW j \in Jobs, NEW r, r # NoJob, jobs' = [jobs EXCEPT ![j] = r]
      PROVE  jobs'[i] # NoJob
  BY <1>1, <1>3 DEF TypeOK, RegistryTypes
<1>4. ASSUME NEW j \in Jobs, ClockPasses(j) PROVE jobs'[i] # NoJob
  <2>1. jobs[j] \in Job /\ jobs' = [jobs EXCEPT ![j] = [jobs[j] EXCEPT !.next = "due"]]
    BY <1>4 DEF ClockPasses, TypeOK, RegistryTypes
  <2>2. [jobs[j] EXCEPT !.next = "due"] \in Job BY <2>1 DEF Job
  <2> QED BY <1>3, <2>1, <2>2, NoJobAssumption
<1>5. ASSUME NEW h \in Handlers, Put(h) PROVE jobs'[i] # NoJob
  <2> DEFINE j == hjob[h]
             known == IF Exists(j) THEN jobs[j].secret ELSE 0
             fresh == Newer(keyFile[j], known) + 1
  <2>1. j \in Jobs BY <1>5 DEF Put, TypeOK, HandlerTypes
  <2>2. known \in Nat /\ fresh \in Nat
    BY <2>1 DEF Newer, Job, TypeOK, RegistryTypes, FileTypes
  <2>3. PICK enabled \in BOOLEAN, schedule \in Schedules, given \in BOOLEAN :
          jobs' = [jobs EXCEPT ![j] =
                    Redefined(jobs[j], enabled, schedule, IF given THEN fresh ELSE known)]
    BY <1>5 DEF Put
  <2> DEFINE secret == IF given THEN fresh ELSE known
  <2>4. secret \in Nat /\ schedule \in ScheduleTypes /\ jobs[j] \in Job \cup {NoJob}
    BY <2>1, <2>2, ParameterAssumption DEF TypeOK, RegistryTypes
  <2> HIDE DEF secret, known, fresh
  <2>5. Redefined(jobs[j], enabled, schedule, secret) # NoJob
    BY <2>4, RedefinedKeepsFlag DEF ScheduleTypes
  <2> QED BY <1>3, <2>1, <2>3, <2>5 DEF secret
<1>6. ASSUME NEW h \in Handlers, SetEnabled(h) PROVE jobs'[i] # NoJob
  <2> DEFINE j == hjob[h]
             q == [jobs[j] EXCEPT !.enabled = (hpc[h] = "enable")]
  <2>1. CASE ~Exists(j) BY <1>2, <1>6, <2>1 DEF SetEnabled
  <2>2. CASE Exists(j)
    <3>1. j \in Jobs BY <1>6 DEF SetEnabled, TypeOK, HandlerTypes
    <3>2. jobs[j] \in Job BY <2>2, <3>1 DEF TypeOK, RegistryTypes
    <3>3. q \in Job BY <3>2 DEF Job
    <3>4. jobs' = [jobs EXCEPT ![j] = Rescheduled(q)] BY <1>6, <2>2 DEF SetEnabled
    <3> HIDE DEF q
    <3> QED BY <1>3, <3>1, <3>3, <3>4, RescheduledKeeps
  <2> QED BY <2>1, <2>2
<1>7. ASSUME NEW w \in Workers, ExecuteStarts(w) \/ Finish(w) PROVE jobs'[i] # NoJob
  BY <1>7, JobKept
<1>8. ASSUME NEW h \in Handlers, Request(h) \/ LockedStep(h), ~Put(h), ~SetEnabled(h) PROVE jobs' = jobs
  BY <1>8 DEF Request, LockedStep, Post, Accept, ClearLogs, SaveClearedLogs, Cancel, Launch,
              PutSaveJobs, DeleteLogs, DeleteSecrets, registryVars
<1>9. ASSUME NEW w \in Workers, RunStep(w) \/ Expire(w) \/ Log(w), ~ExecuteStarts(w), ~Finish(w)
      PROVE  jobs' = jobs
  BY <1>9 DEF RunStep, Run, ExecuteMissing, ExecuteSkips, LoadSecrets, OpReturns, AppendResult,
              Record, SaveLogs, Expire, Log, registryVars
<1>10. CASE Stop \/ Ticker \/ UNCHANGED vars
  BY <1>2, <1>10 DEF Stop, Ticker, FireDue, SpawnDue, Spawn, vars, registryVars
<1>11. CASE Calendar BY <1>1, <1>11, CalendarKeeps
<1> QED BY <1>2, <1>4, <1>5, <1>6, <1>7, <1>8, <1>9, <1>10, <1>11 DEF Next, TimePasses, Daemon

\* A request becomes a PUT when it finds its job, and keeps to it.
LEMMA PutsStay ==
    ASSUME TypeOK, [Next]_vars, NEW g \in Handlers, hpc'[g] = "put"
    PROVE  \/ hpc[g] = "put" /\ hjob'[g] = hjob[g]
           \/ hjob'[g] \in Jobs /\ Exists(hjob'[g]) /\ jobs' = jobs
<1> USE DEF TypeOK, HandlerTypes
<1>1. CASE Daemon BY <1>1 DEF Daemon, Stop, Restart, handlerVars
<1>2. CASE Ticker \/ TimePasses \/ UNCHANGED vars
  BY <1>2 DEF Ticker, FireDue, SpawnDue, TimePasses, Calendar, ClockPasses, handlerVars, vars
<1>3. ASSUME NEW h \in Handlers, Accept(h)
      PROVE  \/ hpc[g] = "put" /\ hjob'[g] = hjob[g]
             \/ hjob'[g] \in Jobs /\ Exists(hjob'[g]) /\ jobs' = jobs
  <2>1. PICK j \in Jobs, r \in Requests \ {"post"} :
          /\ Exists(j) /\ jobs' = jobs
          /\ hpc' = [hpc EXCEPT ![h] = r] /\ hjob' = [hjob EXCEPT ![h] = j]
    BY <1>3 DEF Accept, registryVars
  <2>2. CASE g = h BY <2>1, <2>2
  <2>3. CASE g # h BY <2>1, <2>3
  <2> QED BY <2>2, <2>3
<1>4. ASSUME NEW h \in Handlers, Request(h) \/ LockedStep(h), ~Accept(h)
      PROVE  hpc[g] = "put" /\ hjob'[g] = hjob[g]
  <2> USE DEF KeepLock, Unlock, Respond
  <2>1. CASE Post(h) BY <2>1 DEF Post
  <2>2. CASE Put(h) BY <2>2 DEF Put
  <2>3. CASE Delete(h) BY <2>3 DEF Delete
  <2>4. CASE SetEnabled(h) BY <2>4 DEF SetEnabled
  <2>5. CASE ClearLogs(h) \/ SaveClearedLogs(h) BY <2>5 DEF ClearLogs, SaveClearedLogs
  <2>6. CASE Cancel(h) BY <2>6 DEF Cancel
  <2>7. CASE \E w \in Workers : Launch(h, w) BY <2>7 DEF Launch
  <2>8. CASE LockedStep(h) BY <2>8 DEF LockedStep, PutSaveJobs, DeleteLogs, DeleteSecrets
  <2> QED BY <1>4, <2>1, <2>2, <2>3, <2>4, <2>5, <2>6, <2>7, <2>8 DEF Request
<1>5. ASSUME NEW w \in Workers, RunStep(w) \/ Expire(w) \/ Log(w)
      PROVE  hpc[g] = "put" /\ hjob'[g] = hjob[g]
  BY <1>5
  DEF RunStep, Run, ExecuteMissing, ExecuteSkips, ExecuteStarts, LoadSecrets, OpReturns,
      AppendResult, Finish, Record, SaveLogs, Expire, Log, handlerVars
<1> QED BY <1>1, <1>2, <1>3, <1>4, <1>5 DEF Next

LEMMA PutFindsStep ==
    ASSUME NoPutRacesDelete, TypeOK, KnownRequests, PutFindsJob, [Next]_vars PROVE PutFindsJob'
<1> SUFFICES ASSUME NEW g \in Handlers, hpc'[g] = "put" PROVE Exists(hjob[g])' BY DEF PutFindsJob
<1>1. CASE Restart BY <1>1 DEF Restart
<1>2. ASSUME NEW h \in Handlers, Delete(h) PROVE FALSE
  <2>1. hpc[h] = "delete" /\ hpc[g] # "put"
    BY <1>2, ParameterAssumption DEF Delete, NoPutRacesDelete, KnownRequests, AllRequests
  <2>2. hpc'[g] # "put"
    BY <1>2, <2>1 DEF Delete, KeepLock, Unlock, Respond, TypeOK, HandlerTypes
  <2> QED BY <2>2
<1>3. CASE ~Restart /\ \A h \in Handlers : ~Delete(h)
  <2>1. CASE hpc[g] = "put" /\ hjob'[g] = hjob[g]
    <3>1. hjob[g] \in Jobs /\ Exists(hjob[g]) BY <2>1 DEF PutFindsJob, TypeOK, HandlerTypes
    <3>2. Exists(hjob[g])' <=> jobs'[hjob'[g]] # NoJob BY DEF Exists
    <3> QED BY <1>3, <2>1, <3>1, JobsStay DEF Exists
  <2>2. CASE Exists(hjob'[g]) /\ jobs' = jobs BY <2>2 DEF Exists
  <2> QED BY <2>1, <2>2, PutsStay
<1> QED BY <1>1, <1>2, <1>3

\* One client at a time, or clients that never edit or never delete: no PUT
\* revives a job, and all the theorems about behaviours without one apply.
THEOREM CarefulClients == ASSUME NoPutRacesDelete PROVE Spec => NoPutRevives
<1>1. Init => PutFindsJob BY DEF Init, PutFindsJob
<1>2. TypeOK /\ KnownRequests /\ PutFindsJob /\ [Next]_vars => PutFindsJob' BY PutFindsStep
<1>3. PutFindsJob => NoRevival BY DEF PutFindsJob, NoRevival, Put
<1> QED BY <1>1, <1>2, <1>3, TypeCorrect, KnownRequestsAlways, PTL DEF Spec, NoPutRevives

-----------------------------------------------------------------------------
(* The engine implements JobRuns *)

\* Who works on which job, as JobRuns sees it.
Working == [j \in Jobs |-> Active(j)]

LEMMA SameWorking ==
    ASSUME \A w \in Workers : /\ (pc'[w] \in Holding) <=> (pc[w] \in Holding)
                              /\ pc[w] \in Holding => job'[w] = job[w]
    PROVE  Working' = Working
BY DEF Working, Active, Holds

LEMMA StartBegins ==
    ASSUME TypeOK, RunsInv, NEW w \in Workers, ExecuteStarts(w)
    PROVE  Abstract!Begin(job[w], w) /\ job[w] \in Jobs
<1> DEFINE j == job[w]
<1>1. j \in Jobs /\ pc[w] = "execute" /\ jobs[j] # NoJob /\ ~jobs[j].running
  BY DEF ExecuteStarts, Exists, Free, TypeOK, WorkerTypes
<1>2. pc' = [pc EXCEPT ![w] = "load"] /\ job' = job BY DEF ExecuteStarts, Goto
<1>3. Active(j) = {} BY <1>1 DEF Active, RunsInv, RunIsMarked, Exists
<1>4. \A i \in Jobs : w \notin Active(i) BY <1>1 DEF Active, Holds, Holding
<1>5. \A v \in Workers : Holds(v)' <=> (Holds(v) \/ v = w)
  BY <1>2 DEF Holds, Holding, TypeOK, WorkerTypes
<1>6. \A i \in Jobs : Active(i)' = IF i = j THEN {w} ELSE Active(i)
  BY <1>2, <1>3, <1>5 DEF Active
<1> HIDE DEF j
<1>7. Working' = [Working EXCEPT ![j] = {w}] BY <1>1, <1>6 DEF Working
<1> QED BY <1>1, <1>3, <1>4, <1>7 DEF Abstract!Begin, Working, j

LEMMA FinishEnds ==
    ASSUME TypeOK, NEW w \in Workers, Finish(w)
    PROVE  Abstract!End(job[w], w) /\ job[w] \in Jobs
<1> DEFINE j == job[w]
<1>1. j \in Jobs /\ pc[w] = "finish" BY DEF Finish, TypeOK, WorkerTypes
<1>2. /\ pc' = [pc EXCEPT ![w] = "record"] \/ pc' = [pc EXCEPT ![w] = "idle"]
      /\ job' = job \/ job' = [job EXCEPT ![w] = None]
  BY DEF Finish, Goto, Return
<1>3. \A v \in Workers : Holds(v)' <=> (Holds(v) /\ v # w)
  BY <1>2 DEF Holds, Holding, TypeOK, WorkerTypes
<1>4. \A v \in Workers : v # w => job'[v] = job[v] BY <1>2 DEF TypeOK, WorkerTypes
<1>5. w \in Active(j) BY <1>1 DEF Active, Holds, Holding
<1>6. \A i \in Jobs : Active(i)' = IF i = j THEN Active(i) \ {w} ELSE Active(i)
  BY <1>3, <1>4 DEF Active
<1> HIDE DEF j
<1>7. Working' = [Working EXCEPT ![j] = @ \ {w}] BY <1>1, <1>6 DEF Working
<1> QED BY <1>1, <1>5, <1>7 DEF Abstract!End, Working, j

LEMMA ImplementsStep ==
    ASSUME TypeOK, RunsInv, [Next]_vars
    PROVE  [Abstract!Next]_Working
<1> USE DEF Goto, Return, Holding
<1>1. CASE Stop \/ FireDue \/ TimePasses \/ UNCHANGED vars
  BY <1>1, SameWorking DEF Stop, FireDue, TimePasses, Calendar, ClockPasses, vars, workerVars
<1>2. CASE Restart
  BY <1>2 DEF Restart, Abstract!Next, Abstract!Die, Active, Holds, Working
<1>3. ASSUME NEW w \in Workers, SpawnDue(w) PROVE Working' = Working
  BY <1>3, SameWorking DEF SpawnDue, Spawn, TypeOK, WorkerTypes
<1>4. ASSUME NEW h \in Handlers, Request(h) \/ LockedStep(h) PROVE Working' = Working
  <2>1. CASE \E w \in Workers : Launch(h, w)
    BY <2>1, SameWorking DEF Launch, Spawn, TypeOK, WorkerTypes
  <2>2. CASE LockedStep(h) BY <2>2, SameWorking
    DEF LockedStep, PutSaveJobs, DeleteLogs, DeleteSecrets, workerVars
  <2>3. CASE Post(h) \/ Accept(h) \/ SetEnabled(h) \/ ClearLogs(h) \/ SaveClearedLogs(h) \/ Cancel(h)
    BY <2>3, SameWorking
    DEF Post, Accept, SetEnabled, ClearLogs, SaveClearedLogs, Cancel, workerVars
  <2>4. CASE Put(h) BY <2>4, SameWorking DEF Put, workerVars
  <2>5. CASE Delete(h) BY <2>5, SameWorking DEF Delete
  <2> QED BY <1>4, <2>1, <2>2, <2>3, <2>4, <2>5 DEF Request
<1>5. ASSUME NEW w \in Workers, RunStep(w) \/ Expire(w) \/ Log(w)
      PROVE  [Abstract!Next]_Working
  <2>1. CASE ExecuteStarts(w) BY <2>1, StartBegins DEF Abstract!Next
  <2>2. CASE Finish(w) BY <2>2, FinishEnds DEF Abstract!Next
  <2>3. CASE Run(w) \/ ExecuteMissing(w) \/ ExecuteSkips(w)
    BY <2>3, SameWorking DEF Run, ExecuteMissing, ExecuteSkips, TypeOK, WorkerTypes
  <2>4. CASE LoadSecrets(w) \/ OpReturns(w) \/ AppendResult(w)
    BY <2>4, SameWorking DEF LoadSecrets, OpReturns, AppendResult, TypeOK, WorkerTypes
  <2>5. CASE Record(w) \/ SaveLogs(w)
    BY <2>5, SameWorking DEF Record, SaveLogs, TypeOK, WorkerTypes
  <2>6. CASE Expire(w) \/ Log(w) BY <2>6, SameWorking DEF Expire, Log, workerVars
  <2> QED BY <1>5, <2>1, <2>2, <2>3, <2>4, <2>5, <2>6 DEF RunStep
<1> QED BY <1>1, <1>2, <1>3, <1>4, <1>5 DEF Next, Daemon, Ticker

\* Seen from outside, work on a job starts only while no other work on it is
\* going on: ExecuteStarts is Begin, Finish is End, Restart is Die (Execute, New).
THEOREM EngineImplementsJobRuns == Spec /\ NoPutRevives => ImplementsJobRuns
<1>1. Init => Abstract!Init
  BY DEF Init, Abstract!Init, Active, Holds, Holding
<1>2. TypeOK /\ RunsInv /\ [Next]_vars => [Abstract!Next]_Working BY ImplementsStep
<1> QED
  BY <1>1, <1>2, TypeCorrect, RunsCorrect, PTL DEF Spec, ImplementsJobRuns, Abstract!Spec, Working

=============================================================================
