-------------------------- MODULE EngineInvariants --------------------------
(***************************************************************************)
(* The inductive invariants behind Engine's safety properties, and the     *)
(* conditions under which they hold.                                       *)
(***************************************************************************)
EXTENDS Engine

-----------------------------------------------------------------------------
(* Runs *)

\* The one thing the engine relies on its clients for: no PUT that found its
\* job is applied after the job was deleted.
NoRevival == \A h \in Handlers : Put(h) => hpc[h] = "post" \/ Exists(hjob[h])
NoPutRevives == [][NoRevival]_vars

\* Clients of which this is certain: no PUT of a job can be in flight while
\* the job is deleted.
NoPutRacesDelete ==
    \/ "put" \notin Requests
    \/ "delete" \notin Requests
    \/ \A g, h \in Handlers : g = h

\* Nothing knows the id: not the registry, not jobs.json, no run, no ticker.
Unknown(j) ==
    /\ ~Exists(j) /\ jobsFile[j] = NoJob /\ j \notin due
    /\ \A w \in Workers : job[w] # j

\* An id newID has not handed out is unknown, and no request names it; an id
\* whose POST is under way is known to that request only.
FreshIds ==
    /\ \A j \in Jobs : j \notin used => Unknown(j) /\ \A h \in Handlers : hjob[h] # j
    /\ \A h \in Handlers : hpc[h] = "post" =>
          /\ Unknown(hjob[h])
          /\ \A g \in Handlers : hjob[g] = hjob[h] => g = h

\* A PUT under way still finds its job (with such clients).
PutFindsJob == \A h \in Handlers : hpc[h] = "put" => Exists(hjob[h])

\* Requests are of a kind the clients send.
KnownRequests == \A h \in Handlers : hpc[h] \in AllRequests => hpc[h] \in Requests

RunsInv ==
    /\ FreshIds
    /\ RunIsMarked /\ NoOverlap /\ RunningMeansARun

-----------------------------------------------------------------------------
(* Files *)

NoFileErrors == Faults \cap {"read", "write"} = {}

\* Whoever is between two file operations holds the mutex ...
LockedStates == {"put-jobs", "delete-logs", "delete-keys"}
LockHolder == \A h \in Handlers : hpc[h] \in LockedStates => mu = h

\* ... and a Delete that has got so far has taken the job out of the registry
\* and out of jobs.json.
DeletedFirst ==
    \A h \in Handlers : hpc[h] \in {"delete-logs", "delete-keys"} =>
        ~Exists(hjob[h]) /\ jobsFile[hjob[h]] = NoJob

\* The key file is never behind the registry.
KeyNotOlderThanMemory == \A j \in Jobs : Exists(j) => keyFile[j] >= jobs[j].secret

LockInv == LockHolder /\ DeletedFirst
KeysInv == LockInv /\ KeyNotOlderThanMemory /\ KeyNotOlderThanJob

\* jobs.json is behind the registry only inside a Put.
DurableInv ==
    LockInv /\ ((\A h \in Handlers : hpc[h] # "put-jobs") => \A j \in Jobs : SameDefinition(j))

\* Deleted ids have been handed out, and not to the POST that is under way.
DeletedInv ==
    /\ gone \subseteq used
    /\ \A h \in Handlers : hpc[h] = "post" => hjob[h] \notin gone
    /\ DeletedStaysDeleted

=============================================================================
