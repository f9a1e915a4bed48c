---------------------------- MODULE BackupProofs ----------------------------
(***************************************************************************)
(* What jobs that share a repository may rely on, for any number of jobs,  *)
(* snapshots, cancels and outages: a prune is alone, a success names a     *)
(* good snapshot, the newest good one stays, and the runner implements     *)
(* Copies.                                                                 *)
(*                                                                         *)
(* Three invariants carry this.  LockInv: whoever works in a repository    *)
(* has a live lock in it.  AwayInv: a run works below its disk's mount     *)
(* point only after the disk has gone under it.  SnapInv: what a finished  *)
(* run reports, and what a run that is about to prune has written, is the  *)
(* newest snapshot of its job; a prune takes older ones only.              *)
(***************************************************************************)
EXTENDS Backup, WellFoundedInduction, TLAPS

-----------------------------------------------------------------------------
(* Numbers *)

Greatest(n, ids) == n \in ids /\ \A m \in ids : m <= n

NewestOf(ids) == IF ids = {} THEN 0 ELSE CHOOSE n \in ids : \A m \in ids : m <= n

\* Numbers up to n have a greatest one: n less the smallest distance to n.
LEMMA HasGreatest ==
    ASSUME NEW n \in Nat, NEW ids \in SUBSET (1 .. n), ids # {}
    PROVE  \E g \in ids : Greatest(g, ids)
<1> DEFINE below == {n - m : m \in ids}
<1>0. \A m \in ids : m \in Nat /\ n - m \in Nat OBVIOUS
<1>1. below \subseteq Nat /\ below # {} BY <1>0
<1>2. PICK d \in below : \A e \in below : <<e, d>> \notin OpToRel(<, Nat)
  <2> HIDE DEF below
  <2> QED BY <1>1, WFMin, NatLessThanWellFounded, Zenon
<1>3. \A e \in below : d <= e
  <2>1. \A e \in below : ~(e < d)
    <3> HIDE DEF below
    <3> QED BY <1>1, <1>2, Zenon DEF OpToRel
  <2>2. d \in Nat /\ below \subseteq Nat BY <1>1, <1>2
  <2> HIDE DEF below
  <2> QED BY <2>1, <2>2
<1>4. PICK g \in ids : d = n - g OBVIOUS
<1>5. \A m \in ids : n - g <= n - m BY <1>3, <1>4
<1> QED BY <1>0, <1>5 DEF Greatest

LEMMA GreatestIs == ASSUME NEW ids \in SUBSET Nat, NEW n, Greatest(n, ids) PROVE NewestOf(ids) = n
<1> DEFINE c == CHOOSE x \in ids : \A m \in ids : m <= x
<1>1. n \in ids /\ \A m \in ids : m <= n BY DEF Greatest
<1>2. c \in ids /\ \A m \in ids : m <= c BY <1>1
<1>3. c = n
  <2>1. c <= n /\ n <= c /\ c \in Nat /\ n \in Nat BY <1>1, <1>2
  <2> QED BY <2>1
<1> QED BY <1>1, <1>3 DEF NewestOf

\* The newest of fewer snapshots is no newer.
LEMMA NewestOfFewer ==
    ASSUME NEW n \in Nat, NEW ids \in SUBSET (1 .. n), NEW fewer \in SUBSET ids
    PROVE  NewestOf(ids) \in 0 .. n /\ NewestOf(fewer) \in Nat /\ NewestOf(fewer) <= NewestOf(ids)
<1>1. CASE ids = {} BY <1>1 DEF NewestOf
<1>2. CASE ids # {}
  <2>1. PICK g \in ids : Greatest(g, ids) BY <1>2, HasGreatest
  <2>2. NewestOf(ids) = g /\ g \in 1 .. n BY <2>1, GreatestIs
  <2>3. CASE fewer = {}
    <3>1. NewestOf(fewer) = 0 BY <2>3 DEF NewestOf
    <3> QED BY <2>2, <3>1
  <2>4. CASE fewer # {}
    <3>1. PICK f \in fewer : Greatest(f, fewer) BY <2>4, HasGreatest
    <3>2. NewestOf(fewer) = f /\ f <= g /\ f \in Nat BY <2>1, <3>1, GreatestIs DEF Greatest
    <3> QED BY <2>2, <3>2
  <2> QED BY <2>3, <2>4
<1> QED BY <1>1, <1>2

-----------------------------------------------------------------------------
(* Steps *)

Success == {"completed", "empty"}

USE BackupAssumption

LEMMA Explained ==
    /\ DOMAIN Explain = {"missing", "locked", "password", "http500", "auth", "share",
                         "unreachable", "other"}
    /\ \A e \in DOMAIN Explain : Explain[e] \in Codes \ (Success \cup {"cancelled"})
BY DEF Explain, Codes, Declared, Internal, Success

LEMMA Refusals == ASSUME NEW j, NEW step PROVE Refusal(j, step) \in {"ok"} \cup DOMAIN Explain
BY Explained DEF Refusal

LEMMA Verdicts ==
    ASSUME NEW e \in DOMAIN Explain, NEW stopped \in BOOLEAN
    PROVE  /\ Verdict(e, stopped) \in Codes \ Success
           /\ Verdict(e, stopped) = "cancelled" => stopped
<1>1. e \notin {"done", "attributes", "unread"} BY Explained
<1>2. "cancelled" \in Codes \ Success BY DEF Codes, Declared, Success
<1> QED BY <1>1, <1>2, Explained DEF Verdict

\* The steps only a run has.
RunSteps == {"probe", "probing", "init", "backup", "backing_up", "forget", "forgetting"}

\* The operation, the step and the place of a job agree.
Agrees ==
    \A j \in Jobs :
        /\ (op[j] = None) = (pc[j] = "idle")
        /\ pc[j] \in Running => site[j] \in Places
        /\ pc[j] \in RunSteps => op[j] = "run"

\* j goes on with a step of its operation.  The target is looked at once, in
\* Prepare, and from then on it counts when it goes.
Proceeds(j, step) ==
    /\ Continue(j, step)
    /\ step \in RunSteps => op[j] = "run"
    /\ \/ away' = away /\ pc[j] # "prepare"
       \/ away' = [away EXCEPT ![j] = FALSE] /\ ~Unmounted(j) /\ step \notin Running

\* A step that neither writes snapshots nor reports a success.
Gentle(j) ==
    /\ pc[j] # "idle"
    /\ UNCHANGED <<up, snaps, lastId, dead, reading>>
    /\ key' \in [Places -> Passphrases \cup {None}] /\ faults' \in Nat
    /\ \/ \E s \in Steps \ {"idle", "prepare", "forget", "forgetting"} : Proceeds(j, s)
       \/ /\ away' \in {away, [away EXCEPT ![j] = FALSE]}
          /\ \E code \in Codes \ Success, id \in 0..lastId :
                Finish(j, code, id) /\ (code = "cancelled" => dead[j])

GentleStep(j) ==
    \/ Prepare(j) \/ Probe(j) \/ ProbeExits(j) \/ ProbeDeadline(j) \/ Unlock(j) \/ InitRepo(j)
    \/ BackUp(j) \/ RestoreStarts(j) \/ RestoreExits(j) \/ CheckStarts(j) \/ CheckExits(j)

LEMMA FailsGently ==
    ASSUME NEW j \in Jobs, NEW step, Fails(j, step)
    PROVE  \E code \in Codes \ Success : Finish(j, code, 0) /\ code # "cancelled"
<1>1. Refusal(j, step) \in DOMAIN Explain BY Refusals DEF Fails
<1> QED BY <1>1, Explained DEF Fails

LEMMA BreaksGently ==
    ASSUME TypeOK, NEW j \in Jobs, Breaks(j)
    PROVE  \E code \in Codes \ Success : Finish(j, code, 0) /\ (code = "cancelled" => dead[j])
<1>1. dead[j] \in BOOLEAN BY DEF TypeOK
<1>2. "unreachable" \in DOMAIN Explain BY Explained
<1>3. PICK e \in DOMAIN Explain : Finish(j, Verdict(e, dead[j]), 0) BY <1>2 DEF Breaks
<1> QED BY <1>1, <1>3, Verdicts

LEMMA MishapType == TypeOK /\ Mishap => faults' \in Nat
BY DEF TypeOK, Mishap

LEMMA InitFails ==
    ASSUME NEW j \in Jobs, NEW e \in Failures, Finish(j, Explain[e], 0)
    PROVE  \E code \in Codes \ Success : Finish(j, code, 0) /\ code # "cancelled"
BY Explained

LEMMA AreGentle == ASSUME TypeOK, Agrees, NEW j \in Jobs, GentleStep(j) PROVE Gentle(j)
<1> USE DEF Steps, Running, Exclusive
<1>0. /\ 0 \in 0..lastId /\ faults \in Nat /\ key \in [Places -> Passphrases \cup {None}]
      /\ pass[j] \in Passphrases /\ work[j].id \in 0..lastId
      /\ pc[j] \in RunSteps => op[j] = "run"
  BY DEF TypeOK, Agrees
<1>1. {"cancelled", "failed", "target_unavailable", "repo_unreadable", "restored", "check_ok",
       "check_failed"} \subseteq Codes \ Success
  BY DEF Codes, Declared, Success
<1>2. CASE Prepare(j)
  <2>1. CASE Continue(j, IF op[j] = "run" THEN "probe" ELSE "unlock") /\ ~Unmounted(j)
    <3>1. CASE op[j] = "run"
      BY <1>0, <1>2, <2>1, <3>1, MishapType DEF Prepare, Gentle, Proceeds, repository, RunSteps
    <3>2. CASE op[j] # "run"
      BY <1>0, <1>2, <2>1, <3>2, MishapType DEF Prepare, Gentle, Proceeds, repository, RunSteps
    <3> QED BY <3>1, <3>2
  <2>2. CASE \E code \in {"target_unavailable", "failed"} : Finish(j, code, 0)
    BY <1>0, <1>1, <1>2, <2>2, MishapType DEF Prepare, Gentle, repository
  <2> QED BY <1>2, <2>1, <2>2 DEF Prepare
<1>3. CASE Probe(j)
  <2>1. ASSUME NEW s \in {"probing", "init"}, Continue(j, s) PROVE Proceeds(j, s)
    BY <1>0, <1>3, <2>1 DEF Probe, Proceeds, RunSteps
  <2> QED BY <1>0, <1>1, <1>3, <2>1, FailsGently DEF Probe, Gentle, Launch
<1>4. CASE ProbeExits(j)
  <2>1. Continue(j, "unlock") => Proceeds(j, "unlock")
    BY <1>4 DEF ProbeExits, Proceeds, RunSteps
  <2> QED BY <1>0, <1>1, <1>4, <2>1, MishapType, BreaksGently DEF ProbeExits, Gentle, Killed
<1>5. CASE ProbeDeadline(j)
  <2>1. TooSlow(j) \in Codes \ Success /\ (TooSlow(j) = "cancelled" => dead[j])
    BY <1>1 DEF TooSlow
  <2> QED BY <1>0, <1>5, <2>1, MishapType DEF ProbeDeadline, Gentle
<1>6. CASE Unlock(j)
  <2>1. /\ op[j] \in Operations
        /\ Continue(j, IF op[j] = "run" THEN "backup" ELSE op[j])
    BY <1>6 DEF Unlock, Agrees, TypeOK
  <2>2. \E s \in {"backup", "restore", "check"} : Continue(j, s) /\ (s = "backup" => op[j] = "run")
    BY <2>1 DEF Operations
  <2> QED BY <1>0, <1>6, <2>2 DEF Unlock, Gentle, Proceeds, RunSteps
<1>7. CASE InitRepo(j)
  <2>1. key' \in [Places -> Passphrases \cup {None}] BY <1>0, <1>7 DEF InitRepo, Creates
  <2>2. Continue(j, "backup") => Proceeds(j, "backup")
    BY <1>0, <1>7 DEF InitRepo, Proceeds, RunSteps
  <2> QED BY <1>0, <1>1, <1>7, <2>1, <2>2, InitFails DEF InitRepo, Gentle
<1>8. CASE BackUp(j)
  <2>1. Continue(j, "backing_up") => Proceeds(j, "backing_up")
    BY <1>0, <1>8 DEF BackUp, Proceeds, RunSteps
  <2> QED BY <1>0, <1>1, <1>8, <2>1, FailsGently DEF BackUp, Gentle, NotStarted, Launch
<1>9. CASE RestoreStarts(j)
  <2>1. Continue(j, "restoring") => Proceeds(j, "restoring")
    BY <1>9 DEF RestoreStarts, Proceeds, RunSteps
  <2> QED BY <1>0, <1>1, <1>9, <2>1, FailsGently DEF RestoreStarts, Gentle, NotStarted, Launch
<1>10. CASE RestoreExits(j)
  BY <1>0, <1>1, <1>10, BreaksGently DEF RestoreExits, Gentle, Killed
<1>11. CASE CheckStarts(j)
  <2>1. Continue(j, "checking") => Proceeds(j, "checking")
    BY <1>11 DEF CheckStarts, Proceeds, RunSteps
  <2> QED BY <1>0, <1>1, <1>11, <2>1, FailsGently DEF CheckStarts, Gentle, NotStarted, Launch
<1>12. CASE CheckExits(j)
  BY <1>0, <1>1, <1>12, BreaksGently DEF CheckExits, Gentle, Killed
<1> QED
  BY <1>2, <1>3, <1>4, <1>5, <1>6, <1>7, <1>8, <1>9, <1>10, <1>11, <1>12 DEF GentleStep

-----------------------------------------------------------------------------
(* Locks *)

\* Whoever works in a repository has a live lock in it.
Held ==
    /\ \A j \in Jobs : pc[j] \in Running => Lock(j, pc[j], site[j]) \in locks
    /\ reading # None => Lock("reader", "reading", reading) \in locks

LockInv == Held /\ PruneIsAlone

\* What a step of j may do to the locks.
LockMoves(j) ==
    /\ \E s \in Steps : Goto(j, s)
    /\ reading' = reading
    /\ \/ /\ pc'[j] \notin Running
          /\ \E at \in Places \cup {None} :
                locks' \in {locks, Released(j), Abandoned(j), Unlocked(at)}
       \/ /\ pc'[j] \in Running
          /\ Refusal(j, pc'[j]) = "ok"
          /\ locks' = locks \cup {Lock(j, pc'[j], Where(j))}

LEMMA WhereType == \A j : Where(j) \in Places
BY DEF Where, Places

LEMMA LockTypes ==
    ASSUME locks \in SUBSET Locks, NEW p \in Jobs \cup {"reader"}
    PROVE  /\ {Released(p), Abandoned(p)} \subseteq SUBSET Locks
           /\ \A at : Dropped(p, at) \in SUBSET Locks /\ Unlocked(at) \in SUBSET Locks
           /\ \A step : \A at \in Places : locks \cup {Lock(p, step, at)} \in SUBSET Locks
<1>1. Released(p) \in SUBSET Locks /\ \A at : Unlocked(at) \in SUBSET Locks
  BY DEF Released, Unlocked
<1>2. Abandoned(p) \in SUBSET Locks
  <2>1. ASSUME NEW l \in Locks, NEW b \in BOOLEAN PROVE [l EXCEPT !.live = b] \in Locks
    BY DEF Locks
  <2>2. \A l \in Locks : (l.live /\ l.proc # p) \in BOOLEAN BY DEF Locks
  <2> QED BY <2>1, <2>2 DEF Abandoned
<1>3. \A step : \A at \in Places : Lock(p, step, at) \in Locks BY DEF Lock, Locks
<1> QED BY <1>1, <1>2, <1>3 DEF Dropped

\* A lock of somebody else stays, in whichever way p's own are removed.
LEMMA OthersKeep ==
    ASSUME NEW p, NEW q, q # p, NEW step, NEW place, Lock(q, step, place) \in locks
    PROVE  \A at : \A ls \in {locks, Released(p), Abandoned(p), Dropped(p, at), Unlocked(at)} :
              Lock(q, step, place) \in ls
<1> DEFINE l == Lock(q, step, place)
<1>1. l \in Released(p) BY DEF Released, Lock
<1>2. l \in Abandoned(p)
  <2>1. [l EXCEPT !.live = l.live /\ l.proc # p] = l BY DEF Lock
  <2> QED BY <2>1 DEF Abandoned
<1>3. \A at : l \in Unlocked(at) BY DEF Unlocked, Lock
<1> QED BY <1>1, <1>2, <1>3 DEF Dropped

LEMMA NotBlocked ==
    ASSUME NEW j, NEW step, Refusal(j, step) = "ok"
    PROVE  \A l \in locks : l.at = Where(j) => ~l.exclusive /\ step \notin Exclusive
BY DEF Refusal, Blocked

LEMMA LockKept ==
    ASSUME TypeOK, LockInv, NEW j \in Jobs, LockMoves(j)
    PROVE  LockInv'
<1> PICK s \in Steps : Goto(j, s) BY DEF LockMoves
<1>1. /\ pc'[j] = s /\ (\A i \in Jobs \ {j} : pc'[i] = pc[i] /\ site'[i] = site[i])
      /\ site'[j] = (IF s \in Running THEN Where(j) ELSE None) /\ reading' = reading
  BY DEF TypeOK, LockMoves, Goto
<1>2. CASE s \notin Running
  <2>1. PICK at \in Places \cup {None} : locks' \in {locks, Released(j), Abandoned(j), Unlocked(at)}
    BY <1>1, <1>2 DEF LockMoves
  <2>2. Held' BY <1>1, <1>2, <2>1, OthersKeep DEF LockInv, Held
  <2>3. PruneIsAlone' BY <1>1, <1>2 DEF LockInv, PruneIsAlone, Running, Exclusive
  <2> QED BY <2>2, <2>3 DEF LockInv
<1>3. CASE s \in Running
  <2>1. Refusal(j, s) = "ok" /\ locks' = locks \cup {Lock(j, s, Where(j))}
    BY <1>1, <1>3 DEF LockMoves
  <2>2. Held' BY <1>1, <1>3, <2>1 DEF LockInv, Held
  <2>3. \A l \in locks : l.at = Where(j) => ~l.exclusive /\ s \notin Exclusive
    BY <2>1, NotBlocked
  <2>4. ASSUME NEW i \in Jobs, pc[i] \in Exclusive PROVE site[i] # Where(j)
    <3>1. Lock(i, pc[i], site[i]) \in locks BY <2>4 DEF LockInv, Held, Running, Exclusive
    <3> QED BY <2>3, <2>4, <3>1 DEF Lock
  <2>5. ASSUME s \in Exclusive
        PROVE  reading # Where(j) /\ \A i \in Jobs : pc[i] \in Running => site[i] # Where(j)
    <3>1. \A l \in locks : l.at # Where(j) BY <2>3, <2>5
    <3>2. Where(j) # None BY WhereType DEF Places
    <3>3. reading = Where(j) => Lock("reader", "reading", reading) \in locks
      BY <3>2 DEF LockInv, Held
    <3>4. \A i \in Jobs : pc[i] \in Running => Lock(i, pc[i], site[i]) \in locks
      BY DEF LockInv, Held
    <3> QED BY <3>1, <3>3, <3>4 DEF Lock
  <2>6. PruneIsAlone' BY <1>1, <1>3, <2>4, <2>5 DEF LockInv, PruneIsAlone
  <2> QED BY <2>2, <2>6 DEF LockInv
<1> QED BY <1>2, <1>3

LEMMA StepLocks ==
    ASSUME TypeOK, Agrees, NEW j \in Jobs, Step(j) \/ ProbeDeadline(j)
    PROVE  LockMoves(j)
<1> USE DEF Steps, Running, Exclusive
<1> DEFINE Frees == \E at \in Places \cup {None} :
                       locks' \in {locks, Released(j), Abandoned(j), Dropped(j, at), Unlocked(at)}
<1>0. site[j] \in Places \cup {None} BY DEF TypeOK
<1>1. ASSUME NEW s \in Steps \ Running, Goto(j, s), reading' = reading, Frees PROVE LockMoves(j)
  BY <1>1 DEF LockMoves, Goto, TypeOK, Dropped
<1>2. ASSUME NEW s \in Running, Launch(j, s), reading' = reading PROVE LockMoves(j)
  BY <1>2 DEF LockMoves, TypeOK, Launch, Continue, Goto
<1>3. ASSUME NEW s \in Steps \ Running, Continue(j, s), reading' = reading, Frees PROVE LockMoves(j)
  BY <1>1, <1>3 DEF Continue
<1>4. ASSUME NEW code, NEW id, Finish(j, code, id), reading' = reading, Frees PROVE LockMoves(j)
  BY <1>1, <1>4 DEF Finish
<1>5. ASSUME Breaks(j), reading' = reading PROVE LockMoves(j) BY <1>0, <1>4, <1>5 DEF Breaks
<1>6. CASE Prepare(j)
  <2>1. (IF op[j] = "run" THEN "probe" ELSE "unlock") \in Steps \ Running OBVIOUS
  <2> QED BY <1>3, <1>4, <1>6, <2>1 DEF Prepare, repository
<1>7. CASE Probe(j) BY <1>2, <1>3, <1>4, <1>7 DEF Probe, Fails
<1>8. CASE ProbeExits(j) BY <1>3, <1>4, <1>5, <1>8 DEF ProbeExits, Killed
<1>9. CASE ProbeDeadline(j) BY <1>4, <1>9 DEF ProbeDeadline
<1>10. CASE Unlock(j)
  <2>1. (IF op[j] = "run" THEN "backup" ELSE op[j]) \in {"backup", "restore", "check"}
    BY <1>10 DEF Unlock, Agrees, TypeOK, Operations
  <2>2. Frees BY <1>10, WhereType DEF Unlock
  <2> QED BY <1>3, <1>10, <2>1, <2>2 DEF Unlock
<1>11. CASE InitRepo(j) BY <1>3, <1>4, <1>11 DEF InitRepo
<1>12. CASE BackUp(j) \/ RestoreStarts(j) \/ CheckStarts(j)
  BY <1>2, <1>4, <1>12 DEF BackUp, RestoreStarts, CheckStarts, NotStarted, Fails
<1>13. CASE BackupExits(j)
  BY <1>1, <1>4, <1>5, <1>13 DEF BackupExits, Summarised, Killed
<1>14. CASE Forget(j) BY <1>2, <1>4, <1>14 DEF Forget
<1>15. CASE ForgetExits(j) BY <1>0, <1>4, <1>15 DEF ForgetExits, Killed
<1>16. CASE RestoreExits(j) \/ CheckExits(j)
  BY <1>4, <1>5, <1>16 DEF RestoreExits, CheckExits, Killed
<1> QED
  BY <1>6, <1>7, <1>8, <1>9, <1>10, <1>11, <1>12, <1>13, <1>14, <1>15, <1>16 DEF Step

\* A browser only reads, and nobody prunes meanwhile.
LEMMA BrowseLocks ==
    ASSUME TypeOK, LockInv, (\E j \in Jobs : Browse(j)) \/ BrowseExits \/ BrowserLeaves
    PROVE  LockInv'
<1>1. CASE \E j \in Jobs : Browse(j)
  <2> PICK j \in Jobs : Browse(j) BY <1>1
  <2>1. /\ Refusal(j, "reading") = "ok" /\ reading' = Where(j) /\ pc' = pc /\ site' = site
        /\ locks' = locks \cup {Lock("reader", "reading", Where(j))}
    BY DEF Browse, jobVars
  <2>2. Held' BY <2>1 DEF LockInv, Held
  <2>3. ASSUME NEW i \in Jobs, pc[i] \in Exclusive PROVE site[i] # Where(j)
    <3>1. Lock(i, pc[i], site[i]) \in locks BY <2>3 DEF LockInv, Held, Running, Exclusive
    <3> QED BY <2>1, <2>3, <3>1, NotBlocked DEF Lock
  <2> QED BY <2>1, <2>2, <2>3 DEF LockInv, PruneIsAlone
<1>2. CASE BrowseExits \/ BrowserLeaves
  <2>1. /\ locks' \in {Dropped("reader", reading), Abandoned("reader")} /\ reading' = None
        /\ pc' = pc /\ site' = site
    BY <1>2 DEF BrowseExits, BrowserLeaves, jobVars
  <2>2. \A i \in Jobs : i # "reader" OBVIOUS
  <2>3. Held' BY <2>1, <2>2, OthersKeep DEF LockInv, Held
  <2>4. \A i \in Jobs : pc[i] \in Exclusive => site[i] # None
    <3>1. \A i \in Jobs : pc[i] \in Exclusive => Lock(i, pc[i], site[i]) \in Locks
      BY DEF LockInv, Held, Running, Exclusive, TypeOK
    <3> QED BY <3>1 DEF Lock, Locks, Places
  <2> QED BY <2>1, <2>3, <2>4 DEF LockInv, PruneIsAlone
<1> QED BY <1>1, <1>2

LEMMA LockNext == TypeOK /\ Agrees /\ LockInv /\ [Next]_vars => LockInv'
<1> SUFFICES ASSUME TypeOK, Agrees, LockInv, [Next]_vars PROVE LockInv' OBVIOUS
<1>1. ASSUME NEW j \in Jobs, Step(j) \/ ProbeDeadline(j) PROVE LockInv'
  BY <1>1, StepLocks, LockKept
<1>2. ASSUME NEW j \in Jobs, NEW o \in Operations, Start(j, o) PROVE LockInv'
  <2>1. LockMoves(j)
    <3>1. Goto(j, "prepare") /\ locks' = locks /\ reading' = reading BY <1>2 DEF Start, repository
    <3> QED BY <3>1 DEF Goto, LockMoves, Steps, Running, Exclusive, TypeOK
  <2> QED BY <2>1, LockKept
<1>3. CASE (\E j \in Jobs : Browse(j)) \/ BrowseExits \/ BrowserLeaves BY <1>3, BrowseLocks
<1>4. CASE \/ \E j \in Jobs : Cancel(j)
           \/ TargetGoes \/ TargetReturns
           \/ UNCHANGED vars
  BY <1>4 DEF Cancel, TargetGoes, TargetReturns, vars, repository, jobVars, LockInv, Held,
              PruneIsAlone
<1> QED BY <1>1, <1>2, <1>3, <1>4 DEF Next

-----------------------------------------------------------------------------
(* The kinds of steps *)

\* restic backup has saved a snapshot.
Writes(j, kind) ==
    /\ pc[j] = "backing_up"
    /\ UNCHANGED <<up, key, dead, away, reading, faults>>
    /\ Saves(j, kind)
    /\ \/ \E code \in Codes \ Success : Finish(j, code, 0) /\ (code = "cancelled" => dead[j])
       \/ /\ kind # "incomplete" /\ Goto(j, "forget") /\ UNCHANGED <<op, result>>
          /\ work' = [work EXCEPT ![j] = [id |-> lastId + 1, kind |-> kind]]
       \/ Finish(j, Code(kind), lastId + 1)

\* restic forget begins, ends or is left out.
Prunes(j) ==
    /\ pc[j] \in {"forget", "forgetting"}
    /\ UNCHANGED <<up, key, lastId, dead, away, reading, faults>>
    /\ \/ snaps' = snaps /\ Continue(j, "forgetting")
       \/ /\ \E gone \in SUBSET Older(j) : snaps' = snaps \ gone
          /\ pc[j] = "forget" => snaps' = snaps
          /\ Finish(j, Code(work[j].kind), work[j].id)

\* Nothing happens to an operation or a snapshot, but the disk may go.
Aside ==
    /\ UNCHANGED <<key, snaps, lastId, op, pc, site, work, result>>
    /\ up' \in BOOLEAN /\ reading' \in Places \cup {None} /\ faults' \in Nat
    /\ away' \in [Jobs -> BOOLEAN]
    /\ \A j \in Jobs : away[j] => away'[j]
    /\ up /\ ~up' => \A j \in Local : op[j] # None => away'[j]
    /\ dead' = dead \/ \E j \in Jobs : op[j] # None /\ dead' = [dead EXCEPT ![j] = TRUE]

LEMMA ExitKinds ==
    ASSUME TypeOK, NEW j \in Jobs, BackupExits(j)
    PROVE  Gentle(j) \/ \E kind \in Kinds : Writes(j, kind)
<1>1. /\ pc[j] = "backing_up" /\ dead[j] \in BOOLEAN /\ faults \in Nat
      /\ key \in [Places -> Passphrases \cup {None}] /\ 0 \in 0..lastId
      /\ UNCHANGED <<up, key, dead, away, reading, faults>>
      /\ yields[j] \subseteq Kinds
  BY DEF BackupExits, TypeOK
<1>2. {"cancelled", "failed"} \subseteq Codes \ Success BY DEF Codes, Declared, Success
<1>3. ASSUME NEW kind \in Kinds, NEW exit \in {"done", "attributes", "unread"}, NEW summary \in BOOLEAN,
             kind = "incomplete" <=> exit = "unread", Saves(j, kind),
             IF summary /\ Verdict(exit, dead[j]) # "cancelled" THEN Summarised(j, kind)
             ELSE Finish(j, Unsummarised(Verdict(exit, dead[j])), 0)
      PROVE  Writes(j, kind)
  <2>1. Unsummarised(Verdict(exit, dead[j])) = "cancelled" => dead[j] BY DEF Unsummarised, Verdict
  <2>2. Unsummarised(Verdict(exit, dead[j])) \in Codes \ Success BY <1>2 DEF Unsummarised
  <2> QED BY <1>1, <1>3, <2>1, <2>2 DEF Writes, Summarised, Retains
<1>4. ASSUME Killed(j), Finish(j, "cancelled", 0),
             SavesNothing \/ \E kind \in yields[j] : Saves(j, kind)
      PROVE  Gentle(j) \/ \E kind \in Kinds : Writes(j, kind)
  BY <1>1, <1>2, <1>4 DEF Gentle, Writes, Killed, SavesNothing
<1>5. ASSUME Breaks(j), SavesNothing PROVE Gentle(j)
  BY <1>1, <1>5, BreaksGently DEF Gentle, SavesNothing
<1> QED BY <1>1, <1>3, <1>4, <1>5 DEF BackupExits

LEMMA StepKinds ==
    ASSUME TypeOK, Agrees, [Next]_vars
    PROVE  \/ \E j \in Jobs : Gentle(j) \/ Prunes(j) \/ \E kind \in Kinds : Writes(j, kind)
           \/ \E j \in Jobs, o \in Operations : Start(j, o)
           \/ Aside
<1>1. /\ up \in BOOLEAN /\ reading \in Places \cup {None} /\ faults \in Nat
      /\ away \in [Jobs -> BOOLEAN]
  BY DEF TypeOK
<1>2. ASSUME NEW j \in Jobs, Forget(j) \/ ForgetExits(j) PROVE Prunes(j)
  <2>1. CASE Forget(j)
    <3>1. {} \in SUBSET Older(j) /\ snaps \ {} = snaps OBVIOUS
    <3> QED BY <2>1, <3>1 DEF Forget, Launch, Prunes
  <2>2. CASE ForgetExits(j) BY <2>2 DEF ForgetExits, Prunes
  <2> QED BY <1>2, <2>1, <2>2
<1>3. ASSUME NEW j \in Jobs, Step(j) \/ ProbeDeadline(j)
      PROVE  Gentle(j) \/ Prunes(j) \/ \E kind \in Kinds : Writes(j, kind)
  BY <1>2, <1>3, AreGentle, ExitKinds DEF Step, GentleStep
<1>4. ASSUME NEW j \in Jobs, Cancel(j) PROVE Aside
  BY <1>1, <1>4, MishapType DEF Cancel, repository, Aside
<1>5. ASSUME NEW j \in Jobs, Browse(j) PROVE Aside
  BY <1>1, <1>5, WhereType DEF Browse, jobVars, Aside
<1>6. CASE BrowseExits \/ BrowserLeaves \/ TargetReturns
  BY <1>1, <1>6, MishapType DEF BrowseExits, BrowserLeaves, TargetReturns, repository, jobVars, Aside
<1>7. CASE TargetGoes
  <2>1. /\ away' = [j \in Jobs |-> away[j] \/ (j \in Local /\ op[j] # None)]
        /\ up' = FALSE /\ dead' = dead /\ reading' = reading
        /\ UNCHANGED <<key, snaps, lastId, op, pc, site, work, result>>
    BY <1>7 DEF TargetGoes, repository
  <2>2. \A j \in Jobs : away'[j] = (away[j] \/ (j \in Local /\ op[j] # None)) BY <2>1
  <2>3. away' \in [Jobs -> BOOLEAN] BY <2>1
  <2> QED BY <1>1, <1>7, <2>1, <2>2, <2>3, MishapType DEF TargetGoes, Aside
<1>8. CASE UNCHANGED vars BY <1>1, <1>8 DEF vars, Aside
<1> QED BY <1>3, <1>4, <1>5, <1>6, <1>7, <1>8 DEF Next

-----------------------------------------------------------------------------
(* Types *)

LEMMA LocksTyped == TypeOK /\ Agrees /\ [Next]_vars => locks' \in SUBSET Locks
<1> SUFFICES ASSUME TypeOK, Agrees, [Next]_vars PROVE locks' \in SUBSET Locks OBVIOUS
<1>1. locks \in SUBSET Locks BY DEF TypeOK
<1>2. ASSUME NEW j \in Jobs, Step(j) \/ ProbeDeadline(j) PROVE locks' \in SUBSET Locks
  <2>1. LockMoves(j) BY <1>2, StepLocks
  <2>2. CASE \E at \in Places \cup {None} : locks' \in {locks, Released(j), Abandoned(j), Unlocked(at)}
    BY <1>1, <2>2, LockTypes
  <2>3. CASE \E s : locks' = locks \cup {Lock(j, s, Where(j))} BY <1>1, <2>3, LockTypes, WhereType
  <2> QED BY <2>1, <2>2, <2>3 DEF LockMoves
<1>3. CASE (\E j \in Jobs : Browse(j)) \/ BrowseExits \/ BrowserLeaves
  <2>1. CASE \E j \in Jobs : locks' = locks \cup {Lock("reader", "reading", Where(j))}
    BY <1>1, <2>1, LockTypes, WhereType
  <2>2. CASE locks' \in {Dropped("reader", reading), Abandoned("reader")} BY <1>1, <2>2, LockTypes
  <2> QED BY <1>3, <2>1, <2>2 DEF Browse, BrowseExits, BrowserLeaves
<1>4. CASE \/ \E j \in Jobs, o \in Operations : Start(j, o)
           \/ \E j \in Jobs : Cancel(j)
           \/ TargetGoes \/ TargetReturns \/ UNCHANGED vars
  BY <1>1, <1>4 DEF Start, Cancel, TargetGoes, TargetReturns, vars, repository
<1> QED BY <1>2, <1>3, <1>4 DEF Next

\* The types of what belongs to the jobs' operations.
OpTypes ==
    /\ lastId \in Nat
    /\ snaps \in SUBSET [id : 1 .. lastId, job : Jobs, kind : Kinds, at : Places]
    /\ op \in [Jobs -> Operations \cup {None}]
    /\ pc \in [Jobs -> Steps]
    /\ site \in [Jobs -> Places \cup {None}]
    /\ dead \in [Jobs -> BOOLEAN]
    /\ work \in [Jobs -> [id : 0 .. lastId, kind : Kinds]]
    /\ away \in [Jobs -> BOOLEAN]
    /\ result \in [Jobs -> [code : Codes, id : 0 .. lastId] \cup {None}]

LEMMA GotoTypes ==
    ASSUME OpTypes, NEW j \in Jobs, NEW s \in Steps, Goto(j, s)
    PROVE  /\ pc' \in [Jobs -> Steps] /\ site' \in [Jobs -> Places \cup {None}]
           /\ pc'[j] = s /\ (s \in Running => site'[j] \in Places)
           /\ \A i \in Jobs \ {j} : pc'[i] = pc[i] /\ site'[i] = site[i]
BY WhereType DEF OpTypes, Goto

LEMMA ContinueTypes ==
    ASSUME OpTypes, Agrees, NEW j \in Jobs, pc[j] # "idle", NEW s \in Steps \ {"idle"}, Goto(j, s),
           op' = op, s \in RunSteps => op[j] = "run"
    PROVE  /\ pc' \in [Jobs -> Steps] /\ site' \in [Jobs -> Places \cup {None}] /\ Agrees'
BY GotoTypes DEF Agrees

LEMMA FinishTypes ==
    ASSUME OpTypes, Agrees, NEW j \in Jobs, NEW code \in Codes, NEW id \in Nat, Finish(j, code, id)
    PROVE  /\ pc' \in [Jobs -> Steps] /\ op' \in [Jobs -> Operations \cup {None}]
           /\ site' \in [Jobs -> Places \cup {None}]
           /\ work' \in [Jobs -> [id : 0 .. lastId, kind : Kinds]]
           /\ work' = [work EXCEPT ![j] = NoSnap]
           /\ result' = [result EXCEPT ![j] = [code |-> code, id |-> id]]
           /\ Agrees'
<1>1. /\ Goto(j, "idle") /\ op' = [op EXCEPT ![j] = None] /\ "idle" \in Steps
      /\ work' = [work EXCEPT ![j] = NoSnap]
      /\ result' = [result EXCEPT ![j] = [code |-> code, id |-> id]]
  BY DEF Finish, Steps
<1>2. /\ pc' \in [Jobs -> Steps] /\ site' \in [Jobs -> Places \cup {None}] /\ pc'[j] = "idle"
      /\ \A i \in Jobs \ {j} : pc'[i] = pc[i] /\ site'[i] = site[i]
  BY <1>1, GotoTypes
<1>3. op' \in [Jobs -> Operations \cup {None}] /\ op'[j] = None /\ \A i \in Jobs \ {j} : op'[i] = op[i]
  BY <1>1 DEF OpTypes
<1>4. NoSnap \in [id : 0 .. lastId, kind : Kinds] BY DEF OpTypes, NoSnap, Kinds
<1>5. work' \in [Jobs -> [id : 0 .. lastId, kind : Kinds]] BY <1>1, <1>4 DEF OpTypes
<1>6. Agrees' BY <1>2, <1>3 DEF Agrees, Running, Exclusive, RunSteps
<1> QED BY <1>1, <1>2, <1>3, <1>5, <1>6

LEMMA CodeTypes == \A kind \in Kinds : Code(kind) \in Codes
BY DEF Code, Codes, Declared, Kinds

LEMMA OpTypesNext ==
    ASSUME TypeOK, Agrees, [Next]_vars
    PROVE  OpTypes' /\ Agrees'
<1>0. OpTypes BY DEF TypeOK, OpTypes
<1>1. ASSUME NEW j \in Jobs, Gentle(j) PROVE OpTypes' /\ Agrees'
  <2>1. CASE \E s \in Steps \ {"idle", "prepare", "forget", "forgetting"} : Proceeds(j, s)
    <3> PICK s \in Steps \ {"idle", "prepare", "forget", "forgetting"} : Proceeds(j, s) BY <2>1
    <3>1. Goto(j, s) /\ UNCHANGED <<op, work, result>> /\ (s \in RunSteps => op[j] = "run")
      BY DEF Proceeds, Continue
    <3>2. pc' \in [Jobs -> Steps] /\ site' \in [Jobs -> Places \cup {None}] /\ Agrees'
      BY <1>0, <1>1, <3>1, ContinueTypes DEF Gentle
    <3>3. away' \in [Jobs -> BOOLEAN] BY <1>0 DEF Proceeds, OpTypes
    <3> QED BY <1>0, <1>1, <3>1, <3>2, <3>3 DEF Gentle, OpTypes
  <2>2. CASE /\ away' \in {away, [away EXCEPT ![j] = FALSE]}
             /\ \E code \in Codes \ Success, id \in 0..lastId : Finish(j, code, id)
    <3> PICK code \in Codes, id \in 0..lastId : Finish(j, code, id) BY <2>2
    <3>1. id \in Nat BY <1>0 DEF OpTypes
    <3>2. /\ pc' \in [Jobs -> Steps] /\ op' \in [Jobs -> Operations \cup {None}] /\ Agrees'
          /\ site' \in [Jobs -> Places \cup {None}]
          /\ work' \in [Jobs -> [id : 0 .. lastId, kind : Kinds]]
          /\ result' = [result EXCEPT ![j] = [code |-> code, id |-> id]]
      BY <1>0, <3>1, FinishTypes
    <3>3. result' \in [Jobs -> [code : Codes, id : 0 .. lastId] \cup {None}] BY <1>0, <3>2 DEF OpTypes
    <3>4. away' \in [Jobs -> BOOLEAN] BY <1>0, <2>2 DEF OpTypes
    <3> QED BY <1>0, <1>1, <3>2, <3>3, <3>4 DEF Gentle, OpTypes
  <2> QED BY <1>1, <2>1, <2>2 DEF Gentle
<1>2. ASSUME NEW j \in Jobs, Prunes(j) PROVE OpTypes' /\ Agrees'
  <2>1. snaps' \subseteq snaps /\ away' = away BY <1>2 DEF Prunes
  <2>2. CASE Continue(j, "forgetting")
    <3>1. Goto(j, "forgetting") /\ UNCHANGED <<op, work, result>> BY <2>2 DEF Continue
    <3>2. op[j] = "run" BY <1>2 DEF Prunes, Agrees, RunSteps
    <3>3. pc' \in [Jobs -> Steps] /\ site' \in [Jobs -> Places \cup {None}] /\ Agrees'
      BY <1>0, <1>2, <3>1, <3>2, ContinueTypes DEF Prunes, Steps, Running
    <3> QED BY <1>0, <1>2, <2>1, <3>1, <3>3 DEF Prunes, OpTypes
  <2>3. CASE Finish(j, Code(work[j].kind), work[j].id)
    <3>1. /\ work[j].id \in 0..lastId /\ work[j].id \in Nat /\ Code(work[j].kind) \in Codes
      BY <1>0, CodeTypes DEF OpTypes
    <3>2. /\ pc' \in [Jobs -> Steps] /\ op' \in [Jobs -> Operations \cup {None}] /\ Agrees'
          /\ site' \in [Jobs -> Places \cup {None}]
          /\ work' \in [Jobs -> [id : 0 .. lastId, kind : Kinds]]
          /\ result' = [result EXCEPT ![j] = [code |-> Code(work[j].kind), id |-> work[j].id]]
      BY <1>0, <2>3, <3>1, FinishTypes
    <3>3. result' \in [Jobs -> [code : Codes, id : 0 .. lastId] \cup {None}]
      BY <1>0, <3>1, <3>2 DEF OpTypes
    <3> QED BY <1>0, <1>2, <2>1, <3>2, <3>3 DEF Prunes, OpTypes
  <2> QED BY <1>2, <2>2, <2>3 DEF Prunes
<1>3. ASSUME NEW j \in Jobs, NEW kind \in Kinds, Writes(j, kind) PROVE OpTypes' /\ Agrees'
  <2>1. /\ lastId' = lastId + 1 /\ lastId' \in Nat /\ 0..lastId \subseteq 0..lastId'
        /\ 1..lastId \subseteq 1..lastId' /\ away' = away /\ dead' = dead
    BY <1>0, <1>3 DEF Writes, Saves, OpTypes
  <2>2. snaps' \in SUBSET [id : 1 .. lastId', job : Jobs, kind : Kinds, at : Places]
    <3>1. site[j] \in Places BY <1>3 DEF Writes, Agrees, Running
    <3> QED BY <1>0, <1>3, <2>1, <3>1 DEF Writes, Saves, OpTypes
  <2>3. ASSUME Goto(j, "forget"), UNCHANGED <<op, result>>,
               work' = [work EXCEPT ![j] = [id |-> lastId + 1, kind |-> kind]]
        PROVE  OpTypes' /\ Agrees'
    <3>1. op[j] = "run" BY <1>3 DEF Writes, Agrees, RunSteps
    <3>2. pc' \in [Jobs -> Steps] /\ site' \in [Jobs -> Places \cup {None}] /\ Agrees'
      BY <1>0, <1>3, <2>3, <3>1, ContinueTypes DEF Writes, Steps
    <3>3. result' \in [Jobs -> [code : Codes, id : 0 .. lastId'] \cup {None}]
      BY <1>0, <2>1, <2>3 DEF OpTypes
    <3>4. work' \in [Jobs -> [id : 0 .. lastId', kind : Kinds]] BY <1>0, <2>1, <2>3 DEF OpTypes
    <3> QED BY <1>0, <2>1, <2>2, <2>3, <3>2, <3>3, <3>4 DEF OpTypes
  <2>4. ASSUME NEW code \in Codes, NEW id \in 0..lastId', Finish(j, code, id)
        PROVE  OpTypes' /\ Agrees'
    <3>1. id \in Nat BY <2>1
    <3>2. /\ pc' \in [Jobs -> Steps] /\ op' \in [Jobs -> Operations \cup {None}] /\ Agrees'
          /\ site' \in [Jobs -> Places \cup {None}]
          /\ work' \in [Jobs -> [id : 0 .. lastId, kind : Kinds]]
          /\ result' = [result EXCEPT ![j] = [code |-> code, id |-> id]]
      BY <1>0, <2>4, <3>1, FinishTypes
    <3>3. result' \in [Jobs -> [code : Codes, id : 0 .. lastId'] \cup {None}]
      BY <1>0, <2>1, <3>2 DEF OpTypes
    <3>4. work' \in [Jobs -> [id : 0 .. lastId', kind : Kinds]] BY <2>1, <3>2
    <3> QED BY <1>0, <2>1, <2>2, <3>2, <3>3, <3>4 DEF OpTypes
  <2>5. 0 \in 0..lastId' /\ lastId + 1 \in 0..lastId' /\ Code(kind) \in Codes
    BY <2>1, CodeTypes
  <2> QED BY <1>3, <2>3, <2>4, <2>5 DEF Writes
<1>4. ASSUME NEW j \in Jobs, NEW o \in Operations, Start(j, o) PROVE OpTypes' /\ Agrees'
  <2>1. work' \in [Jobs -> [id : 0 .. lastId, kind : Kinds]]
    BY <1>0, <1>4 DEF Start, OpTypes
  <2>2. /\ op' = [op EXCEPT ![j] = o] /\ Goto(j, "prepare")
        /\ dead' = [dead EXCEPT ![j] = FALSE] /\ result' = [result EXCEPT ![j] = None]
        /\ away' = [away EXCEPT ![j] = FALSE]
        /\ snaps' = snaps /\ lastId' = lastId
    BY <1>4 DEF Start, repository
  <2>3. /\ pc' \in [Jobs -> Steps] /\ site' \in [Jobs -> Places \cup {None}] /\ pc'[j] = "prepare"
        /\ \A i \in Jobs \ {j} : pc'[i] = pc[i] /\ site'[i] = site[i]
    BY <1>0, <2>2, GotoTypes DEF Steps
  <2>4. OpTypes' BY <1>0, <2>1, <2>2, <2>3 DEF OpTypes
  <2>5. Agrees' BY <1>0, <2>2, <2>3 DEF OpTypes, Agrees, Running, Exclusive, RunSteps
  <2> QED BY <2>4, <2>5
<1>5. CASE Aside
  <2>1. dead' \in [Jobs -> BOOLEAN] BY <1>0, <1>5 DEF Aside, OpTypes
  <2> QED BY <1>0, <1>5, <2>1 DEF Aside, OpTypes, Agrees
<1> QED BY <1>1, <1>2, <1>3, <1>4, <1>5, StepKinds

LEMMA TypeNext == TypeOK /\ Agrees /\ [Next]_vars => TypeOK' /\ Agrees'
<1> SUFFICES ASSUME TypeOK, Agrees, [Next]_vars PROVE TypeOK' /\ Agrees' OBVIOUS
<1>1. OpTypes' /\ Agrees' BY OpTypesNext
<1>2. locks' \in SUBSET Locks BY LocksTyped
<1>3. /\ up' \in BOOLEAN /\ key' \in [Places -> Passphrases \cup {None}]
      /\ reading' \in Places \cup {None} /\ faults' \in Nat
  BY StepKinds DEF TypeOK, Gentle, Writes, Prunes, Aside, Start, repository
<1> QED BY <1>1, <1>2, <1>3 DEF TypeOK, OpTypes

LEMMA InitTypes == Init => TypeOK /\ Agrees
<1> SUFFICES ASSUME Init PROVE TypeOK /\ Agrees OBVIOUS
<1>1. OpTypes
  <2>1. lastId = 0 /\ 0 \in 0..lastId /\ "complete" \in Kinds /\ "idle" \in Steps
    BY DEF Init, Kinds, Steps
  <2>2. work \in [Jobs -> [id : 0 .. lastId, kind : Kinds]] BY <2>1 DEF Init, NoSnap
  <2> QED BY <2>1, <2>2 DEF Init, OpTypes
<1>2. Agrees BY DEF Init, Agrees, Running, Exclusive, RunSteps
<1>3. /\ up \in BOOLEAN /\ key \in [Places -> Passphrases \cup {None}] /\ locks \in SUBSET Locks
      /\ reading \in Places \cup {None} /\ faults \in Nat
  BY DEF Init
<1> QED BY <1>1, <1>2, <1>3 DEF OpTypes, TypeOK

\* Every variable keeps its type (backup.go): a result has one of the codes
\* of model.go, or "repo_missing", which exec's callers hand out as it is.
THEOREM TypeCorrect == Spec => []TypeOK
<1>1. Init => TypeOK /\ Agrees BY InitTypes
<1>2. TypeOK /\ Agrees /\ [Next]_vars => TypeOK' /\ Agrees' BY TypeNext
<1> QED BY <1>1, <1>2, PTL DEF Spec

LEMMA Always == Spec => [](TypeOK /\ Agrees)
<1>1. Init => TypeOK /\ Agrees BY InitTypes
<1>2. TypeOK /\ Agrees /\ [Next]_vars => TypeOK' /\ Agrees' BY TypeNext
<1> QED BY <1>1, <1>2, PTL DEF Spec

\* unlock, run before each operation also beside another job's, never lets
\* anybody into a repository that a prune or a check has to itself.
THEOREM PrunesAlone == Spec => []PruneIsAlone
<1>1. Init => LockInv
  BY DEF Init, LockInv, Held, PruneIsAlone, Running, Exclusive
<1>2. TypeOK /\ Agrees /\ LockInv /\ [Next]_vars => LockInv' BY LockNext
<1> QED BY <1>1, <1>2, Always, PTL DEF Spec, LockInv

-----------------------------------------------------------------------------
(* Cancels *)

StoppedInv ==
    /\ CancelledMeansStopped
    /\ \A j \in Jobs : op[j] # None => result[j] = None

LEMMA StoppedNext == TypeOK /\ Agrees /\ StoppedInv /\ [Next]_vars => StoppedInv'
<1> SUFFICES ASSUME TypeOK, Agrees, StoppedInv, [Next]_vars PROVE StoppedInv' OBVIOUS
<1>1. ASSUME UNCHANGED <<op, result>>, dead' = dead PROVE StoppedInv'
  BY <1>1 DEF StoppedInv, CancelledMeansStopped
<1>2. ASSUME NEW j \in Jobs, NEW code, NEW id, Finish(j, code, id), dead' = dead,
             code = "cancelled" => dead[j]
      PROVE  StoppedInv'
  <2>1. /\ op' = [op EXCEPT ![j] = None]
        /\ result' = [result EXCEPT ![j] = [code |-> code, id |-> id]]
    BY <1>2 DEF Finish
  <2>2. \A i \in Jobs : op'[i] # None => result'[i] = None
    BY <2>1 DEF StoppedInv, TypeOK
  <2>3. \A i \in Jobs : result'[i] # None /\ result'[i].code = "cancelled" => dead[i]
    BY <1>2, <2>1 DEF StoppedInv, CancelledMeansStopped, TypeOK
  <2> QED BY <1>2, <2>2, <2>3 DEF StoppedInv, CancelledMeansStopped
<1>3. ASSUME NEW j \in Jobs, Gentle(j) PROVE StoppedInv'
  BY <1>1, <1>2, <1>3 DEF Gentle, Proceeds, Continue
<1>4. \A kind \in Kinds : Code(kind) # "cancelled" BY DEF Code, Kinds
<1>5. ASSUME NEW j \in Jobs, Prunes(j) PROVE StoppedInv'
  BY <1>1, <1>2, <1>4, <1>5 DEF Prunes, TypeOK, Continue
<1>6. ASSUME NEW j \in Jobs, NEW kind \in Kinds, Writes(j, kind) PROVE StoppedInv'
  BY <1>1, <1>2, <1>4, <1>6 DEF Writes
<1>7. ASSUME NEW j \in Jobs, NEW o \in Operations, Start(j, o) PROVE StoppedInv'
  <2>1. /\ op' = [op EXCEPT ![j] = o] /\ dead' = [dead EXCEPT ![j] = FALSE]
        /\ result' = [result EXCEPT ![j] = None]
    BY <1>7 DEF Start
  <2> QED BY <2>1 DEF StoppedInv, CancelledMeansStopped, TypeOK
<1>8. CASE Aside
  <2>1. \A j \in Jobs : dead[j] => dead'[j] BY <1>8 DEF Aside, TypeOK
  <2> QED BY <1>8, <2>1 DEF Aside, StoppedInv, CancelledMeansStopped
<1> QED BY <1>3, <1>5, <1>6, <1>7, <1>8, StepKinds

LEMMA StoppedAlways == Spec => []StoppedInv
<1>1. Init => StoppedInv BY DEF Init, StoppedInv, CancelledMeansStopped
<1>2. TypeOK /\ Agrees /\ StoppedInv /\ [Next]_vars => StoppedInv' BY StoppedNext
<1> QED BY <1>1, <1>2, Always, PTL DEF Spec

\* No deadline, outage or exit of restic is taken for a stop by the user
\* (backup.go, ensureRepo, exec).
THEOREM CancelledIsStopped == Spec => []CancelledMeansStopped
BY StoppedAlways, PTL DEF StoppedInv

-----------------------------------------------------------------------------
(* Disks that go *)

\* A run that has looked at its target and now finds the disk gone, or works
\* below the mount point, has seen the disk go.
AwayInv ==
    \A j \in Jobs : op[j] = "run" /\ pc[j] # "prepare" =>
        /\ j \in Local /\ ~up => away[j]
        /\ site[j] = "system" => away[j]

\* What a step of j alone leaves of AwayInv.
LEMMA AwayByStep ==
    ASSUME TypeOK, AwayInv, NEW j \in Jobs, NEW s \in Steps, Goto(j, s), up' = up,
           \A i \in Jobs \ {j} : op'[i] = op[i] /\ away'[i] = away[i],
           \/ op'[j] # "run" \/ s = "prepare"
           \/ op'[j] = op[j] /\ away' = away /\ pc[j] # "prepare"
           \/ op'[j] = op[j] /\ ~Unmounted(j) /\ s \notin Running
    PROVE  AwayInv'
<1> SUFFICES ASSUME NEW i \in Jobs, op'[i] = "run", pc'[i] # "prepare"
             PROVE  /\ i \in Local /\ ~up => away'[i]
                    /\ site'[i] = "system" => away'[i]
  BY DEF AwayInv
<1>1. CASE i # j BY <1>1 DEF AwayInv, Goto, TypeOK
<1>2. CASE i = j
  <2>1. pc'[j] = s /\ site'[j] = IF s \in Running THEN Where(j) ELSE None BY DEF Goto, TypeOK
  <2>2. CASE op'[j] = op[j] /\ away' = away /\ pc[j] # "prepare"
    <3>1. j \in Local /\ ~up => away'[j] BY <1>2, <2>2 DEF AwayInv
    <3> QED BY <1>2, <2>1, <3>1 DEF Where
  <2>3. CASE op'[j] = op[j] /\ ~Unmounted(j) /\ s \notin Running
    BY <1>2, <2>1, <2>3 DEF Unmounted
  <2> QED BY <1>2, <2>1, <2>2, <2>3
<1> QED BY <1>1, <1>2

LEMMA AwayNext == TypeOK /\ Agrees /\ AwayInv /\ [Next]_vars => AwayInv'
<1> SUFFICES ASSUME TypeOK, Agrees, AwayInv, [Next]_vars PROVE AwayInv' OBVIOUS
<1>1. ASSUME NEW j \in Jobs, NEW code, NEW id, Finish(j, code, id), up' = up,
             away' \in {away, [away EXCEPT ![j] = FALSE]}
      PROVE  AwayInv'
  <2>1. Goto(j, "idle") /\ "idle" \in Steps /\ op' = [op EXCEPT ![j] = None]
    BY <1>1 DEF Finish, Steps
  <2>2. op'[j] # "run" BY <2>1 DEF TypeOK, Operations
  <2>3. \A i \in Jobs \ {j} : op'[i] = op[i] /\ away'[i] = away[i] BY <1>1, <2>1 DEF TypeOK
  <2> QED BY <1>1, <2>1, <2>2, <2>3, AwayByStep
<1>2. ASSUME NEW j \in Jobs, Gentle(j) PROVE AwayInv'
  <2>1. CASE \E s \in Steps : Proceeds(j, s)
    <3> PICK s \in Steps : Proceeds(j, s) BY <2>1
    <3>1. Goto(j, s) /\ op' = op BY DEF Proceeds, Continue
    <3>2. \A i \in Jobs \ {j} : op'[i] = op[i] /\ away'[i] = away[i]
      BY <3>1 DEF Proceeds, TypeOK
    <3> QED BY <1>2, <3>1, <3>2, AwayByStep DEF Gentle, Proceeds
  <2> QED BY <1>1, <1>2, <2>1 DEF Gentle
<1>3. ASSUME NEW j \in Jobs, NEW s \in Steps, Goto(j, s), UNCHANGED <<up, op, away>>, pc[j] # "prepare"
      PROVE  AwayInv'
  BY <1>3, AwayByStep
<1>4. ASSUME NEW j \in Jobs, Prunes(j) PROVE AwayInv'
  BY <1>1, <1>3, <1>4 DEF Prunes, Continue, Steps, Running, Exclusive
<1>5. ASSUME NEW j \in Jobs, NEW kind \in Kinds, Writes(j, kind) PROVE AwayInv'
  BY <1>1, <1>3, <1>5 DEF Writes, Steps
<1>6. ASSUME NEW j \in Jobs, NEW o \in Operations, Start(j, o) PROVE AwayInv'
  <2>1. /\ Goto(j, "prepare") /\ "prepare" \in Steps /\ up' = up
        /\ \A i \in Jobs \ {j} : op'[i] = op[i] /\ away'[i] = away[i]
    BY <1>6 DEF Start, Steps, TypeOK
  <2> QED BY <2>1, AwayByStep
<1>7. CASE Aside
  <2> SUFFICES ASSUME NEW j \in Jobs, op[j] = "run", pc[j] # "prepare"
               PROVE  /\ j \in Local /\ ~up' => away'[j]
                      /\ site[j] = "system" => away'[j]
    BY <1>7 DEF Aside, AwayInv
  <2>1. op[j] # None BY DEF Operations
  <2>2. away[j] => away'[j] BY <1>7 DEF Aside
  <2>3. up /\ ~up' /\ j \in Local => away'[j] BY <1>7, <2>1 DEF Aside
  <2> QED BY <2>2, <2>3 DEF AwayInv
<1> QED BY <1>2, <1>4, <1>5, <1>6, <1>7, StepKinds

LEMMA AwayAlways == Spec => []AwayInv
<1>1. Init => AwayInv
  <2>1. Init => \A j \in Jobs : op[j] # "run" BY DEF Init, Operations
  <2> QED BY <2>1 DEF AwayInv
<1>2. TypeOK /\ Agrees /\ AwayInv /\ [Next]_vars => AwayInv' BY AwayNext
<1> QED BY <1>1, <1>2, Always, PTL DEF Spec

-----------------------------------------------------------------------------
(* Snapshots *)

\* Of the snapshots ss, j's newest is n, of this kind; it is at the target,
\* or the target has gone.
Newest(ss, gone, j, n, kind) ==
    /\ \E at \in Places : /\ [id |-> n, job |-> j, kind |-> kind, at |-> at] \in ss
                          /\ at = "home" \/ gone
    /\ \A t \in ss : t.job = j => t.id <= n

\* What j's last result promises.
PromisedKind(j) == IF result[j].code = "completed" THEN "complete" ELSE "empty"

SnapInv ==
    /\ \A s, t \in snaps : s.id = t.id => s = t
    /\ \A j \in Jobs : pc[j] \in {"forget", "forgetting"} =>
          work[j].kind # "incomplete" /\ Newest(snaps, away[j], j, work[j].id, work[j].kind)
    /\ \A j \in Jobs : Succeeded(j) => Newest(snaps, away[j], j, result[j].id, PromisedKind(j))

\* Other jobs' snapshots do not matter, nor a disk that goes later.
LEMMA NewestStays ==
    ASSUME NEW j, NEW n, NEW kind, NEW gone, Newest(snaps, gone, j, n, kind),
           {t \in snaps' : t.job = j} \subseteq {t \in snaps : t.job = j},
           \A at \in Places : [id |-> n, job |-> j, kind |-> kind, at |-> at] \in snaps =>
                                [id |-> n, job |-> j, kind |-> kind, at |-> at] \in snaps'
    PROVE  Newest(snaps', gone, j, n, kind)
BY DEF Newest

LEMMA PruneKeepsNewest ==
    ASSUME TypeOK, NEW j, NEW i, NEW n, NEW kind, NEW away1, Newest(snaps, away1, i, n, kind),
           NEW gone \in SUBSET Older(j), snaps' = snaps \ gone
    PROVE  Newest(snaps', away1, i, n, kind)
<1>1. \A t \in snaps : t.id \in Nat BY DEF TypeOK
<1>2. ASSUME NEW at \in Places, [id |-> n, job |-> i, kind |-> kind, at |-> at] \in snaps
      PROVE  [id |-> n, job |-> i, kind |-> kind, at |-> at] \in snaps'
  <2> DEFINE s == [id |-> n, job |-> i, kind |-> kind, at |-> at]
  <2>1. n \in Nat BY <1>1, <1>2
  <2>2. s \notin Older(j) BY <1>1, <1>2, <2>1 DEF Older, Newest
  <2> QED BY <1>2, <2>2
<1> QED BY <1>2, NewestStays

\* The codes a run that wrote a snapshot ends with.
LEMMA KindOfCode ==
    ASSUME NEW kind \in Kinds
    PROVE  /\ Code(kind) \in Success => kind # "incomplete"
           /\ Code(kind) \in Success => kind = IF Code(kind) = "completed" THEN "complete" ELSE "empty"
           /\ kind # "incomplete" => Code(kind) \in Success
BY DEF Code, Kinds, Success

LEMMA SuccessIs == \A j : Succeeded(j) = (result[j] # None /\ result[j].code \in Success)
BY DEF Succeeded, Success

LEMMA GentleSnap ==
    ASSUME TypeOK, Agrees, StoppedInv, SnapInv, NEW j \in Jobs, Gentle(j)
    PROVE  SnapInv'
<1>0. result[j] = None BY DEF Gentle, Agrees, StoppedInv
<1>1. snaps' = snaps BY DEF Gentle
<1>2. ASSUME NEW i \in Jobs, pc'[i] \in {"forget", "forgetting"}
      PROVE  pc'[i] = pc[i] /\ work'[i] = work[i] /\ away'[i] = away[i]
  BY <1>2 DEF Gentle, Proceeds, Continue, Finish, Goto, TypeOK
<1>3. ASSUME NEW i \in Jobs, Succeeded(i)' PROVE result'[i] = result[i] /\ away'[i] = away[i]
  BY <1>0, <1>3 DEF Gentle, Proceeds, Continue, Finish, Succeeded, Success, TypeOK
<1>4. \A i \in Jobs : pc'[i] \in {"forget", "forgetting"} =>
         work'[i].kind # "incomplete" /\ Newest(snaps', away'[i], i, work'[i].id, work'[i].kind)
  BY <1>1, <1>2 DEF SnapInv
<1>5. ASSUME NEW i \in Jobs, Succeeded(i)'
      PROVE  Newest(snaps', away'[i], i, result'[i].id, PromisedKind(i)')
  <2>1. result'[i] = result[i] /\ away'[i] = away[i] BY <1>3, <1>5
  <2>2. Succeeded(i) /\ PromisedKind(i)' = PromisedKind(i) BY <1>5, <2>1 DEF Succeeded, PromisedKind
  <2> QED BY <1>1, <2>1, <2>2 DEF SnapInv
<1>6. \A s, t \in snaps' : s.id = t.id => s = t BY <1>1 DEF SnapInv
<1> QED BY <1>4, <1>5, <1>6 DEF SnapInv

LEMMA PruneSnap ==
    ASSUME TypeOK, Agrees, StoppedInv, SnapInv, NEW j \in Jobs, Prunes(j)
    PROVE  SnapInv'
<1>1. \E gone \in SUBSET Older(j) : snaps' = snaps \ gone
  <2>1. {} \in SUBSET Older(j) /\ snaps \ {} = snaps OBVIOUS
  <2> QED BY <2>1 DEF Prunes
<1>2. work[j].kind \in Kinds /\ away' = away BY DEF Prunes, TypeOK
<1>3. \A g, i, n, kind : Newest(snaps, g, i, n, kind) => Newest(snaps', g, i, n, kind)
  BY <1>1, PruneKeepsNewest
<1>4. \A i \in Jobs : pc'[i] \in {"forget", "forgetting"} =>
         pc[i] \in {"forget", "forgetting"} /\ work'[i] = work[i]
  BY DEF Prunes, Continue, Finish, Goto, TypeOK
<1>5. \A i \in Jobs : pc'[i] \in {"forget", "forgetting"} =>
         work'[i].kind # "incomplete" /\ Newest(snaps', away'[i], i, work'[i].id, work'[i].kind)
  BY <1>2, <1>3, <1>4 DEF SnapInv
<1>6. work[j].kind # "incomplete" /\ Newest(snaps, away[j], j, work[j].id, work[j].kind)
  BY DEF SnapInv, Prunes
<1>7. ASSUME NEW i \in Jobs, Succeeded(i)'
      PROVE  Newest(snaps', away'[i], i, result'[i].id, PromisedKind(i)')
  <2>1. CASE result'[i] = result[i]
    BY <1>2, <1>3, <1>7, <2>1 DEF SnapInv, Succeeded, PromisedKind
  <2>2. CASE result'[i] # result[i]
    <3>1. i = j /\ result'[j] = [code |-> Code(work[j].kind), id |-> work[j].id]
      BY <2>2 DEF Prunes, Continue, Finish, TypeOK
    <3>2. PromisedKind(j)' = work[j].kind
      BY <1>2, <1>6, <3>1, KindOfCode DEF PromisedKind
    <3>3. Newest(snaps', away[j], j, work[j].id, work[j].kind) BY <1>3, <1>6
    <3>4. result'[j].id = work[j].id /\ away'[j] = away[j] BY <1>2, <3>1
    <3> QED BY <3>1, <3>2, <3>3, <3>4
  <2> QED BY <2>1, <2>2
<1>8. \A a, b \in snaps' : a.id = b.id => a = b BY <1>1 DEF SnapInv
<1> QED BY <1>5, <1>7, <1>8 DEF SnapInv

\* The place of a snapshot that a run writes.
LEMMA WritesAt ==
    ASSUME TypeOK, Agrees, AwayInv, NEW j \in Jobs, NEW kind \in Kinds, Writes(j, kind)
    PROVE  /\ site[j] \in Places /\ (site[j] = "home" \/ away[j])
           /\ snaps' = snaps \cup {[id |-> lastId + 1, job |-> j, kind |-> kind, at |-> site[j]]}
           /\ lastId \in Nat
<1>1. op[j] = "run" /\ site[j] \in Places /\ pc[j] # "prepare"
  BY DEF Writes, Agrees, Running, RunSteps
<1>2. site[j] = "home" \/ away[j] BY <1>1 DEF AwayInv, Places
<1> QED BY <1>1, <1>2 DEF Writes, Saves, TypeOK

LEMMA WriteSnap ==
    ASSUME TypeOK, Agrees, StoppedInv, AwayInv, SnapInv,
           NEW j \in Jobs, NEW kind \in Kinds, Writes(j, kind)
    PROVE  SnapInv'
<1> DEFINE new == [id |-> lastId + 1, job |-> j, kind |-> kind, at |-> site[j]]
<1>1. /\ snaps' = snaps \cup {new} /\ lastId \in Nat /\ away' = away
      /\ site[j] \in Places /\ (site[j] = "home" \/ away[j])
  BY WritesAt DEF Writes
<1>2. \A t \in snaps : t.id \in Nat /\ t.id <= lastId BY DEF TypeOK
<1>3. \A a, b \in snaps' : a.id = b.id => a = b
  <2>1. \A t \in snaps : t.id # new.id BY <1>1, <1>2
  <2> QED BY <1>1, <2>1 DEF SnapInv
<1>4. Newest(snaps', away[j], j, lastId + 1, kind) BY <1>1, <1>2 DEF Newest
<1>5. \A i \in Jobs \ {j} : \A g, n, k : Newest(snaps, g, i, n, k) => Newest(snaps', g, i, n, k)
  BY <1>1 DEF Newest
<1>6. result[j] = None BY DEF Writes, Agrees, StoppedInv
<1>7. \A i \in Jobs \ {j} : pc'[i] = pc[i] /\ work'[i] = work[i] /\ result'[i] = result[i]
  BY DEF Writes, Finish, Goto, TypeOK
<1>8. pc'[j] \in {"forget", "forgetting"} =>
         kind # "incomplete" /\ work'[j] = [id |-> lastId + 1, kind |-> kind]
  BY DEF Writes, Finish, Goto, TypeOK
<1>9. ASSUME NEW i \in Jobs, pc'[i] \in {"forget", "forgetting"}
      PROVE  work'[i].kind # "incomplete" /\ Newest(snaps', away'[i], i, work'[i].id, work'[i].kind)
  <2>1. CASE i = j
    <3>1. work'[j].id = lastId + 1 /\ work'[j].kind = kind /\ kind # "incomplete"
      BY <1>8, <1>9, <2>1
    <3> QED BY <1>1, <1>4, <2>1, <3>1
  <2>2. CASE i # j
    <3>1. work[i].kind # "incomplete" /\ Newest(snaps, away[i], i, work[i].id, work[i].kind)
      BY <1>7, <1>9, <2>2 DEF SnapInv
    <3> QED BY <1>1, <1>5, <1>7, <2>2, <3>1
  <2> QED BY <2>1, <2>2
<1>10. ASSUME NEW i \in Jobs, Succeeded(i)'
       PROVE  Newest(snaps', away'[i], i, result'[i].id, PromisedKind(i)')
  <2>1. CASE i = j
    <3>1. result'[j] = [code |-> Code(kind), id |-> lastId + 1] /\ Code(kind) \in Success
      BY <1>6, <1>10, <2>1 DEF Writes, Finish, Succeeded, Success, TypeOK
    <3>2. PromisedKind(j)' = kind BY <3>1, KindOfCode DEF PromisedKind
    <3>3. result'[j].id = lastId + 1 BY <3>1
    <3> QED BY <1>1, <1>4, <2>1, <3>2, <3>3
  <2>2. CASE i # j
    <3>1. Succeeded(i) /\ result'[i] = result[i] /\ PromisedKind(i)' = PromisedKind(i)
      BY <1>7, <1>10, <2>2 DEF Succeeded, PromisedKind
    <3>2. Newest(snaps, away[i], i, result[i].id, PromisedKind(i)) BY <3>1 DEF SnapInv
    <3> QED BY <1>1, <1>5, <2>2, <3>1, <3>2
  <2> QED BY <2>1, <2>2
<1> QED BY <1>3, <1>9, <1>10 DEF SnapInv

LEMMA SnapNext ==
    TypeOK /\ Agrees /\ StoppedInv /\ AwayInv /\ SnapInv /\ [Next]_vars => SnapInv'
<1> SUFFICES ASSUME TypeOK, Agrees, StoppedInv, AwayInv, SnapInv, [Next]_vars PROVE SnapInv'
  OBVIOUS
<1>1. ASSUME NEW j \in Jobs, NEW o \in Operations, Start(j, o) PROVE SnapInv'
  <2>1. /\ snaps' = snaps /\ pc' = [pc EXCEPT ![j] = "prepare"]
        /\ result' = [result EXCEPT ![j] = None]
        /\ \A i \in Jobs \ {j} : work'[i] = work[i] /\ away'[i] = away[i]
    BY <1>1 DEF Start, Goto, repository, TypeOK
  <2>2. \A i \in Jobs : pc'[i] \in {"forget", "forgetting"} =>
           pc'[i] = pc[i] /\ work'[i] = work[i] /\ away'[i] = away[i]
    BY <2>1 DEF TypeOK
  <2>3. \A i \in Jobs : Succeeded(i)' => result'[i] = result[i] /\ away'[i] = away[i]
    BY <2>1 DEF Succeeded, TypeOK
  <2>4. ASSUME NEW i \in Jobs, pc'[i] \in {"forget", "forgetting"}
        PROVE  work'[i].kind # "incomplete" /\ Newest(snaps', away'[i], i, work'[i].id, work'[i].kind)
    BY <2>1, <2>2, <2>4 DEF SnapInv
  <2>5. ASSUME NEW i \in Jobs, Succeeded(i)'
        PROVE  Newest(snaps', away'[i], i, result'[i].id, PromisedKind(i)')
    BY <2>1, <2>3, <2>5 DEF SnapInv, Succeeded, PromisedKind
  <2> QED BY <2>1, <2>4, <2>5 DEF SnapInv
<1>2. CASE Aside
  <2>1. \A i \in Jobs : \A n, kind : Newest(snaps, away[i], i, n, kind) =>
                                       Newest(snaps, away'[i], i, n, kind)
    BY <1>2 DEF Aside, Newest
  <2> QED BY <1>2, <2>1 DEF Aside, SnapInv, Succeeded, PromisedKind
<1> QED BY <1>1, <1>2, StepKinds, GentleSnap, PruneSnap, WriteSnap

LEMMA SnapAlways == Spec => []SnapInv
<1>1. Init => SnapInv BY DEF Init, SnapInv, Succeeded
<1>2. TypeOK /\ Agrees /\ StoppedInv /\ AwayInv /\ SnapInv /\ [Next]_vars => SnapInv' BY SnapNext
<1> QED BY <1>1, <1>2, Always, StoppedAlways, AwayAlways, PTL DEF Spec

\* What a finished run reports as a success is there, good, and of that
\* kind, until the job's next operation, whatever the other jobs' runs and
\* prunes do - at the target, unless its disk went in the middle of the run
\* (backup.go, Run).
THEOREM SuccessIsThere == Spec => []SuccessHasSnapshot
<1>1. SnapInv => SuccessHasSnapshot
  <2> SUFFICES ASSUME SnapInv, NEW j \in Jobs, Succeeded(j)
               PROVE  \E s \in snaps : /\ s.id = result[j].id /\ s.job = j
                                       /\ s.kind # "incomplete"
                                       /\ result[j].code = "empty" <=> s.kind = "empty"
                                       /\ s.at = "home" \/ away[j]
    BY DEF SuccessHasSnapshot
  <2>1. PICK at \in Places : /\ [id |-> result[j].id, job |-> j, kind |-> PromisedKind(j), at |-> at]
                                   \in snaps
                             /\ at = "home" \/ away[j]
    BY DEF SnapInv, Newest
  <2> DEFINE s == [id |-> result[j].id, job |-> j, kind |-> PromisedKind(j), at |-> at]
  <2>2. s.kind # "incomplete" /\ (result[j].code = "empty" <=> s.kind = "empty")
    BY DEF PromisedKind, Succeeded
  <2> QED BY <2>1, <2>2
<1> QED BY <1>1, SnapAlways, PTL

\* A step that takes the newest good snapshot of a job at a place leaves a
\* newer one there.
GoodStays ==
    \A s \in snaps : s.kind # "incomplete" =>
        \/ \E t \in snaps' :
              /\ t.job = s.job /\ t.at = s.at
              /\ t.kind # "incomplete" /\ t.id >= s.id
        \/ pc[s.job] = "forgetting" /\ Shifted(s.job)

LEMMA GoodStep == TypeOK /\ Agrees /\ AwayInv /\ SnapInv /\ [Next]_vars => GoodStays
<1> SUFFICES ASSUME TypeOK, Agrees, AwayInv, SnapInv, [Next]_vars,
                    NEW s \in snaps, s.kind # "incomplete",
                    ~(pc[s.job] = "forgetting" /\ Shifted(s.job))
             PROVE  \E t \in snaps' : /\ t.job = s.job /\ t.at = s.at
                                      /\ t.kind # "incomplete" /\ t.id >= s.id
  BY DEF GoodStays
<1>1. s.id \in Nat /\ s.at \in Places BY DEF TypeOK
<1>2. CASE s \in snaps' BY <1>1, <1>2
<1>3. CASE s \notin snaps'
  <2>1. PICK j \in Jobs : Prunes(j)
    BY <1>3, StepKinds DEF Gentle, Writes, Saves, Start, repository, Aside
  <2>2. PICK gone \in SUBSET Older(j) : snaps' = snaps \ gone BY <1>3, <2>1 DEF Prunes
  <2>3. s.job = j /\ s.at = site[j] BY <1>3, <2>2 DEF Older
  <2>4. pc[j] = "forgetting" /\ op[j] = "run" BY <1>3, <2>1 DEF Prunes, Agrees, RunSteps
  <2>5. work[j].kind # "incomplete" /\ Newest(snaps, away[j], j, work[j].id, work[j].kind)
    BY <2>1 DEF Prunes, SnapInv
  <2>6. PICK at \in Places :
           /\ [id |-> work[j].id, job |-> j, kind |-> work[j].kind, at |-> at] \in snaps
           /\ at = "home" \/ away[j]
    BY <2>5 DEF Newest
  <2> DEFINE t == [id |-> work[j].id, job |-> j, kind |-> work[j].kind, at |-> at]
  <2>7. t.at = s.at
    <3>1. CASE away[j]
      <4>1. \A u \in snaps : u.id = work[j].id => u.at = site[j] BY <2>3, <2>4, <3>1 DEF Shifted
      <4> QED BY <2>3, <2>6, <4>1
    <3>2. CASE ~away[j]
      <4>1. site[j] # "system" BY <2>4, <3>2 DEF AwayInv
      <4> QED BY <1>1, <2>3, <2>6, <3>2, <4>1 DEF Places
    <3> QED BY <3>1, <3>2
  <2>8. \A u \in snaps : u.job = j => u.id <= t.id BY <2>5 DEF Newest
  <2>9. t.id \in Nat /\ \A u \in snaps : u.id \in Nat BY DEF TypeOK
  <2>10. t \in snaps'
    <3>1. t \notin Older(j) BY <2>8, <2>9 DEF Older
    <3> QED BY <2>2, <2>6, <3>1
  <2>11. s.id <= t.id BY <2>3, <2>8
  <2> QED BY <1>1, <2>3, <2>5, <2>7, <2>9, <2>10, <2>11
<1> QED BY <1>2, <1>3

\* Retention, cancels and incomplete runs never take the newest good copy of
\* a job at a place away, but for a run whose disk went or came back between
\* its backup and its retention (backup.go, Run).
THEOREM GoodIsKept == Spec => NewestGoodKept
<1>1. TypeOK /\ Agrees /\ AwayInv /\ SnapInv /\ [Next]_vars => [GoodStays]_vars BY GoodStep
<1> QED BY <1>1, Always, AwayAlways, SnapAlways, PTL DEF Spec, NewestGoodKept, GoodStays

-----------------------------------------------------------------------------
(* The runner implements Copies *)

\* What Copies sees.
Good   == [j \in Jobs |-> NewestGood(j)]
Told   == [j \in Jobs |-> Reported(j)]
Astray == [j \in Jobs |-> Misreported(j)]

GoodIds(ss, j) == {s.id : s \in {x \in ss : x.job = j /\ x.at = "home" /\ x.kind # "incomplete"}}

LEMMA NewestIs == \A j : NewestGood(j) = NewestOf(GoodIds(snaps, j))
BY DEF NewestGood, NewestOf, GoodIds

LEMMA NewestIsNext == \A j : NewestGood(j)' = NewestOf(GoodIds(snaps', j))
BY DEF NewestGood, NewestOf, GoodIds

LEMMA GoodIdTypes == TypeOK => \A j : GoodIds(snaps, j) \subseteq 1 .. lastId
BY DEF TypeOK, GoodIds

LEMMA GoodIdTypesNext == TypeOK' => \A j : GoodIds(snaps', j) \subseteq 1 .. lastId'
BY DEF TypeOK, GoodIds

\* Where the run's own snapshot is at the target it is the newest good one
\* there, and stays so; elsewhere the disk has gone.  Good ones at the
\* target only get fewer.
LEMMA PruneKeepsGood ==
    ASSUME TypeOK, SnapInv, NEW j \in Jobs, Prunes(j)
    PROVE  /\ \A i \in Jobs \ {j} : GoodIds(snaps', i) = GoodIds(snaps, i)
           /\ GoodIds(snaps', j) \subseteq GoodIds(snaps, j)
           /\ \/ /\ \E s \in snaps' : s.id = work[j].id /\ s.at = "home"
                 /\ Greatest(work[j].id, GoodIds(snaps, j))
                 /\ Greatest(work[j].id, GoodIds(snaps', j))
              \/ /\ \A s \in snaps' : s.id = work[j].id => s.at # "home"
                 /\ away[j]
<1>1. PICK gone \in SUBSET Older(j) : snaps' = snaps \ gone
  <2>1. {} \in SUBSET Older(j) /\ snaps \ {} = snaps OBVIOUS
  <2> QED BY <2>1 DEF Prunes
<1>2. work[j].kind # "incomplete" /\ Newest(snaps, away[j], j, work[j].id, work[j].kind)
  BY DEF Prunes, SnapInv
<1>3. Newest(snaps', away[j], j, work[j].id, work[j].kind) BY <1>1, <1>2, PruneKeepsNewest
<1>4. PICK at \in Places :
         /\ [id |-> work[j].id, job |-> j, kind |-> work[j].kind, at |-> at] \in snaps'
         /\ at = "home" \/ away[j]
  BY <1>3 DEF Newest
<1> DEFINE t == [id |-> work[j].id, job |-> j, kind |-> work[j].kind, at |-> at]
<1>5. \A i \in Jobs \ {j} : GoodIds(snaps', i) = GoodIds(snaps, i) BY <1>1 DEF Older, GoodIds
<1>6. GoodIds(snaps', j) \subseteq GoodIds(snaps, j) BY <1>1 DEF GoodIds
<1>7. CASE at = "home"
  <2>1. t \in snaps /\ t \in snaps' /\ t.id = work[j].id /\ t.at = "home" BY <1>1, <1>4, <1>7
  <2>2. work[j].id \in GoodIds(snaps, j) /\ work[j].id \in GoodIds(snaps', j)
    BY <1>2, <2>1 DEF GoodIds
  <2>3. \A m \in GoodIds(snaps, j) \cup GoodIds(snaps', j) : m <= work[j].id
    BY <1>2, <1>3 DEF Newest, GoodIds
  <2> QED BY <1>5, <1>6, <2>1, <2>2, <2>3 DEF Greatest
<1>8. CASE at # "home"
  <2>1. \A s \in snaps' : s.id = work[j].id => s = t BY <1>1, <1>4 DEF SnapInv
  <2>2. \A s \in snaps' : s.id = work[j].id => s.at # "home" BY <1>8, <2>1
  <2> QED BY <1>4, <1>8, <1>5, <1>6, <2>2
<1> QED BY <1>7, <1>8

LEMMA WriteAddsGood ==
    ASSUME TypeOK, Agrees, AwayInv, NEW j \in Jobs, NEW kind \in Kinds, Writes(j, kind)
    PROVE  /\ \A i \in Jobs \ {j} : GoodIds(snaps', i) = GoodIds(snaps, i)
           /\ kind # "incomplete" /\ site[j] = "home" => Greatest(lastId + 1, GoodIds(snaps', j))
           /\ kind = "incomplete" \/ site[j] # "home" => GoodIds(snaps', j) = GoodIds(snaps, j)
           /\ (\E s \in snaps' : s.id = lastId + 1 /\ s.at = "home") <=> site[j] = "home"
<1> DEFINE new == [id |-> lastId + 1, job |-> j, kind |-> kind, at |-> site[j]]
<1>1. snaps' = snaps \cup {new} /\ lastId \in Nat BY WritesAt
<1>2. GoodIds(snaps, j) \subseteq 1 .. lastId BY GoodIdTypes
<1>3. ASSUME kind # "incomplete", site[j] = "home" PROVE Greatest(lastId + 1, GoodIds(snaps', j))
  <2>1. new \in {x \in snaps' : x.job = j /\ x.at = "home" /\ x.kind # "incomplete"} BY <1>1, <1>3
  <2>2. new.id = lastId + 1 OBVIOUS
  <2>3. lastId + 1 \in GoodIds(snaps', j) BY <2>1, <2>2 DEF GoodIds
  <2>4. GoodIds(snaps', j) \subseteq GoodIds(snaps, j) \cup {lastId + 1} BY <1>1 DEF GoodIds
  <2>5. \A m \in GoodIds(snaps, j) \cup {lastId + 1} : m <= lastId + 1 BY <1>1, <1>2
  <2> QED BY <2>3, <2>4, <2>5 DEF Greatest
<1>4. kind = "incomplete" \/ site[j] # "home" => GoodIds(snaps', j) = GoodIds(snaps, j)
  BY <1>1 DEF GoodIds
<1>5. \A i \in Jobs \ {j} : GoodIds(snaps', i) = GoodIds(snaps, i) BY <1>1 DEF GoodIds
<1>6. (\E s \in snaps' : s.id = lastId + 1 /\ s.at = "home") <=> site[j] = "home"
  <2>1. \A s \in snaps : s.id \in 1 .. lastId BY DEF TypeOK
  <2>2. \A s \in snaps : s.id # lastId + 1 BY <1>1, <2>1
  <2> HIDE DEF new
  <2>3. new \in snaps' /\ \A s \in snaps' : s \in snaps \/ s = new BY <1>1 DEF new
  <2>4. new.id = lastId + 1 /\ new.at = site[j] BY DEF new
  <2> QED BY <2>2, <2>3, <2>4
<1> QED BY <1>3, <1>4, <1>5, <1>6

LEMMA GoodSame ==
    ASSUME \A i \in Jobs : GoodIds(snaps', i) = GoodIds(snaps, i)
    PROVE  Good' = Good
<1>1. \A i \in Jobs : NewestGood(i)' = NewestGood(i) BY NewestIs, NewestIsNext
<1> QED BY <1>1 DEF Good

\* Only j's newest good snapshot may change.
LEMMA GoodElsewhere ==
    ASSUME NEW j \in Jobs, \A i \in Jobs \ {j} : GoodIds(snaps', i) = GoodIds(snaps, i)
    PROVE  Good' = [Good EXCEPT ![j] = NewestOf(GoodIds(snaps', j))]
<1>1. \A i \in Jobs \ {j} : NewestGood(i)' = NewestGood(i) BY NewestIs, NewestIsNext
<1> QED BY <1>1, NewestIsNext DEF Good

\* A job that reports no success has nothing told.
LEMMA Untold ==
    ASSUME NEW j \in Jobs, result[j] = None
    PROVE  ~Succeeded(j) /\ Told[j] = 0 /\ Astray[j] = FALSE
BY DEF Succeeded, Told, Astray, Reported, Misreported

\* The reports of jobs with neither a new result nor other snapshots stay.
LEMMA ReportsStay ==
    ASSUME NEW i \in Jobs, result'[i] = result[i],
           Succeeded(i) => (AtHome(result[i].id) <=> \E s \in snaps' : s.id = result[i].id /\ s.at = "home")
    PROVE  Reported(i)' = Reported(i) /\ Misreported(i)' = Misreported(i)
BY DEF Reported, Misreported, Succeeded, AtHome

\* Nothing is told, or only the disk has gone.
LEMMA IsOutage ==
    ASSUME Good' = Good, Told' = Told, Astray' = Astray, away' \in [Jobs -> BOOLEAN],
           \A j \in Jobs : away[j] => away'[j] \/ (Told[j] = 0 /\ ~Astray[j])
    PROVE  Promise!Outage
BY DEF Promise!Outage, Good, Told, Astray

LEMMA GentleIsOutage ==
    ASSUME TypeOK, TypeOK', Agrees, StoppedInv, NEW j \in Jobs, Gentle(j)
    PROVE  Promise!Outage
<1>1. result[j] = None BY DEF Gentle, Agrees, StoppedInv
<1>2. snaps' = snaps /\ ~Succeeded(j)'
  BY <1>1 DEF Gentle, Proceeds, Continue, Finish, Succeeded, Success, TypeOK
<1>3. \A i \in Jobs \ {j} : result'[i] = result[i] /\ away'[i] = away[i]
  BY DEF Gentle, Proceeds, Continue, Finish, TypeOK
<1>4. \A i \in Jobs \ {j} : Reported(i)' = Reported(i) /\ Misreported(i)' = Misreported(i)
  BY <1>2, <1>3, ReportsStay DEF AtHome
<1>5. Reported(j)' = 0 /\ Misreported(j)' = FALSE /\ Reported(j) = 0 /\ Misreported(j) = FALSE
  BY <1>1, <1>2 DEF Reported, Misreported, Succeeded
<1>6. Told' = Told /\ Astray' = Astray BY <1>4, <1>5 DEF Told, Astray
<1>7. Good' = Good BY <1>2, GoodSame
<1>8. away' \in [Jobs -> BOOLEAN] BY DEF TypeOK
<1>9. Told[j] = 0 /\ ~Astray[j] BY <1>1, Untold
<1> QED BY <1>3, <1>6, <1>7, <1>8, <1>9, IsOutage

LEMMA AsideIsOutage == ASSUME TypeOK, Aside PROVE Promise!Outage
<1>1. snaps' = snaps /\ result' = result /\ away' \in [Jobs -> BOOLEAN]
      /\ \A j \in Jobs : away[j] => away'[j]
  BY DEF Aside
<1>2. \A i \in Jobs : Reported(i)' = Reported(i) /\ Misreported(i)' = Misreported(i)
  BY <1>1, ReportsStay DEF AtHome
<1>3. Told' = Told /\ Astray' = Astray BY <1>2 DEF Told, Astray
<1>4. Good' = Good BY <1>1, GoodSame
<1> QED BY <1>1, <1>3, <1>4, IsOutage

LEMMA StartIsForget ==
    ASSUME TypeOK, NEW j \in Jobs, NEW o \in Operations, Start(j, o)
    PROVE  Promise!Forget(j)
<1>1. /\ snaps' = snaps /\ result' = [result EXCEPT ![j] = None]
      /\ away' = [away EXCEPT ![j] = FALSE]
  BY DEF Start, repository
<1>2. \A i \in Jobs \ {j} : Reported(i)' = Reported(i) /\ Misreported(i)' = Misreported(i)
  BY <1>1, ReportsStay DEF AtHome, TypeOK
<1>3. Reported(j)' = 0 /\ Misreported(j)' = FALSE
  BY <1>1 DEF Reported, Misreported, Succeeded, TypeOK
<1>4. Told' = [Told EXCEPT ![j] = 0] /\ Astray' = [Astray EXCEPT ![j] = FALSE]
  BY <1>2, <1>3 DEF Told, Astray
<1>5. Good' = Good BY <1>1, GoodSame
<1> QED BY <1>1, <1>4, <1>5 DEF Promise!Forget, Good, Told, Astray

\* What j's finished run reports.
LEMMA ReportsNew ==
    ASSUME TypeOK, TypeOK', NEW j \in Jobs, NEW code \in Success, NEW id \in Nat,
           result' = [result EXCEPT ![j] = [code |-> code, id |-> id]],
           result[j] = None,
           \A i \in Jobs \ {j} : Succeeded(i) =>
               (AtHome(result[i].id) <=> \E s \in snaps' : s.id = result[i].id /\ s.at = "home")
    PROVE  /\ (\E s \in snaps' : s.id = id /\ s.at = "home") =>
                 Told' = [Told EXCEPT ![j] = id] /\ Astray' = Astray
           /\ (\A s \in snaps' : s.id = id => s.at # "home") =>
                 Told' = Told /\ Astray' = [Astray EXCEPT ![j] = TRUE]
<1>1. result'[j] = [code |-> code, id |-> id] /\ \A i \in Jobs \ {j} : result'[i] = result[i]
  BY DEF TypeOK
<1>2. \A i \in Jobs \ {j} : Reported(i)' = Reported(i) /\ Misreported(i)' = Misreported(i)
  BY <1>1, ReportsStay
<1>3. result'[j] # None
  <2>1. code \in Codes BY DEF Success, Codes, Declared
  <2> QED BY <1>1, <2>1
<1>4. Succeeded(j)' BY <1>1, <1>3 DEF Succeeded, Success
<1>5. ASSUME \E s \in snaps' : s.id = id /\ s.at = "home"
      PROVE  Told' = [Told EXCEPT ![j] = id] /\ Astray' = Astray
  <2>1. Reported(j)' = id /\ Misreported(j)' = FALSE
    BY <1>1, <1>4, <1>5 DEF Reported, Misreported, AtHome
  <2>2. Misreported(j) = FALSE BY DEF Misreported, Succeeded
  <2> QED BY <1>2, <2>1, <2>2 DEF Told, Astray
<1>6. ASSUME \A s \in snaps' : s.id = id => s.at # "home"
      PROVE  Told' = Told /\ Astray' = [Astray EXCEPT ![j] = TRUE]
  <2>1. Reported(j)' = 0 /\ Misreported(j)' = TRUE
    BY <1>1, <1>4, <1>6 DEF Reported, Misreported, AtHome
  <2>2. Reported(j) = 0 BY DEF Reported, Succeeded
  <2> QED BY <1>2, <2>1, <2>2 DEF Told, Astray
<1> QED BY <1>5, <1>6

\* A prune leaves the reported snapshots of the other jobs, and its own.
LEMMA ReportedStay ==
    ASSUME TypeOK, SnapInv, NEW j \in Jobs, Prunes(j), NEW i \in Jobs, Succeeded(i)
    PROVE  AtHome(result[i].id) <=> \E s \in snaps' : s.id = result[i].id /\ s.at = "home"
<1>1. \E gone \in SUBSET Older(j) : snaps' = snaps \ gone
  <2>1. {} \in SUBSET Older(j) /\ snaps \ {} = snaps OBVIOUS
  <2> QED BY <2>1 DEF Prunes
<1>2. Newest(snaps, away[i], i, result[i].id, PromisedKind(i)) BY DEF SnapInv
<1>3. Newest(snaps', away[i], i, result[i].id, PromisedKind(i)) BY <1>1, <1>2, PruneKeepsNewest
<1>4. PICK at \in Places : [id |-> result[i].id, job |-> i, kind |-> PromisedKind(i), at |-> at] \in snaps'
  BY <1>3 DEF Newest
<1> DEFINE t == [id |-> result[i].id, job |-> i, kind |-> PromisedKind(i), at |-> at]
<1>5. t \in snaps' /\ t \in snaps /\ t.id = result[i].id BY <1>1, <1>4
<1>6. \A s \in snaps : s.id = result[i].id => s = t BY <1>5 DEF SnapInv
<1>7. \A s \in snaps' : s.id = result[i].id => s = t BY <1>1, <1>6
<1> QED BY <1>5, <1>6, <1>7 DEF AtHome

LEMMA PruneIsStep ==
    ASSUME TypeOK, TypeOK', Agrees, StoppedInv, SnapInv, NEW j \in Jobs, Prunes(j)
    PROVE  Promise!Outage \/ Promise!Tell(j) \/ Promise!Stray(j)
<1> DEFINE own == work[j].id
<1>0. result[j] = None /\ away' = away /\ lastId' = lastId /\ lastId \in Nat
      /\ away \in [Jobs -> BOOLEAN]
  BY DEF Prunes, Agrees, StoppedInv, TypeOK
<1>1. CASE snaps' = snaps /\ Continue(j, "forgetting")
  <2>1. result' = result BY <1>1 DEF Continue
  <2>2. \A i \in Jobs : Reported(i)' = Reported(i) /\ Misreported(i)' = Misreported(i)
    BY <1>1, <2>1, ReportsStay DEF AtHome
  <2>3. Told' = Told /\ Astray' = Astray /\ Good' = Good BY <1>1, <2>2, GoodSame DEF Told, Astray
  <2> QED BY <1>0, <2>3, IsOutage
<1>2. CASE Finish(j, Code(work[j].kind), own)
  <2>0. own \in Nat BY <1>0 DEF TypeOK
  <2>1. result' = [result EXCEPT ![j] = [code |-> Code(work[j].kind), id |-> own]]
    BY <1>2 DEF Finish
  <2>2. Code(work[j].kind) \in Success
    <3>1. work[j].kind \in Kinds /\ work[j].kind # "incomplete" BY DEF Prunes, SnapInv, TypeOK
    <3> QED BY <3>1, KindOfCode
  <2>3. \A i \in Jobs \ {j} : Succeeded(i) =>
          (AtHome(result[i].id) <=> \E s \in snaps' : s.id = result[i].id /\ s.at = "home")
    BY ReportedStay
  <2>4. /\ GoodIds(snaps, j) \in SUBSET (1 .. lastId) /\ GoodIds(snaps', j) \in SUBSET GoodIds(snaps, j)
        /\ \A i \in Jobs \ {j} : GoodIds(snaps', i) = GoodIds(snaps, i)
    BY GoodIdTypes, PruneKeepsGood
  <2>5. /\ (\E s \in snaps' : s.id = own /\ s.at = "home") =>
               Told' = [Told EXCEPT ![j] = own] /\ Astray' = Astray
        /\ (\A s \in snaps' : s.id = own => s.at # "home") =>
               Told' = Told /\ Astray' = [Astray EXCEPT ![j] = TRUE]
    <3>1. PICK code \in Success, n \in Nat : code = Code(work[j].kind) /\ n = own BY <2>0, <2>2
    <3>2. result' = [result EXCEPT ![j] = [code |-> code, id |-> n]] BY <2>1, <3>1
    <3>3. /\ (\E s \in snaps' : s.id = n /\ s.at = "home") =>
                 Told' = [Told EXCEPT ![j] = n] /\ Astray' = Astray
          /\ (\A s \in snaps' : s.id = n => s.at # "home") =>
                 Told' = Told /\ Astray' = [Astray EXCEPT ![j] = TRUE]
      BY <1>0, <2>3, <3>2, ReportsNew
    <3> QED BY <3>1, <3>3
  <2>6. CASE \E s \in snaps' : s.id = own /\ s.at = "home"
    <3>1. Told' = [Told EXCEPT ![j] = own] /\ Astray' = Astray
      BY <2>6, <2>5
    <3>2. Greatest(own, GoodIds(snaps, j)) /\ Greatest(own, GoodIds(snaps', j))
      BY <2>6, PruneKeepsGood
    <3>3. GoodIds(snaps, j) \in SUBSET Nat /\ GoodIds(snaps', j) \in SUBSET Nat BY <2>4
    <3>4. NewestOf(GoodIds(snaps, j)) = own /\ NewestOf(GoodIds(snaps', j)) = own
      BY <3>2, <3>3, GreatestIs
    <3>5. Good[j] = own BY <3>4, NewestIs DEF Good
    <3>6. Good' = Good
      <4>1. Good' = [Good EXCEPT ![j] = NewestOf(GoodIds(snaps', j))] BY <2>4, GoodElsewhere
      <4>2. Good = [Good EXCEPT ![j] = Good[j]] BY DEF Good
      <4> QED BY <3>4, <3>5, <4>1, <4>2
    <3>7. own > 0 BY <2>4, <3>2 DEF Greatest
    <3>8. Promise!Tell(j)
      BY <1>0, <3>1, <3>5, <3>6, <3>7 DEF Promise!Tell, Good, Told, Astray
    <3> QED BY <3>8
  <2>7. CASE ~\E s \in snaps' : s.id = own /\ s.at = "home"
    <3>1. away[j] BY <2>7, PruneKeepsGood
    <3>2. Told' = Told /\ Astray' = [Astray EXCEPT ![j] = TRUE]
      BY <2>7, <2>5
    <3>3. Good' = [Good EXCEPT ![j] = NewestOf(GoodIds(snaps', j))] BY <2>4, GoodElsewhere
    <3>4. /\ NewestOf(GoodIds(snaps', j)) \in Nat
          /\ NewestOf(GoodIds(snaps', j)) <= NewestOf(GoodIds(snaps, j))
      BY <1>0, <2>4, NewestOfFewer
    <3>5. Good[j] = NewestOf(GoodIds(snaps, j)) /\ Good'[j] = NewestOf(GoodIds(snaps', j))
      BY NewestIs, NewestIsNext DEF Good
    <3>6. Promise!Stray(j)
      BY <1>0, <3>1, <3>2, <3>3, <3>4, <3>5 DEF Promise!Stray, Good, Told, Astray
    <3> QED BY <3>6
  <2> QED BY <2>6, <2>7
<1> QED BY <1>1, <1>2 DEF Prunes

LEMMA WriteIsStep ==
    ASSUME TypeOK, TypeOK', Agrees, StoppedInv, AwayInv, SnapInv,
           NEW j \in Jobs, NEW kind \in Kinds, Writes(j, kind)
    PROVE  Promise!Outage \/ Promise!Copy(j) \/ Promise!Stray(j)
<1>0. /\ result[j] = None /\ away' = away /\ lastId \in Nat /\ away \in [Jobs -> BOOLEAN]
      /\ \A s \in snaps : s.id # lastId + 1
      /\ snaps' = snaps \cup {[id |-> lastId + 1, job |-> j, kind |-> kind, at |-> site[j]]}
      /\ site[j] = "home" \/ away[j]
  <2>1. lastId \in Nat /\ \A s \in snaps : s.id \in 1 .. lastId BY DEF TypeOK
  <2>2. \A s \in snaps : s.id # lastId + 1 BY <2>1
  <2> QED BY <2>1, <2>2, WritesAt DEF Writes, Agrees, StoppedInv, TypeOK
<1>1. \A i \in Jobs : Succeeded(i) =>
         (AtHome(result[i].id) <=> \E s \in snaps' : s.id = result[i].id /\ s.at = "home")
  <2> SUFFICES ASSUME NEW i \in Jobs, Succeeded(i)
               PROVE  AtHome(result[i].id) <=> \E s \in snaps' : s.id = result[i].id /\ s.at = "home"
    OBVIOUS
  <2>1. PICK at \in Places :
           [id |-> result[i].id, job |-> i, kind |-> PromisedKind(i), at |-> at] \in snaps
    BY DEF SnapInv, Newest
  <2>2. result[i].id # lastId + 1 BY <1>0, <2>1
  <2>3. \A s : s.id = result[i].id => (s \in snaps' <=> s \in snaps)
    <3> DEFINE new == [id |-> lastId + 1, job |-> j, kind |-> kind, at |-> site[j]]
    <3>1. new.id = lastId + 1 /\ snaps' = snaps \cup {new} BY <1>0
    <3> HIDE DEF new
    <3> QED BY <2>2, <3>1
  <2>4. AtHome(result[i].id) <=> \E s \in snaps : s.id = result[i].id /\ s.at = "home"
    BY Zenon DEF AtHome
  <2> QED BY <2>3, <2>4, Zenon
<1>2. \A i \in Jobs \ {j} : result'[i] = result[i] /\ GoodIds(snaps', i) = GoodIds(snaps, i)
  <2>1. \A i \in Jobs \ {j} : result'[i] = result[i]
    <3>1. result' = result \/ \E v : result' = [result EXCEPT ![j] = v] BY DEF Writes, Finish
    <3> QED BY <3>1 DEF TypeOK
  <2>2. \A i \in Jobs \ {j} : GoodIds(snaps', i) = GoodIds(snaps, i) BY WriteAddsGood
  <2> QED BY <2>1, <2>2
<1>3. \A i \in Jobs \ {j} : Reported(i)' = Reported(i) /\ Misreported(i)' = Misreported(i)
  BY <1>1, <1>2, ReportsStay
<1>4. ASSUME ~Succeeded(j)' PROVE Told' = Told /\ Astray' = Astray
  <2>1. Reported(j)' = 0 /\ Misreported(j)' = FALSE /\ Reported(j) = 0 /\ Misreported(j) = FALSE
    BY <1>0, <1>4 DEF Reported, Misreported, Succeeded
  <2> QED BY <1>3, <2>1 DEF Told, Astray
<1>5. Succeeded(j)' => /\ kind # "incomplete"
                       /\ Code(kind) \in Success
                       /\ result' = [result EXCEPT ![j] = [code |-> Code(kind), id |-> lastId + 1]]
  BY <1>0, KindOfCode DEF Writes, Finish, Succeeded, Success, TypeOK
<1>6. GoodIds(snaps, j) \in SUBSET (1 .. lastId) /\ lastId + 1 \in Nat BY <1>0, GoodIdTypes
<1>7. CASE kind # "incomplete" /\ site[j] = "home"
  <2>1. GoodIds(snaps', j) \in SUBSET Nat BY GoodIdTypesNext
  <2>2. NewestOf(GoodIds(snaps', j)) = lastId + 1 BY <1>7, <2>1, WriteAddsGood, GreatestIs
  <2>3. Good' = [Good EXCEPT ![j] = lastId + 1] BY <1>2, <2>2, GoodElsewhere
  <2>4. Good'[j] = lastId + 1 /\ Good[j] = NewestOf(GoodIds(snaps, j))
    BY <2>3, NewestIs DEF Good
  <2>5. NewestOf(GoodIds(snaps, j)) \in 0 .. lastId
    <3>1. GoodIds(snaps, j) \in SUBSET GoodIds(snaps, j) OBVIOUS
    <3> QED BY <1>0, <1>6, <3>1, NewestOfFewer
  <2>6. Good'[j] \in Nat /\ Good'[j] > Good[j] BY <1>0, <2>4, <2>5
  <2>7. \E s \in snaps' : s.id = lastId + 1 /\ s.at = "home" BY <1>7, WriteAddsGood
  <2>8. Told' \in {Told, [Told EXCEPT ![j] = lastId + 1]} /\ Astray' = Astray
    <3>1. CASE ~Succeeded(j)' BY <1>4, <3>1
    <3>2. CASE Succeeded(j)' BY <1>0, <1>1, <1>5, <1>6, <2>7, <3>2, ReportsNew
    <3> QED BY <3>1, <3>2
  <2>9. Promise!Copy(j)
    BY <1>0, <2>3, <2>4, <2>6, <2>8 DEF Promise!Copy, Good, Told, Astray
  <2> QED BY <2>9
<1>8. CASE kind = "incomplete" \/ site[j] # "home"
  <2>1. Good' = Good BY <1>2, <1>8, WriteAddsGood, GoodSame
  <2>2. CASE ~Succeeded(j)' BY <1>0, <1>4, <2>1, <2>2, IsOutage
  <2>3. CASE Succeeded(j)'
    <3>1. site[j] # "home" /\ away[j] BY <1>0, <1>5, <1>8, <2>3
    <3>2. \A s \in snaps' : s.id = lastId + 1 => s.at # "home" BY <3>1, WriteAddsGood
    <3>3. Told' = Told /\ Astray' = [Astray EXCEPT ![j] = TRUE]
      BY <1>0, <1>1, <1>5, <1>6, <2>3, <3>2, ReportsNew
    <3>4. Good'[j] = Good[j] /\ Good[j] \in Nat /\ Good' = [Good EXCEPT ![j] = Good'[j]]
      <4>1. Good[j] = NewestOf(GoodIds(snaps, j)) BY NewestIs DEF Good
      <4>2. GoodIds(snaps, j) \in SUBSET GoodIds(snaps, j) OBVIOUS
      <4>3. Good[j] \in Nat BY <1>0, <1>6, <4>1, <4>2, NewestOfFewer
      <4> QED BY <2>1, <4>3 DEF Good
    <3>5. Good'[j] \in Nat /\ Good'[j] <= Good[j] BY <3>4
    <3>6. Promise!Stray(j)
      BY <1>0, <3>1, <3>3, <3>4, <3>5 DEF Promise!Stray, Good, Told, Astray
    <3> QED BY <3>6
  <2> QED BY <2>2, <2>3
<1> QED BY <1>7, <1>8

\* Every step of the runner is a step of Copies, or changes nothing there.
LEMMA StepsAreCopies ==
    TypeOK /\ TypeOK' /\ Agrees /\ StoppedInv /\ AwayInv /\ SnapInv /\ [Next]_vars
        => [Promise!Next]_<<Good, Told, Astray, away>>
BY StepKinds, GentleIsOutage, AsideIsOutage, StartIsForget, PruneIsStep, WriteIsStep
   DEF Promise!Next

\* The runner implements Copies: what a job's user may count on is a newest
\* good copy at the target that never gets older, and reports that name it -
\* unless the disk goes in the middle of a run (backup.go, Run).
THEOREM RunnerImplementsCopies == Spec => ImplementsCopies
<1>1. Init => Promise!Init
  <2>1. Init => \A j \in Jobs : NewestGood(j) = 0 /\ Reported(j) = 0 /\ Misreported(j) = FALSE
    BY DEF Init, NewestGood, Reported, Misreported, Succeeded
  <2> QED BY <2>1 DEF Promise!Init, Init
<1>2. TypeOK /\ TypeOK' /\ Agrees /\ StoppedInv /\ AwayInv /\ SnapInv /\ [Next]_vars
         => [Promise!Next]_<<Good, Told, Astray, away>>
  BY StepsAreCopies
<1> QED BY <1>1, <1>2, Always, StoppedAlways, AwayAlways, SnapAlways, PTL
        DEF Spec, ImplementsCopies, Promise!Spec, Good, Told, Astray

=============================================================================
