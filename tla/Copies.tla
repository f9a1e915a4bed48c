------------------------------- MODULE Copies -------------------------------
(***************************************************************************)
(* What a backup job promises its user, without a repository: the newest   *)
(* good copy at the target never gets older, and a run that reports        *)
(* success names exactly that copy.  Only once the target has gone away in *)
(* the middle of an operation may it report a copy made elsewhere, and     *)
(* only such an operation may take the newest good copy away.              *)
(***************************************************************************)
EXTENDS Naturals

CONSTANT Jobs

VARIABLES
    good,    \* good[j]: the number of j's newest good copy, 0 before the first
    told,    \* told[j]: the copy the last finished operation reported, 0 if none
    astray,  \* astray[j]: it reported a copy that is not at the target
    away     \* away[j]: the target has gone since the operation began

Init ==
    /\ good = [j \in Jobs |-> 0]
    /\ told = [j \in Jobs |-> 0]
    /\ astray = [j \in Jobs |-> FALSE]
    /\ away = [j \in Jobs |-> FALSE]

\* A newer good copy exists from here on; the run may report it at once.
Copy(j) ==
    /\ good'[j] \in Nat
    /\ good'[j] > good[j]
    /\ good' = [good EXCEPT ![j] = good'[j]]
    /\ told' \in {told, [told EXCEPT ![j] = good'[j]]}
    /\ UNCHANGED <<astray, away>>

\* A run reports the copy it made.
Tell(j) ==
    /\ good[j] > 0
    /\ told' = [told EXCEPT ![j] = good[j]]
    /\ UNCHANGED <<good, astray, away>>

\* A run that lost its target on the way reports a copy made elsewhere, and
\* may by then have taken good ones away.
Stray(j) ==
    /\ away[j]
    /\ astray' = [astray EXCEPT ![j] = TRUE]
    /\ good'[j] \in Nat
    /\ good'[j] <= good[j]
    /\ good' = [good EXCEPT ![j] = good'[j]]
    /\ UNCHANGED <<told, away>>

\* The next operation of the job begins.
Forget(j) ==
    /\ told' = [told EXCEPT ![j] = 0]
    /\ astray' = [astray EXCEPT ![j] = FALSE]
    /\ away' = [away EXCEPT ![j] = FALSE]
    /\ UNCHANGED good

\* The target goes in the middle of some operations, or is found there at
\* the beginning of one.
Outage ==
    /\ away' \in [Jobs -> BOOLEAN]
    /\ \A j \in Jobs : away[j] => away'[j] \/ (told[j] = 0 /\ ~astray[j])
    /\ UNCHANGED <<good, told, astray>>

Next == Outage \/ \E j \in Jobs : Copy(j) \/ Tell(j) \/ Stray(j) \/ Forget(j)

Spec == Init /\ [][Next]_<<good, told, astray, away>>

=============================================================================
