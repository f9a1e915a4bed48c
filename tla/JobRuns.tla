------------------------------ MODULE JobRuns -------------------------------
(***************************************************************************)
(* What the engine promises about runs, seen from outside: work on a job   *)
(* (a backup, a restore, a check) starts only while no other work on the   *)
(* same job is going, it ends on its own time, and when the daemon dies    *)
(* all of it ends.  Which goroutine works on which job is all there is.    *)
(***************************************************************************)
EXTENDS FiniteSets

CONSTANTS Jobs, Workers

VARIABLE working   \* job -> the goroutines that work on it

Init == working = [j \in Jobs |-> {}]

Begin(j, w) ==
    /\ working[j] = {}
    /\ \A i \in Jobs : w \notin working[i]
    /\ working' = [working EXCEPT ![j] = {w}]

End(j, w) ==
    /\ w \in working[j]
    /\ working' = [working EXCEPT ![j] = @ \ {w}]

Die == working' = [j \in Jobs |-> {}]

Next == Die \/ \E j \in Jobs, w \in Workers : Begin(j, w) \/ End(j, w)

Spec == Init /\ [][Next]_working

=============================================================================
