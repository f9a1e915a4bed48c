------------------------------ MODULE MCEngine ------------------------------
(* Instances of Engine for TLC. *)
EXTENDS EngineInvariants, TLC

\* The requests that move a job through its life, without pausing it.
LifeRequests == {"post", "put", "delete", "cancel", "run"}

\* The requests that change what is stored.
EditRequests == {"post", "put", "delete", "enable", "disable"}

\* The requests that write files, and those that end runs.
FileRequests == {"post", "put", "delete", "clear", "cancel", "check"}

\* The requests that decide whether a job is due, runs and comes to an end.
RunRequests == {"post", "put", "delete", "disable", "cancel", "run"}

\* Workers only matter up to renaming; handlers too.
Interchangeable == Permutations(Workers) \cup Permutations(Handlers)

=============================================================================
