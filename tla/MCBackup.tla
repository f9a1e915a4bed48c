------------------------------ MODULE MCBackup ------------------------------
(* Instances of Backup for TLC. *)
EXTENDS Backup

CONSTANTS b1, b2, p

\* Both jobs know the same passphrase; a repository of another may be there.
Same == [j \in Jobs |-> p]

\* Some files of the one cannot be read; the other finds none at all.
Sources == [j \in Jobs |-> IF j = b1 THEN {"complete", "incomplete"} ELSE {"empty"}]

\* One job is asked for everything, the other backs up and restores beside it.
Shared == ({b1} \X Operations) \cup {<<b2, "run">>}

\* What the scheduler alone asks for.
Scheduled == {<<j, "run">> : j \in Jobs}

=============================================================================
