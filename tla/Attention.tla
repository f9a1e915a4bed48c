----------------------------- MODULE Attention ------------------------------
(***************************************************************************)
(* What needs the user: the engine judges every scheduled job from its     *)
(* history (attention.go), the keeper puts a card on the dashboards that   *)
(* are open while the list is not empty and withdraws it after             *)
(* (dashboard.go).  Runs may fail, be missed because the box is off, or    *)
(* vanish in a restart; restores and checks leave entries of their own;    *)
(* histories are cut, cleared and lost; messages to the dashboards, or     *)
(* their answers, are lost.                                                  *)
(*                                                                         *)
(* The dashboards and the message bus are external: an open dashboard      *)
(* keeps a card until it is withdrawn or the page goes away.               *)
(***************************************************************************)
EXTENDS Integers, Sequences, FiniteSets

CONSTANTS
    Jobs,
    Schedules,    \* the schedules users give to jobs
    Year,         \* how far schedule.Next looks for a date: 366 days
    Grace,        \* how late a run may be
    RunCodes,     \* the outcomes of runs
    OtherCodes,   \* those of restores, checks and starts that were skipped
    Dashboards,   \* browsers that may show the home screen
    Cap,          \* how many entries a history keeps
    None,
    MaxTime,      \* bound: the clock
    MaxFaults     \* bound: restarts, lost messages and answers

\* Entries that say nothing of the job's own work.
NotARun == {"restored", "check_ok", "check_failed", "system_restored", "version_mismatch",
            "skipped_running"}

\* An interval, 0 if it is none; the dates of a cron expression.  No interval
\* and no dates is a manual schedule.
Schedule == [every : Nat, dates : SUBSET Nat]

ASSUME AttentionAssumption ==
    /\ Schedules \subseteq Schedule
    /\ Year \in Nat
    /\ Grace \in Nat
    /\ Cap \in Nat \ {0}
    /\ MaxTime \in Nat \ {0}
    /\ MaxFaults \in Nat
    /\ RunCodes \cap NotARun = {}
    /\ "completed" \notin OtherCodes

VARIABLES
    now,          \* the clock; 0 is the zero time
    enabled, schedule,
    set,          \* set[j]: when j was created, edited, paused or resumed last
    busy,         \* busy[j]: "run" or "other" while j is running
    log,          \* log[j]: its history, newest first
    lastOk,       \* lastOk[j]: when a run of j completed last, 0 if never (history variable)
    lastRun,      \* lastRun[j]: the outcome of j's last run (history variable)
    started, shown,   \* the keeper's idea
    look,         \* what the keeper saw and is about to send, None if nothing
    card,         \* card[d]: the jobs d's card names, {} without one, None if d is closed
    faults

jobVars  == <<enabled, schedule, set, busy, log, lastOk, lastRun>>
keeper   == <<started, shown, look>>
vars     == <<now, jobVars, keeper, card, faults>>

-----------------------------------------------------------------------------
(* attentionFor *)

\* The entries of j's history that are runs.
RunEntries(j) == {i \in DOMAIN log[j] : log[j][i].code \notin NotARun}

\* Slip: the history is read as if the oldest came first.
SlipOldest(is) == CHOOSE i \in is : \A k \in is : k <= i

Newest(is) == CHOOSE i \in is : \A k \in is : i <= k

LastSuccess(j) ==
    LET good == {i \in RunEntries(j) : log[j][i].code = "completed"}
    IN  IF good = {} THEN 0 ELSE log[j][Newest(good)].at

Failing(j) == RunEntries(j) # {} /\ log[j][Newest(RunEntries(j))].code # "completed"

\* The dates schedule.Next finds.
Upcoming(s, from) == {t \in s.dates : from < t /\ t <= from + Year}

Earliest(times) == CHOOSE t \in times : \A u \in times : t <= u

\* The zero time for a manual schedule, and for a cron expression whose next
\* date is more than a year away.
NextRun(s, from) ==
    IF s.every # 0 THEN from + s.every
    ELSE IF Upcoming(s, from) # {} THEN Earliest(Upcoming(s, from))
    ELSE 0

\* Slip: the job owes its next run from its last entry on, a restore's too.
SlipLastEntry(j) == IF log[j] # <<>> /\ log[j][1].at > set[j] THEN log[j][1].at ELSE set[j]

\* Since when the job owes its next run.
From(j) == IF set[j] > LastSuccess(j) THEN set[j] ELSE LastSuccess(j)

Late(due) == due # 0 /\ now > due + Grace

Overdue(j) == ~Failing(j) /\ Late(NextRun(schedule[j], From(j)))

Manual(s) == s.every = 0 /\ s.dates = {}

Judged(j) == enabled[j] /\ busy[j] = None /\ ~Manual(schedule[j])

\* Engine.Attention.
Listed == {j \in Jobs : Judged(j) /\ (Failing(j) \/ Overdue(j))}

\* validate: manual, or it fires within a year.
Accepted(s) == Manual(s) \/ NextRun(s, now) # 0

-----------------------------------------------------------------------------
Init ==
    /\ now = 1
    /\ enabled \in [Jobs -> BOOLEAN]
    /\ schedule \in [Jobs -> {s \in Schedules : Accepted(s)}]
    /\ set = [j \in Jobs |-> 1]
    /\ busy = [j \in Jobs |-> None]
    /\ log = [j \in Jobs |-> <<>>]
    /\ lastOk = [j \in Jobs |-> 0]
    /\ lastRun = [j \in Jobs |-> None]
    /\ started = FALSE /\ shown = FALSE
    /\ look = None
    /\ card = [d \in Dashboards |-> None]
    /\ faults = 0

-----------------------------------------------------------------------------
(* The jobs *)

\* Edited, also during a run.
Put(j) ==
    /\ \E s \in Schedules, on \in BOOLEAN :
          /\ Accepted(s)
          /\ schedule' = [schedule EXCEPT ![j] = s]
          /\ enabled' = [enabled EXCEPT ![j] = on]
    /\ set' = [set EXCEPT ![j] = now]
    /\ UNCHANGED <<now, busy, log, lastOk, lastRun, keeper, card, faults>>

\* Paused or resumed: nobody asks again whether the expression still fires.
SetEnabled(j) ==
    /\ \E on \in BOOLEAN : enabled' = [enabled EXCEPT ![j] = on]
    /\ set' = [set EXCEPT ![j] = now]
    /\ UNCHANGED schedule
    /\ UNCHANGED <<now, busy, log, lastOk, lastRun, keeper, card, faults>>

Begin(j, kind) ==
    /\ busy[j] = None
    /\ busy' = [busy EXCEPT ![j] = kind]
    /\ UNCHANGED <<now, enabled, schedule, set, log, lastOk, lastRun, keeper, card, faults>>

\* Slip: the history is not cut.
SlipUncut(s) == s

Cut(s) == IF Len(s) > Cap THEN SubSeq(s, 1, Cap) ELSE s

Recorded(j, code) ==
    log' = [log EXCEPT ![j] = Cut(<<[at |-> now, code |-> code]>> \o @)]

EndRun(j, code) ==
    /\ busy[j] = "run"
    /\ busy' = [busy EXCEPT ![j] = None]
    /\ Recorded(j, code)
    /\ lastRun' = [lastRun EXCEPT ![j] = code]
    /\ lastOk' = IF code = "completed" THEN [lastOk EXCEPT ![j] = now] ELSE lastOk
    /\ UNCHANGED <<now, enabled, schedule, set, keeper, card, faults>>

EndOther(j, code) ==
    /\ busy[j] = "other"
    /\ busy' = [busy EXCEPT ![j] = None]
    /\ Recorded(j, code)
    /\ UNCHANGED <<now, enabled, schedule, set, lastOk, lastRun, keeper, card, faults>>

ClearLogs(j) ==
    /\ log' = [log EXCEPT ![j] = <<>>]
    /\ UNCHANGED <<now, enabled, schedule, set, busy, lastOk, lastRun, keeper, card, faults>>

Tick ==
    /\ now < MaxTime
    /\ now' = now + 1
    /\ UNCHANGED <<jobVars, keeper, card, faults>>

\* The daemon dies and New loads what there is: runs that went on leave no
\* entry, a history that cannot be read is empty.
Restart ==
    /\ faults < MaxFaults /\ faults' = faults + 1
    /\ busy' = [j \in Jobs |-> None]
    /\ log' \in {log} \cup {[log EXCEPT ![j] = <<>>] : j \in Jobs}
    /\ started' = FALSE /\ shown' = FALSE /\ look' = None
    /\ UNCHANGED <<now, enabled, schedule, set, lastOk, lastRun, card>>

-----------------------------------------------------------------------------
(* The keeper *)

\* Slip: a new daemon thinks that no card is shown.
SlipForgetsCard == shown

\* A card of the previous daemon may still be there.
Shown == IF started THEN shown ELSE TRUE

\* The first half of Round: what does the engine say?
Look ==
    /\ look = None
    /\ look' = Listed
    /\ started' = TRUE
    /\ shown' = Shown
    /\ UNCHANGED <<now, jobVars, card, faults>>

\* Slip: a card that is shown is not sent again.
SlipSentOnce == look # {} /\ ~shown

ToShow == look # {}

Upserted(jobs) == card' = [d \in Dashboards |-> IF card[d] = None THEN None ELSE jobs]

\* A message is delivered and answered, delivered but not answered in time,
\* or lost.
Publish(jobs, shownThen) ==
    \/ Upserted(jobs) /\ shown' = shownThen /\ UNCHANGED faults
    \/ /\ faults < MaxFaults /\ faults' = faults + 1
       /\ UNCHANGED shown
       /\ Upserted(jobs) \/ UNCHANGED card

\* The second half: show, withdraw or nothing.
Send ==
    /\ look # None
    /\ look' = None
    /\ \/ ToShow /\ Publish(look, TRUE)
       \/ look = {} /\ shown /\ Publish({}, FALSE)
       \/ ~ToShow /\ ~(look = {} /\ shown) /\ UNCHANGED <<shown, card, faults>>
    /\ UNCHANGED <<now, jobVars, started>>

-----------------------------------------------------------------------------
(* The dashboards *)

Open(d) ==
    /\ card[d] = None
    /\ card' = [card EXCEPT ![d] = {}]
    /\ UNCHANGED <<now, jobVars, keeper, faults>>

\* Closed or reloaded: no dashboard keeps a card.
Close(d) ==
    /\ card[d] # None
    /\ card' \in {[card EXCEPT ![d] = None], [card EXCEPT ![d] = {}]}
    /\ UNCHANGED <<now, jobVars, keeper, faults>>

Next ==
    \/ \E j \in Jobs :
          \/ Put(j) \/ SetEnabled(j) \/ ClearLogs(j)
          \/ \E kind \in {"run", "other"} : Begin(j, kind)
          \/ \E code \in RunCodes : EndRun(j, code)
          \/ \E code \in OtherCodes : EndOther(j, code)
    \/ Tick \/ Restart \/ Look \/ Send
    \/ \E d \in Dashboards : Open(d) \/ Close(d)

Spec == Init /\ [][Next]_vars

\* The keeper's loop goes on: a round a minute, each request with a timeout.
FairSpec == Spec /\ WF_vars(Look) /\ WF_vars(Send)

-----------------------------------------------------------------------------
(* Properties *)

Times == 0..MaxTime

Entries == [at : Times, code : RunCodes \cup OtherCodes]

Ordered(s) == \A i, k \in DOMAIN s : i < k => s[i].at >= s[k].at

\* Types; no history is longer than it may be, and each is newest first.
TypeOK ==
    /\ now \in Times
    /\ enabled \in [Jobs -> BOOLEAN]
    /\ schedule \in [Jobs -> Schedules]
    /\ set \in [Jobs -> 1..now]
    /\ busy \in [Jobs -> {None, "run", "other"}]
    /\ log \in [Jobs -> Seq(Entries)]
    /\ \A j \in Jobs : Len(log[j]) <= Cap /\ Ordered(log[j])
    /\ lastOk \in [Jobs -> 0..now]
    /\ lastRun \in [Jobs -> RunCodes \cup {None}]
    /\ started \in BOOLEAN /\ shown \in BOOLEAN
    /\ look \in (SUBSET Jobs) \cup {None}
    /\ card \in [Dashboards -> (SUBSET Jobs) \cup {None}]
    /\ faults \in 0..MaxFaults

\* A job whose last run did not complete is listed, as failing, for as long
\* as its history still has a run: no restore, check or skipped start after
\* it hides the failure (attentionFor).
FailureIsListed ==
    \A j \in Jobs :
        Judged(j) /\ lastRun[j] \notin {None, "completed"} /\ RunEntries(j) # {}
            => j \in Listed /\ Failing(j)

\* What j owes is counted from here: its last completed run, or the last edit.
Owing(j) == IF set[j] > lastOk[j] THEN set[j] ELSE lastOk[j]

\* A time of the schedule after that is over, by more than the grace.
Missed(j) ==
    LET times == IF schedule[j].every # 0 THEN {Owing(j) + schedule[j].every}
                 ELSE {t \in schedule[j].dates : t > Owing(j)}
    IN  \E t \in times : now > t + Grace

\* No two dates are more than a year apart: every interval, and every cron
\* expression but those of leap days and the like.
Regular(s) == s.every # 0 \/ \A t \in Times : Upcoming(s, t) # {}

\* A date lies within a year of what the history still knows.
Foreseen(j) == NextRun(schedule[j], From(j)) # 0

\* No silent death: a scheduled job that has not completed a run it owed is
\* listed, whether the runs failed, never started, or died with the daemon, and
\* whatever was cut off, cleared or lost from its history.  This is so for every
\* regular schedule; one whose dates are years apart is watched only from a
\* year before a date, counted from the last success or edit (attentionFor).
SilenceIsListed ==
    \A j \in Jobs : Judged(j) /\ Missed(j) /\ (Regular(schedule[j]) \/ Foreseen(j)) => j \in Listed

\* While the same jobs need the user, every dashboard that stays open comes
\* to show a card that names exactly them, also after a reload, a restart of
\* the daemon or lost messages (Keeper.Round).
TroubleIsShown ==
    \A d \in Dashboards : \A jobs \in SUBSET Jobs \ {{}} :
        <>[](Listed = jobs /\ card[d] # None) => <>(card[d] = jobs)

\* Once nothing needs the user a card goes away, also one of a daemon that
\* died - unless the keeper never learnt that its card was delivered.
CardIsWithdrawn ==
    \A d \in Dashboards :
        (card[d] \notin {None, {}} /\ Listed = {} /\ (shown \/ ~started))
            ~> (card[d] \in {None, {}} \/ Listed # {})

=============================================================================
