-------------------------- MODULE AttentionProofs ---------------------------
(***************************************************************************)
(* Attention keeps its types, lists every failure and lists every silence, *)
(* for all sets of jobs, schedules, outcomes, dashboards and bounds.       *)
(*                                                                         *)
(* The two safety properties need one fact each about what a history says  *)
(* of runs that it may have lost: its completed entries are not later than *)
(* the last completed run, and if its newest run completed, the last one   *)
(* did.  The cut at the end of a history and ClearLogs only weaken both.   *)
(***************************************************************************)
EXTENDS Attention, SequenceTheorems, WellFoundedInduction, TLAPS

AllCodes == RunCodes \cup OtherCodes

\* No entry is from the future.
Past == \A j \in Jobs : \A i \in DOMAIN log[j] : log[j][i].at <= now

\* The history claims no success after the last one.
Truthful ==
    \A j \in Jobs : \A i \in DOMAIN log[j] :
        log[j][i].code = "completed" => log[j][i].at <= lastOk[j]

IsNewest(j, i) == i \in RunEntries(j) /\ \A k \in RunEntries(j) : i <= k

\* Nor does it end with one that a failure followed.
EndsTruly ==
    \A j \in Jobs : \A i \in DOMAIN log[j] :
        IsNewest(j, i) /\ log[j][i].code = "completed" => lastRun[j] = "completed"

IInv == TypeOK /\ Past /\ Truthful /\ EndsTruly

-----------------------------------------------------------------------------
(* Histories *)

\* Cut keeps the beginning of a history.
LEMMA CutKeeps ==
    ASSUME NEW S, NEW s \in Seq(S), Len(s) > 0
    PROVE  /\ Cut(s) \in Seq(S)
           /\ Len(Cut(s)) \in 1..Cap
           /\ Len(Cut(s)) <= Len(s)
           /\ \A i \in 1..Len(Cut(s)) : Cut(s)[i] = s[i]
<1>1. Len(s) \in Nat /\ Cap \in Nat \ {0} BY LenProperties, AttentionAssumption
<1>2. CASE Len(s) > Cap
  <2>1. \A i \in 1..Cap : s[i] \in S BY <1>1, <1>2, ElementOfSeq
  <2>2. /\ SubSeq(s, 1, Cap) \in Seq(S) /\ Len(SubSeq(s, 1, Cap)) = Cap
        /\ \A i \in 1..Cap : SubSeq(s, 1, Cap)[i] = s[i]
    BY <1>1, <1>2, <2>1, SubSeqProperties
  <2> QED BY <1>1, <1>2, <2>2 DEF Cut
<1>3. CASE ~(Len(s) > Cap) BY <1>1, <1>3 DEF Cut
<1> QED BY <1>2, <1>3

\* A history grows at its front.
LEMMA RecordedShifts ==
    ASSUME TypeOK, Past, NEW j \in Jobs, NEW code \in AllCodes, Recorded(j, code)
    PROVE  /\ log' \in [Jobs -> Seq(Entries)]
           /\ \A k \in Jobs \ {j} : log'[k] = log[k]
           /\ Len(log'[j]) \in 1..Cap
           /\ log'[j][1] = [at |-> now, code |-> code]
           /\ \A i \in 2..Len(log'[j]) : i - 1 \in DOMAIN log[j] /\ log'[j][i] = log[j][i - 1]
           /\ \A i \in DOMAIN log'[j] : log'[j][i].at <= now
           /\ Ordered(log'[j])
<1> DEFINE e == [at |-> now, code |-> code]
           s == <<e>> \o log[j]
<1>1. e \in Entries /\ log[j] \in Seq(Entries) BY DEF TypeOK, Entries, Times, AllCodes
<1>2. <<e>> \in Seq(Entries) /\ Len(<<e>>) = 1 /\ <<e>>[1] = e BY <1>1
<1>3. Len(log[j]) \in Nat /\ DOMAIN log[j] = 1..Len(log[j]) BY <1>1, LenProperties
<1>4. /\ s \in Seq(Entries) /\ Len(s) = Len(log[j]) + 1 /\ s[1] = e
      /\ \A i \in 2..Len(s) : s[i] = log[j][i - 1]
  BY <1>1, <1>2, <1>3, ConcatProperties
<1>5. log' = [log EXCEPT ![j] = Cut(s)] BY DEF Recorded
<1>6. /\ Cut(s) \in Seq(Entries) /\ Len(Cut(s)) \in 1..Cap /\ Len(Cut(s)) <= Len(s)
      /\ \A i \in 1..Len(Cut(s)) : Cut(s)[i] = s[i]
  <2>1. Len(s) > 0 BY <1>3, <1>4
  <2> HIDE DEF s
  <2> QED BY <1>4, <2>1, CutKeeps
<1> HIDE DEF s
<1>7. /\ log' \in [Jobs -> Seq(Entries)] /\ log'[j] = Cut(s)
      /\ \A k \in Jobs \ {j} : log'[k] = log[k]
  BY <1>5, <1>6 DEF TypeOK
<1>8. DOMAIN log'[j] = 1..Len(log'[j]) /\ Len(log'[j]) \in Nat BY <1>6, <1>7, LenProperties
<1>9. log'[j][1] = e BY <1>4, <1>6, <1>7
<1>10. \A i \in 2..Len(log'[j]) : i - 1 \in DOMAIN log[j] /\ log'[j][i] = log[j][i - 1]
  BY <1>3, <1>4, <1>6, <1>7, <1>8
<1>11. \A i \in DOMAIN log'[j] : log'[j][i].at <= now
  <2> SUFFICES ASSUME NEW i \in DOMAIN log'[j] PROVE log'[j][i].at <= now OBVIOUS
  <2>1. now \in Int BY DEF TypeOK, Times
  <2>2. CASE i = 1 BY <1>9, <2>1, <2>2
  <2>3. CASE i # 1 BY <1>8, <1>10, <2>3 DEF Past
  <2> QED BY <2>2, <2>3
<1>12. Ordered(log'[j])
  <2> SUFFICES ASSUME NEW i \in DOMAIN log'[j], NEW k \in DOMAIN log'[j], i < k
               PROVE  log'[j][i].at >= log'[j][k].at
    BY DEF Ordered
  <2>1. log'[j][k].at <= now /\ log'[j][k].at \in Int /\ now \in Int
    <3>1. log'[j] \in Seq(Entries) BY <1>7
    <3>2. log'[j][k] \in Entries BY <1>8, <3>1, ElementOfSeq
    <3> QED BY <1>11, <3>2 DEF TypeOK, Entries, Times
  <2>2. CASE i = 1 BY <1>9, <2>1, <2>2
  <2>3. CASE i # 1
    <3>1. i \in 2..Len(log'[j]) /\ k \in 2..Len(log'[j]) /\ i - 1 < k - 1 BY <1>8, <2>3
    <3>2. Ordered(log[j]) BY DEF TypeOK
    <3> QED BY <1>10, <3>1, <3>2 DEF Ordered
  <2> QED BY <2>2, <2>3
<1> QED BY <1>6, <1>7, <1>9, <1>10, <1>11, <1>12

-----------------------------------------------------------------------------
(* Types *)

LEMMA InitTypes == Init => IInv
<1> SUFFICES ASSUME Init PROVE IInv OBVIOUS
<1>1. \A j \in Jobs : log[j] = <<>> BY DEF Init
<1>2. log \in [Jobs -> Seq(Entries)] BY DEF Init
<1>3. \A j \in Jobs : Len(log[j]) <= Cap /\ DOMAIN log[j] = {} BY <1>1, AttentionAssumption
<1>4. \A j \in Jobs : Len(log[j]) <= Cap /\ Ordered(log[j]) BY <1>3 DEF Ordered
<1>8. schedule \in [Jobs -> Schedules]
  <2>1. schedule \in [Jobs -> {s \in Schedules : Accepted(s)}] BY DEF Init
  <2> QED BY <2>1
<1>5. /\ now \in Times /\ set \in [Jobs -> 1..now] /\ lastOk \in [Jobs -> 0..now]
      /\ faults \in 0..MaxFaults
  BY AttentionAssumption DEF Init, Times
<1>6. /\ busy \in [Jobs -> {None, "run", "other"}] /\ lastRun \in [Jobs -> RunCodes \cup {None}]
      /\ started \in BOOLEAN /\ shown \in BOOLEAN /\ look \in (SUBSET Jobs) \cup {None}
      /\ card \in [Dashboards -> (SUBSET Jobs) \cup {None}]
  BY DEF Init
<1>7. TypeOK BY <1>2, <1>4, <1>5, <1>6, <1>8 DEF Init, TypeOK
<1> QED BY <1>3, <1>7 DEF IInv, Past, Truthful, EndsTruly

LEMMA TypeStep == TypeOK /\ Past /\ [Next]_vars => TypeOK'
<1> SUFFICES ASSUME TypeOK, Past, [Next]_vars PROVE TypeOK' OBVIOUS
<1> USE DEF TypeOK, jobVars, keeper
<1>1. ASSUME NEW j \in Jobs, Put(j) \/ SetEnabled(j) PROVE TypeOK'
  <2>1. enabled' \in [Jobs -> BOOLEAN] BY <1>1 DEF Put, SetEnabled
  <2>2. set' \in [Jobs -> 1..now'] BY <1>1, AttentionAssumption DEF Put, SetEnabled, Times
  <2>3. schedule' \in [Jobs -> Schedules] BY <1>1 DEF Put, SetEnabled
  <2> QED BY <1>1, <2>1, <2>2, <2>3 DEF Put, SetEnabled
<1>2. ASSUME NEW j \in Jobs, ClearLogs(j) PROVE TypeOK'
  <2>1. log' \in [Jobs -> Seq(Entries)] BY <1>2 DEF ClearLogs
  <2>2. \A k \in Jobs : Len(log'[k]) <= Cap /\ Ordered(log'[k])
    BY <1>2, AttentionAssumption DEF ClearLogs, Ordered
  <2> QED BY <1>2, <2>1, <2>2 DEF ClearLogs
<1>3. ASSUME NEW j \in Jobs, NEW kind \in {"run", "other"}, Begin(j, kind) PROVE TypeOK'
  BY <1>3 DEF Begin
<1>4. ASSUME NEW j \in Jobs, NEW code \in RunCodes, EndRun(j, code) PROVE TypeOK'
  <2>1. Recorded(j, code) /\ code \in AllCodes BY <1>4 DEF EndRun, AllCodes
  <2>2. log' \in [Jobs -> Seq(Entries)] /\ \A k \in Jobs : Len(log'[k]) <= Cap /\ Ordered(log'[k])
    <3>1. /\ log' \in [Jobs -> Seq(Entries)] /\ \A k \in Jobs \ {j} : log'[k] = log[k]
          /\ Len(log'[j]) \in 1..Cap /\ Ordered(log'[j])
      BY <2>1, RecordedShifts
    <3>2. Len(log'[j]) <= Cap BY <3>1, AttentionAssumption
    <3> QED BY <3>1, <3>2
  <2>3. lastOk' \in [Jobs -> 0..now'] BY <1>4 DEF EndRun, Times
  <2> QED BY <1>4, <2>2, <2>3 DEF EndRun
<1>5. ASSUME NEW j \in Jobs, NEW code \in OtherCodes, EndOther(j, code) PROVE TypeOK'
  <2>1. Recorded(j, code) /\ code \in AllCodes BY <1>5 DEF EndOther, AllCodes
  <2>2. log' \in [Jobs -> Seq(Entries)] /\ \A k \in Jobs : Len(log'[k]) <= Cap /\ Ordered(log'[k])
    <3>1. /\ log' \in [Jobs -> Seq(Entries)] /\ \A k \in Jobs \ {j} : log'[k] = log[k]
          /\ Len(log'[j]) \in 1..Cap /\ Ordered(log'[j])
      BY <2>1, RecordedShifts
    <3>2. Len(log'[j]) <= Cap BY <3>1, AttentionAssumption
    <3> QED BY <3>1, <3>2
  <2> QED BY <1>5, <2>2 DEF EndOther
<1>6. CASE Tick
  <2>1. now' \in Times /\ set' \in [Jobs -> 1..now'] /\ lastOk' \in [Jobs -> 0..now']
    BY <1>6, AttentionAssumption DEF Tick, Times
  <2> QED BY <1>6, <2>1 DEF Tick
<1>7. CASE Restart
  <2>1. log' \in [Jobs -> Seq(Entries)] /\ \A k \in Jobs : Len(log'[k]) <= Cap /\ Ordered(log'[k])
    <3>1. CASE log' = log BY <3>1
    <3>2. ASSUME NEW j \in Jobs, log' = [log EXCEPT ![j] = <<>>]
          PROVE  log' \in [Jobs -> Seq(Entries)] /\ \A k \in Jobs : Len(log'[k]) <= Cap /\ Ordered(log'[k])
      BY <3>2, AttentionAssumption DEF Ordered
    <3> QED BY <1>7, <3>1, <3>2 DEF Restart
  <2>2. faults' \in 0..MaxFaults BY <1>7, AttentionAssumption DEF Restart
  <2> QED BY <1>7, <2>1, <2>2 DEF Restart
<1>8. CASE Look
  BY <1>8 DEF Look, Listed, Shown
<1>9. CASE Send
  <2>1. look # None => look \in SUBSET Jobs OBVIOUS
  <2>2. ASSUME NEW jobs \in SUBSET Jobs, NEW then \in BOOLEAN, Publish(jobs, then)
        PROVE  /\ card' \in [Dashboards -> (SUBSET Jobs) \cup {None}] /\ shown' \in BOOLEAN
               /\ faults' \in 0..MaxFaults
    BY <2>2, AttentionAssumption DEF Publish, Upserted
  <2>3. /\ card' \in [Dashboards -> (SUBSET Jobs) \cup {None}] /\ shown' \in BOOLEAN
        /\ faults' \in 0..MaxFaults
    BY <1>9, <2>1, <2>2 DEF Send
  <2> QED BY <1>9, <2>3 DEF Send
<1>10. ASSUME NEW d \in Dashboards, Open(d) \/ Close(d) PROVE TypeOK'
  BY <1>10 DEF Open, Close
<1>11. CASE UNCHANGED vars BY <1>11 DEF vars, Ordered
<1> QED BY <1>1, <1>2, <1>3, <1>4, <1>5, <1>6, <1>7, <1>8, <1>9, <1>10, <1>11 DEF Next

-----------------------------------------------------------------------------
(* What a history says of the runs *)

\* Steps that leave the histories and what they are compared with alone.
LEMMA Aside ==
    ASSUME IInv, log' = log, lastOk' = lastOk, lastRun' = lastRun, now' \in {now, now + 1}
    PROVE  Past' /\ Truthful' /\ EndsTruly'
<1>1. Truthful' BY DEF IInv, Truthful
<1>2. EndsTruly' BY DEF IInv, EndsTruly, IsNewest, RunEntries
<1>3. Past'
  <2> SUFFICES ASSUME NEW j \in Jobs, NEW i \in DOMAIN log[j] PROVE log[j][i].at <= now'
    BY DEF Past
  <2>1. log[j] \in Seq(Entries) BY DEF IInv, TypeOK
  <2>2. log[j][i] \in Entries BY <2>1, ElementOfSeq, LenProperties
  <2>3. log[j][i].at \in Int /\ now \in Int BY <2>2 DEF IInv, TypeOK, Entries, Times
  <2> QED BY <2>3 DEF IInv, Past
<1> QED BY <1>1, <1>2, <1>3

\* A history that is emptied claims nothing.
LEMMA Emptied ==
    ASSUME IInv, NEW j \in Jobs, log' = [log EXCEPT ![j] = <<>>],
           now' = now, lastOk' = lastOk, lastRun' = lastRun
    PROVE  Past' /\ Truthful' /\ EndsTruly'
<1>1. DOMAIN log'[j] = {} BY DEF IInv, TypeOK
<1>2. \A k \in Jobs \ {j} : log'[k] = log[k] BY DEF IInv, TypeOK
<1>3. Past' BY <1>1, <1>2 DEF IInv, Past
<1>4. Truthful' BY <1>1, <1>2 DEF IInv, Truthful
<1>5. EndsTruly' BY <1>1, <1>2 DEF IInv, EndsTruly, IsNewest, RunEntries
<1> QED BY <1>3, <1>4, <1>5

\* A new entry: of a run, which the last outcome follows, or of something
\* else, which never says "completed".
LEMMA Grown ==
    ASSUME IInv, NEW j \in Jobs, NEW code \in AllCodes, Recorded(j, code), now' = now,
           \/ /\ code \in RunCodes
              /\ lastRun' = [lastRun EXCEPT ![j] = code]
              /\ lastOk' = IF code = "completed" THEN [lastOk EXCEPT ![j] = now] ELSE lastOk
           \/ code \in OtherCodes /\ UNCHANGED <<lastOk, lastRun>>
    PROVE  Past' /\ Truthful' /\ EndsTruly'
<1>1. /\ \A k \in Jobs \ {j} : log'[k] = log[k]
      /\ log'[j] \in Seq(Entries)
      /\ Len(log'[j]) \in 1..Cap
      /\ log'[j][1] = [at |-> now, code |-> code]
      /\ \A i \in 2..Len(log'[j]) : i - 1 \in DOMAIN log[j] /\ log'[j][i] = log[j][i - 1]
      /\ \A i \in DOMAIN log'[j] : log'[j][i].at <= now
  BY RecordedShifts DEF IInv
<1>2. DOMAIN log'[j] = 1..Len(log'[j]) /\ Len(log'[j]) \in Nat BY <1>1, LenProperties
<1>3. Past' BY <1>1 DEF IInv, Past
<1>4. /\ lastOk[j] <= lastOk'[j] /\ lastOk[j] \in Int /\ lastOk'[j] \in Int
      /\ code = "completed" => lastOk'[j] = now
      /\ \A k \in Jobs \ {j} : lastOk'[k] = lastOk[k]
  BY AttentionAssumption DEF IInv, TypeOK, Times
<1>5. Truthful'
  <2> SUFFICES ASSUME NEW k \in Jobs, NEW i \in DOMAIN log'[k], log'[k][i].code = "completed"
               PROVE  log'[k][i].at <= lastOk'[k]
    BY DEF Truthful
  <2>1. CASE k # j BY <1>1, <1>4, <2>1 DEF IInv, Truthful
  <2>2. CASE k = j /\ i = 1 BY <1>1, <1>4, <2>2
  <2>3. CASE k = j /\ i # 1
    <3>1. i \in 2..Len(log'[j]) BY <1>2, <2>3
    <3>2. log[j][i - 1].at <= lastOk[j] BY <1>1, <2>3, <3>1 DEF IInv, Truthful
    <3>3. log'[j][i].at \in Int
      <4>1. log'[j][i] \in Entries BY <1>1, <1>2, <2>3, ElementOfSeq
      <4> QED BY <4>1 DEF Entries, Times
    <3> QED BY <1>1, <1>4, <2>3, <3>1, <3>2, <3>3
  <2> QED BY <2>1, <2>2, <2>3
<1>6. EndsTruly'
  <2> SUFFICES ASSUME NEW k \in Jobs, NEW i \in DOMAIN log'[k], IsNewest(k, i)',
                      log'[k][i].code = "completed"
               PROVE  lastRun'[k] = "completed"
    BY DEF EndsTruly
  <2>1. CASE k # j
    <3>1. IsNewest(k, i) BY <1>1, <2>1 DEF IsNewest, RunEntries
    <3> QED BY <1>1, <2>1, <3>1 DEF IInv, EndsTruly, TypeOK
  <2>2. CASE k = j /\ code \in RunCodes
    <3>1. 1 \in RunEntries(j)' BY <1>1, <1>2, <2>2, AttentionAssumption DEF RunEntries
    <3>2. i = 1 BY <1>2, <2>2, <3>1 DEF IsNewest
    <3>3. code = "completed" BY <1>1, <2>2, <3>2
    <3>4. lastRun' = [lastRun EXCEPT ![j] = code] BY <2>2, <3>3, AttentionAssumption
    <3> QED BY <2>2, <3>3, <3>4 DEF IInv, TypeOK
  <2>3. CASE k = j /\ code \notin RunCodes
    <3>1. code # "completed" /\ lastRun' = lastRun BY <2>3, AttentionAssumption
    <3>2. i \in 2..Len(log'[j]) BY <1>1, <1>2, <2>3, <3>1
    <3>3. IsNewest(j, i - 1)
      <4>1. i - 1 \in RunEntries(j) BY <1>1, <2>3, <3>2 DEF IsNewest, RunEntries
      <4>2. ASSUME NEW n \in RunEntries(j), n < i - 1 PROVE FALSE
        <5>1. log[j] \in Seq(Entries) BY DEF IInv, TypeOK
        <5>2. n \in Nat \ {0} BY <5>1, LenProperties DEF RunEntries
        <5>3. n + 1 \in 2..Len(log'[j]) /\ n + 1 < i BY <1>2, <3>2, <4>2, <5>2
        <5>4. log'[j][n + 1] = log[j][n] BY <1>1, <5>2, <5>3
        <5>5. n + 1 \in RunEntries(j)' BY <1>2, <5>3, <5>4 DEF RunEntries
        <5> QED BY <2>3, <3>2, <5>2, <5>3, <5>5 DEF IsNewest
      <4>3. \A n \in RunEntries(j) : n \in Int
        BY LenProperties DEF IInv, TypeOK, RunEntries
      <4> QED BY <3>2, <4>1, <4>2, <4>3 DEF IsNewest
    <3> QED BY <1>1, <2>3, <3>1, <3>2, <3>3 DEF IInv, EndsTruly
  <2> QED BY <2>1, <2>2, <2>3
<1> QED BY <1>3, <1>5, <1>6

LEMMA IInvStep == IInv /\ [Next]_vars => IInv'
<1> SUFFICES ASSUME IInv, [Next]_vars PROVE IInv' OBVIOUS
<1>1. TypeOK' BY TypeStep DEF IInv
<1>2. ASSUME NEW j \in Jobs,
             \/ Put(j) \/ SetEnabled(j)
             \/ \E kind \in {"run", "other"} : Begin(j, kind)
      PROVE  Past' /\ Truthful' /\ EndsTruly'
  BY <1>2, Aside DEF Put, SetEnabled, Begin
<1>3. ASSUME NEW j \in Jobs, ClearLogs(j) PROVE Past' /\ Truthful' /\ EndsTruly'
  BY <1>3, Emptied DEF ClearLogs
<1>4. ASSUME NEW j \in Jobs, NEW code \in RunCodes, EndRun(j, code)
      PROVE  Past' /\ Truthful' /\ EndsTruly'
  BY <1>4, Grown DEF EndRun, AllCodes
<1>5. ASSUME NEW j \in Jobs, NEW code \in OtherCodes, EndOther(j, code)
      PROVE  Past' /\ Truthful' /\ EndsTruly'
  BY <1>5, Grown DEF EndOther, AllCodes
<1>6. ASSUME Tick PROVE Past' /\ Truthful' /\ EndsTruly'
  BY <1>6, Aside DEF Tick, jobVars
<1>7. ASSUME Restart PROVE Past' /\ Truthful' /\ EndsTruly'
  <2>1. CASE log' = log BY <1>7, <2>1, Aside DEF Restart
  <2>2. CASE \E j \in Jobs : log' = [log EXCEPT ![j] = <<>>] BY <1>7, <2>2, Emptied DEF Restart
  <2> QED BY <1>7, <2>1, <2>2 DEF Restart
<1>8. ASSUME Look \/ Send \/ UNCHANGED vars PROVE Past' /\ Truthful' /\ EndsTruly'
  BY <1>8, Aside DEF Look, Send, vars, jobVars
<1>9. ASSUME NEW d \in Dashboards, Open(d) \/ Close(d) PROVE Past' /\ Truthful' /\ EndsTruly'
  BY <1>9, Aside DEF Open, Close, jobVars
<1> QED BY <1>1, <1>2, <1>3, <1>4, <1>5, <1>6, <1>7, <1>8, <1>9 DEF IInv, Next

LEMMA Invariant == Spec => []IInv
BY InitTypes, IInvStep, PTL DEF Spec

-----------------------------------------------------------------------------
\* Every variable keeps its type, no history outgrows its cap, and each is
\* newest first (record).
THEOREM TypeCorrect == Spec => []TypeOK
BY Invariant, PTL DEF IInv

\* The newest of some entries is one of them and not older than any.
LEMMA NewestIs ==
    ASSUME IInv, NEW j \in Jobs, NEW is \in SUBSET DOMAIN log[j], is # {}
    PROVE  Newest(is) \in is /\ \A k \in is : Newest(is) <= k
<1>1. is \subseteq Nat BY LenProperties DEF IInv, TypeOK
<1>2. \E i \in is : \A k \in is : i <= k
  <2>1. PICK m \in is : TRUE OBVIOUS
  <2>2. PICK n \in is : \A k \in is : ~(<<k, n>> \in OpToRel(<, Nat))
    BY <1>1, <2>1, NatLessThanWellFounded, WFMin
  <2>3. \A k \in is : ~(k < n) BY <1>1, <2>2 DEF OpToRel
  <2> QED BY <1>1, <2>3
<1> QED BY <1>2 DEF Newest

\* A job whose last run did not complete is listed as failing while its
\* history has a run, whatever restores, checks, cuts and losses came after.
THEOREM FailuresAreListed == Spec => []FailureIsListed
<1>1. IInv => FailureIsListed
  <2> SUFFICES ASSUME IInv, NEW j \in Jobs, Judged(j), lastRun[j] # "completed", RunEntries(j) # {}
               PROVE  j \in Listed /\ Failing(j)
    BY DEF FailureIsListed
  <2>1. RunEntries(j) \in SUBSET DOMAIN log[j] BY DEF RunEntries
  <2>2. IsNewest(j, Newest(RunEntries(j))) BY <2>1, NewestIs DEF IsNewest
  <2>3. log[j][Newest(RunEntries(j))].code # "completed"
    BY <2>1, <2>2 DEF IInv, EndsTruly, IsNewest
  <2> QED BY <2>3 DEF Failing, Listed
<1> QED BY <1>1, Invariant, PTL

\* The earliest of some times is one of them and not later than any.
LEMMA EarliestIs ==
    ASSUME NEW times \in SUBSET Nat, times # {}
    PROVE  Earliest(times) \in times /\ \A t \in times : Earliest(times) <= t
<1>1. \E i \in times : \A k \in times : i <= k
  <2>1. PICK n \in times : \A k \in times : ~(<<k, n>> \in OpToRel(<, Nat))
    BY NatLessThanWellFounded, WFMin
  <2>2. \A k \in times : ~(k < n) BY <2>1 DEF OpToRel
  <2> QED BY <2>2
<1> QED BY <1>1 DEF Earliest

\* A time the schedule finds after an earlier moment is not after one that it
\* has after a later moment.
LEMMA NextRunIsFirst ==
    ASSUME NEW s \in Schedule, NEW from \in Nat, NEW owing \in Nat, from <= owing,
           NextRun(s, from) # 0, NEW t \in Nat,
           IF s.every # 0 THEN t = owing + s.every ELSE t \in s.dates /\ t > owing
    PROVE  NextRun(s, from) \in Nat /\ NextRun(s, from) <= t
<1>1. s.every \in Nat /\ s.dates \in SUBSET Nat /\ Year \in Nat
  BY AttentionAssumption DEF Schedule
<1>2. CASE s.every # 0 BY <1>1, <1>2 DEF NextRun
<1>3. CASE s.every = 0
  <2> DEFINE near == Upcoming(s, from)
  <2>1. near # {} /\ NextRun(s, from) = Earliest(near) BY <1>3 DEF NextRun
  <2>2. near \in SUBSET Nat BY <1>1 DEF Upcoming
  <2>3. t \in s.dates /\ from < t BY <1>3
  <2>4. \A u \in near : u <= from + Year BY DEF Upcoming
  <2>5. t \in near \/ t > from + Year BY <1>1, <2>3 DEF Upcoming
  <2> HIDE DEF near
  <2>6. Earliest(near) \in near /\ \A u \in near : Earliest(near) <= u
    BY <2>1, <2>2, EarliestIs
  <2>7. Earliest(near) \in Nat /\ Earliest(near) <= from + Year BY <2>2, <2>4, <2>6
  <2>8. CASE t \in near BY <2>1, <2>6, <2>7, <2>8
  <2>9. CASE t > from + Year BY <1>1, <2>1, <2>7, <2>9
  <2> QED BY <2>5, <2>8, <2>9
<1> QED BY <1>2, <1>3

\* No silent death: a scheduled job that has not completed a run it owed is
\* listed, whether its runs failed, never started or died with the daemon, for
\* every schedule that has a time within a year of its last success or edit.
THEOREM SilenceIsAlwaysListed == Spec => []SilenceIsListed
<1>1. IInv => SilenceIsListed
  <2> SUFFICES ASSUME IInv, NEW j \in Jobs, Judged(j), Missed(j),
                      Regular(schedule[j]) \/ Foreseen(j)
               PROVE  j \in Listed
    BY DEF SilenceIsListed
  <2>1. LastSuccess(j) \in Nat /\ LastSuccess(j) <= lastOk[j] /\ LastSuccess(j) <= now
    <3> DEFINE good == {i \in RunEntries(j) : log[j][i].code = "completed"}
    <3>1. lastOk[j] \in Nat /\ now \in Nat BY DEF IInv, TypeOK, Times
    <3>2. CASE good = {} BY <3>1, <3>2 DEF LastSuccess
    <3>3. CASE good # {}
      <4>1. Newest(good) \in good BY <3>3, NewestIs DEF RunEntries
      <4>2. log[j] \in Seq(Entries) BY DEF IInv, TypeOK
      <4>3. Newest(good) \in DOMAIN log[j] /\ log[j][Newest(good)].code = "completed"
        BY <4>1 DEF RunEntries
      <4>4. log[j][Newest(good)] \in Entries BY <4>2, <4>3, ElementOfSeq, LenProperties
      <4>5. /\ log[j][Newest(good)].at <= lastOk[j]
            /\ log[j][Newest(good)].at <= now
        BY <4>3 DEF IInv, Truthful, Past
      <4> QED BY <3>3, <4>4, <4>5 DEF LastSuccess, Entries, Times
    <3> QED BY <3>2, <3>3
  <2>2. /\ now \in Times /\ set[j] \in 1..now /\ lastOk[j] \in Nat
        /\ schedule[j] \in Schedule
    BY AttentionAssumption DEF IInv, TypeOK, Times
  <2>3. MaxTime \in Nat /\ Grace \in Nat BY AttentionAssumption
  <2>4. /\ From(j) \in Times /\ From(j) \in Nat
        /\ Owing(j) \in Nat /\ From(j) <= Owing(j) /\ From(j) > 0
    BY <2>1, <2>2, <2>3 DEF From, Owing, Times
  <2>5. NextRun(schedule[j], From(j)) # 0
    <3>1. CASE Foreseen(j) BY <3>1 DEF Foreseen
    <3>2. CASE schedule[j].every # 0 BY <2>2, <2>4, <3>2 DEF NextRun, Schedule
    <3>3. CASE schedule[j].every = 0 /\ Regular(schedule[j])
      <4> DEFINE near == Upcoming(schedule[j], From(j))
      <4>1. near # {} BY <2>4, <3>3 DEF Regular
      <4>2. near \in SUBSET Nat /\ \A t \in near : t > 0
        BY <2>2, <2>4 DEF Upcoming, Schedule
      <4>3. NextRun(schedule[j], From(j)) = Earliest(near) BY <3>3, <4>1 DEF NextRun
      <4> HIDE DEF near
      <4> QED BY <4>1, <4>2, <4>3, EarliestIs
    <3> QED BY <3>1, <3>2, <3>3
  <2>6. PICK t \in Nat :
          /\ now > t + Grace
          /\ IF schedule[j].every # 0 THEN t = Owing(j) + schedule[j].every
             ELSE t \in schedule[j].dates /\ t > Owing(j)
    <3>1. schedule[j].every \in Nat /\ schedule[j].dates \in SUBSET Nat BY <2>2 DEF Schedule
    <3> QED BY <2>4, <3>1 DEF Missed
  <2>7. NextRun(schedule[j], From(j)) \in Nat /\ NextRun(schedule[j], From(j)) <= t
    BY <2>2, <2>4, <2>5, <2>6, NextRunIsFirst
  <2>8. Late(NextRun(schedule[j], From(j))) BY <2>2, <2>3, <2>5, <2>6, <2>7 DEF Late, Times
  <2> QED BY <2>8 DEF Overdue, Listed
<1> QED BY <1>1, Invariant, PTL

=============================================================================
