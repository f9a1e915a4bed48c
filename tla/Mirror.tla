------------------------------- MODULE Mirror -------------------------------
(***************************************************************************)
(* A sync job (mirror.go): its runs and the previews a user asks for at    *)
(* any time, over a target that comes and goes.  rsync serves local and    *)
(* ssh targets in one command, rclone sftp and cloud targets with one      *)
(* command per source folder.  The engine keeps runs of the job apart; a   *)
(* preview may go on beside a run and beside edits of the job.             *)
(*                                                                         *)
(* rsync, rclone, ssh-keygen, ssh-keyscan, the mount table and the source  *)
(* folders are external.  The two tools copy a file at a time, and delete  *)
(* what they did not find in the source once they read all of it.          *)
(***************************************************************************)
EXTENDS Targets

CONSTANTS
    Folders,      \* source folders that jobs may name, as paths
    Files,        \* files in them
    Jobs,         \* jobs a user may ask for: [sources, target, delete], target [type, path]
    Fixed,        \* lines of the mount table that stay
    Removable,    \* what comes and goes: sets of lines, one for each disk or share
    Disk,         \* Disk[dev]: the disk of a block device
    Hosts,        \* servers with shares
    Worlds,       \* what may be so of the host of a share
    ProbeNames,   \* names for probe files
    Remote,       \* the place of ssh, sftp and cloud targets
    None,
    MaxRuns, MaxEdits, MaxChanges, MaxFaults   \* bounds

VARIABLES
    job,          \* [sources, target, delete]
    src,          \* src[s]: the files in s, None if s is gone
    mtab, dirs,   \* the mount table, the folders that exist
    net,          \* the remote host answers
    tree,         \* {<<place, folder, file>>}: what the targets hold
    key,          \* the ssh key: [priv, pub], 0 if not there
    told,         \* public keys that were read (history variable)
    known,        \* known_hosts has the host
    proc,         \* proc[p]: the run and the preview
    last,         \* how the last run ended, None before
    steady,       \* <<s, f>>: in the source since the run began (history variable)
    kept,         \* <<s, f>>: copied by a run, in the source ever since (history variable)
    misled,       \* what the last reason for a missing share was worth (history variable)
    probes,       \* {<<name, place>>}: the probe files there are
    used          \* what was used of the bounds

Procs == {"run", "preview"}

Lines == Fixed \cup UNION Removable

vars == <<job, src, mtab, dirs, net, tree, key, told, known, proc, last, steady, kept, misled, probes,
          used>>

Codes == {"completed", "empty", "partial", "failed", "cancelled", "target_unavailable"}
Good == {"completed", "empty"}

Local(t) == t.type = "local"
Rsync(t) == t.type \in {"local", "ssh"}

\* Where the job means its copies to be.
Home(t) == IF Local(t) THEN <<DeviceOf(Lines, t.path), t.path>> ELSE Remote

Base(s) == Last(s)

ASSUME JobsAssumption ==
    \A j \in Jobs : j.sources \subseteq Folders /\ (Local(j.target) => j.target.path \in Seq(STRING))

\* The root stays, and nothing is mounted twice at one point.
ASSUME MountsAssumption ==
    /\ \A l \in Lines : l.at \in Seq(STRING)
    /\ \A k, l \in Lines : k.at = l.at => k = l
    /\ \E l \in Fixed : l.at = <<>>
    /\ \A d \in Removable : d \cap Fixed = {}

\* What is mounted below a container mount is another device, or one more
\* partition of the system disk (localfs.go:22-24).
ASSUME ContainersAssumption ==
    \A k, l \in Lines :
        k.at \in ContainerMounts /\ k.at \in Above(l.at) \ {l.at} /\ k.dev = l.dev =>
            l.at # DATA /\ IsBlock(l, Disk) /\ Disk[l.dev] \in SystemDisk(Fixed, Disk)

ASSUME NoneAssumption == None \notin Codes

ASSUME WorldsAssumption == \A w \in Worlds : Sensible(w)

IdleProc == [pc |-> "idle", job |-> None, rest |-> {}, list |-> [s \in {} |-> None], left |-> {}, place |-> None,
             dead |-> FALSE, lost |-> FALSE, raced |-> FALSE, moved |-> FALSE, vanished |-> FALSE,
             saw |-> FALSE, errors |-> FALSE, probe |-> {}]

dry(p) == p = "preview"

-----------------------------------------------------------------------------
(* validate: what a job may be *)

Nested(a, b) == a \in Above(b) \/ b \in Above(a)

\* Slip: two folders of one name are accepted.
SlipSameName(sources) == TRUE

\* No two folders of a job land in the same folder of the target.
NamesDiffer(sources) == \A s, r \in sources : Base(s) = Base(r) => s = r

Valid(j) ==
    /\ j.sources # {}
    /\ \A s \in j.sources : s[1] \in {"DATA", "media", "mnt"}
    /\ Local(j.target) => /\ j.target.path[1] \in {"DATA", "media", "mnt"}
                          /\ ~IsCloudMount(mtab, Disk, j.target.path)
                          /\ \A s \in j.sources : ~Nested(s, j.target.path)
    /\ NamesDiffer(j.sources)

Init ==
    /\ mtab = Lines
    /\ dirs = {<<l.dev, l.at>> : l \in mtab}
    /\ job \in {j \in Jobs : Valid(j)}
    /\ src = [s \in Folders |-> Files]
    /\ net = TRUE
    /\ tree = {}
    /\ key = [priv |-> 0, pub |-> 0]
    /\ told = {}
    /\ known = FALSE
    /\ proc = [p \in Procs |-> IdleProc]
    /\ last = None
    /\ steady = {}
    /\ kept = {}
    /\ misled = "so"
    /\ probes = {}
    /\ used = [runs |-> 0, edits |-> 0, changes |-> 0, faults |-> 0]

-----------------------------------------------------------------------------
Uses(what, bound) == used[what] < bound /\ used' = [used EXCEPT ![what] = @ + 1]
Faulty == Uses("faults", MaxFaults)
Changes == Uses("changes", MaxChanges)

At(p, pc) == proc[p].pc = pc

Goes(p, pc) == proc' = [proc EXCEPT ![p].pc = pc] /\ UNCHANGED <<last, steady, kept>>

\* p ends with code.
Ends(p, code) ==
    /\ proc' = [proc EXCEPT ![p] = IdleProc]
    /\ last' = IF p = "run" THEN code ELSE last
    /\ steady' = IF p = "run" THEN {} ELSE steady
    /\ kept' = IF p = "run" /\ code \in Good /\ proc[p].place = Home(job.target)
               THEN kept \cup {x \in steady : x[1] \in proc[p].job.sources \cap job.sources}
               ELSE kept

EnvUnchanged == UNCHANGED <<job, src, mtab, dirs, net>>
KeyUnchanged == UNCHANGED <<key, told, known>>

\* What the target needs first; sftp with a password needs no key.
FirstStep(t) ==
    CASE Local(t) -> "check"
      [] t.type \in {"ssh", "sftp"} -> "key"
      [] t.type = "sftp_password" -> "scan"
      [] OTHER -> "launch"

\* The engine starts a run, or a user asks for a preview.
Start(p) ==
    /\ At(p, "idle")
    /\ Uses("runs", MaxRuns)
    /\ proc' = [proc EXCEPT ![p].pc = FirstStep(job.target),
                            ![p].job = job,
                            ![p].rest = job.sources]
    /\ steady' = IF p = "run" THEN {x \in Folders \X Files : src[x[1]] # None /\ x[2] \in src[x[1]]}
                 ELSE steady
    /\ last' = IF p = "run" THEN None ELSE last
    /\ misled' = "so"
    /\ EnvUnchanged /\ KeyUnchanged
    /\ UNCHANGED <<tree, kept, probes>>

-----------------------------------------------------------------------------
(* The target: localfs, sshkey *)

Path(p) == proc[p].job.target.path

Accepted(p) == ~IsCloudMount(mtab, Disk, Path(p)) /\ Check(mtab, dirs, Path(p))

\* What the reasons that netpath may give are worth, in time or in a run
\* that is dead already.
Verdicts == {Verdict(w, late) : w \in Worlds, late \in SUBSET Asks}
VerdictsDead == {Verdict(w, Asks) : w \in Worlds}

\* A share that is missing is explained.
Refuse(p) ==
    /\ At(p, "check")
    /\ ~Accepted(p)
    /\ Ends(p, IF IsCloudMount(mtab, Disk, Path(p)) THEN "failed" ELSE "target_unavailable")
    /\ IF IsShare(Path(p), Hosts) /\ ~Check(mtab, dirs, Path(p))
       THEN misled' \in IF proc[p].dead THEN VerdictsDead ELSE Verdicts
       ELSE UNCHANGED misled
    /\ EnvUnchanged /\ KeyUnchanged
    /\ UNCHANGED <<tree, probes, used>>

\* A preview makes no folders.
AfterCheck(p) == IF dry(p) THEN "probe" ELSE "mkdir"

Accept(p) ==
    /\ At(p, "check")
    /\ Accepted(p)
    /\ Goes(p, AfterCheck(p))
    /\ EnvUnchanged /\ KeyUnchanged
    /\ UNCHANGED <<tree, misled, probes, used>>

\* EnsureTarget after its check.
MakeDirs(p) ==
    /\ At(p, "mkdir")
    /\ \/ /\ dirs' = WithFolders(mtab, dirs, Path(p))
          /\ Goes(p, "probe")
          /\ UNCHANGED used
       \/ /\ Faulty
          /\ Ends(p, "target_unavailable")
          /\ UNCHANGED dirs
    /\ KeyUnchanged
    /\ UNCHANGED <<job, src, mtab, net, tree, misled, probes>>

ProbeFolder(p) == Existing(mtab, dirs, Path(p))

\* probeTarget: a file of a new name, in the target or the nearest folder
\* above it; without it nothing is measured.
MakeProbe(p) ==
    /\ At(p, "probe")
    /\ LET place == <<DeviceOf(mtab, ProbeFolder(p)), ProbeFolder(p)>>
           free == {<<n, place>> : n \in ProbeNames} \ probes
       IN  \/ /\ free # {}
              /\ proc' = [proc EXCEPT ![p].pc = "probed", ![p].probe = {CHOOSE f \in free : TRUE}]
              /\ probes' = probes \cup proc'[p].probe
              /\ UNCHANGED <<last, steady, kept>>
           \/ Goes(p, "launch") /\ UNCHANGED probes
    /\ EnvUnchanged /\ KeyUnchanged
    /\ UNCHANGED <<tree, misled, used>>

\* The path of f leads to it.
Reached(f) == DeviceOf(mtab, f[2][2]) = f[2][1]

\* Slip: the probe file of a preview stays.
SlipStays(p) == IF dry(p) THEN {} ELSE proc[p].probe

Removed(p) == {f \in proc[p].probe : Reached(f)}

RemoveProbe(p) ==
    /\ At(p, "probed")
    /\ proc' = [proc EXCEPT ![p].pc = "launch", ![p].probe = {}]
    /\ probes' = probes \ Removed(p)
    /\ EnvUnchanged /\ KeyUnchanged
    /\ UNCHANGED <<tree, last, steady, kept, misled, used>>

AfterKey(p) == IF proc[p].job.target.type = "ssh" THEN "launch" ELSE "scan"

\* Public: the key is there, or it has to be made first.
FindKey(p) ==
    /\ At(p, "key")
    /\ IF key.priv = 0 THEN Goes(p, "keygen") /\ UNCHANGED told
       ELSE IF key.pub = 0 THEN Ends(p, "failed") /\ UNCHANGED told
       ELSE Goes(p, AfterKey(p)) /\ told' = told \cup {key.pub}
    /\ EnvUnchanged
    /\ UNCHANGED <<key, known, tree, misled, probes, used>>

\* Slip: a key that is there meanwhile is replaced.
SlipOverwrites == TRUE

\* ssh-keygen asks before it overwrites, and nobody answers.
MayWrite == key.priv = 0

NewKey == 1 + Max({key.priv} \cup told)

GenerateKey(p) ==
    /\ At(p, "keygen")
    /\ IF MayWrite THEN Goes(p, "keypub") /\ key' = [priv |-> NewKey, pub |-> key.pub]
       ELSE Ends(p, "failed") /\ UNCHANGED key
    /\ EnvUnchanged
    /\ UNCHANGED <<told, known, tree, misled, probes, used>>

\* ssh-keygen writes the public half second; then it is read.
PublishKey(p) ==
    /\ At(p, "keypub")
    /\ key' = [key EXCEPT !.pub = key.priv]
    /\ told' = told \cup {key'.pub}
    /\ Goes(p, AfterKey(p))
    /\ EnvUnchanged
    /\ UNCHANGED <<known, tree, misled, probes, used>>

\* HostKeyTypes: a host that is not recorded is scanned once.
Scan(p) ==
    /\ At(p, "scan")
    /\ known' = (known \/ net)
    /\ IF known' THEN Goes(p, "launch") ELSE Ends(p, "target_unavailable")
    /\ EnvUnchanged
    /\ UNCHANGED <<key, told, tree, misled, probes, used>>

\* The password cannot be obscured, the key cannot be made, known_hosts not
\* written, the tool not started.
Unprepared(p) ==
    /\ proc[p].pc \in {"key", "keygen", "scan", "launch"}
    /\ Faulty
    /\ Ends(p, IF At(p, "launch") /\ proc[p].dead THEN "cancelled" ELSE "failed")
    /\ EnvUnchanged /\ KeyUnchanged
    /\ UNCHANGED <<tree, misled, probes>>

-----------------------------------------------------------------------------
(* The tools *)

Target(p) == proc[p].job.target

\* The folder the tool writes to, as its path leads there now.
PlaceNow(p) == IF Local(Target(p)) THEN <<DeviceOf(mtab, Path(p)), Path(p)>> ELSE Remote

\* rsync makes the last folder of its target, not those above it.
HasPlace(p) ==
    Local(Target(p)) /\ ~dry(p) =>
        Exists(mtab, dirs, Path(p)) \/ Exists(mtab, dirs, Front(Path(p)))

FilesIn(list) == {x \in (DOMAIN list) \X Files : list[x[1]] # None /\ x[2] \in list[x[1]]}

\* The tool has read the folders in work.
Reading(p, work) ==
    LET list == [s \in work |-> src[s]]
    IN  [proc[p] EXCEPT !.pc = "tool", !.rest = @ \ work,
                        !.list = list,
                        !.left = IF dry(p) THEN {} ELSE FilesIn(list),
                        !.place = PlaceNow(p),
                        !.lost = Target(p).type # "local" /\ ~net,
                        !.moved = FALSE, !.vanished = FALSE,
                        !.saw = @ \/ FilesIn(list) # {}]

\* One rsync reads all folders, one rclone one of them.
Launch(p) ==
    /\ At(p, "launch")
    /\ ~proc[p].dead
    /\ HasPlace(p)
    /\ \E work \in (IF Rsync(Target(p)) THEN {proc[p].rest} ELSE {{s} : s \in proc[p].rest}) :
          proc' = [proc EXCEPT ![p] = Reading(p, work)]
    /\ dirs' = IF Local(Target(p)) /\ ~dry(p) THEN WithFolders(mtab, dirs, Path(p)) ELSE dirs
    /\ KeyUnchanged
    /\ UNCHANGED <<job, src, mtab, net, tree, last, kept, steady, misled, probes, used>>

\* CommandContext does not start under a dead context; rsync finds no target.
NotLaunched(p) ==
    /\ At(p, "launch")
    /\ proc[p].dead \/ ~HasPlace(p)
    /\ Ends(p, IF proc[p].dead THEN "cancelled" ELSE "failed")
    /\ EnvUnchanged /\ KeyUnchanged
    /\ UNCHANGED <<tree, misled, probes, used>>

Working(p) == At(p, "tool") /\ ~proc[p].lost

CopyFile(p) ==
    /\ Working(p)
    /\ \E e \in proc[p].left :
          LET s == e[1]
              there == src[s] # None /\ e[2] \in src[s]
              copy == <<proc[p].place, Base(s), e[2]>>
          IN  /\ tree' = IF there THEN tree \cup {copy} ELSE tree
              /\ proc' = [proc EXCEPT ![p].left = @ \ {e},
                                      ![p].moved = @ \/ (tree' # tree /\ ~Rsync(Target(p))),
                                      ![p].vanished = @ \/ ~there]
    /\ EnvUnchanged /\ KeyUnchanged
    /\ UNCHANGED <<last, kept, steady, misled, probes, used>>

Gone(p) == \E s \in DOMAIN proc[p].list : proc[p].list[s] = None

\* What the tool finds in the target and not in the source.
Extra(p) ==
    {e \in tree : /\ e[1] = proc[p].place
                  /\ e[2] \in {Base(s) : s \in DOMAIN proc[p].list}
                  /\ \A x \in FilesIn(proc[p].list) : e # <<proc[p].place, Base(x[1]), x[2]>>}

\* Both tools keep everything when a folder could not be read; rclone
\* deletes after it copied without an error.
Deletes(p) ==
    /\ proc[p].job.delete /\ ~dry(p) /\ ~Gone(p)
    /\ Rsync(Target(p)) \/ (proc[p].left = {} /\ ~proc[p].vanished)

DeleteFile(p) ==
    /\ Working(p)
    /\ Deletes(p)
    /\ \E e \in Extra(p) : tree' = tree \ {e}
    /\ EnvUnchanged /\ KeyUnchanged
    /\ UNCHANGED <<proc, last, kept, steady, misled, probes, used>>

Done(p) == Working(p) /\ proc[p].left = {} /\ (Deletes(p) => Extra(p) = {})

\* How rsync exits by itself.
RsyncExits(p) ==
    {x \in {0, 24} : Done(p) /\ ~Gone(p) /\ (x = 24 <=> proc[p].vanished)}
    \cup {x \in {23} : Done(p) /\ Gone(p)}
    \cup {x \in {11, 23} : proc[p].lost /\ Local(Target(p))}
    \cup {x \in {10, 12, 30, 35, 255} : proc[p].lost /\ ~Local(Target(p))}

\* Slip: an exit code that is not listed is passed on.
SlipNoDefault(exit, seen, saw) ==
    CASE exit \in {0, 24} -> IF ~seen THEN "failed" ELSE IF saw THEN "completed" ELSE "empty"
      [] exit = 23 -> "partial"
      [] exit \in {10, 12, 30, 35, 255} -> "target_unavailable"
      [] OTHER -> ""

RsyncCode(exit, seen, saw) ==
    CASE exit \in {0, 24} -> IF ~seen THEN "failed" ELSE IF saw THEN "completed" ELSE "empty"
      [] exit = 23 -> "partial"
      [] exit \in {10, 12, 30, 35, 255} -> "target_unavailable"
      [] OTHER -> "failed"

\* Slip: the dead context is noticed only when rsync failed.
SlipExitFirst(p, code) == IF proc[p].dead /\ code \notin Good THEN "cancelled" ELSE code

\* A dead context is looked at before the exit.
Judged(p, code) == IF proc[p].dead THEN "cancelled" ELSE code

RsyncEnds(p) ==
    /\ At(p, "tool") /\ Rsync(Target(p))
    /\ \/ /\ \E x \in RsyncExits(p) : Ends(p, Judged(p, RsyncCode(x, TRUE, proc[p].saw)))
          /\ UNCHANGED used
       \/ /\ Faulty   \* an error of its own, or an end without statistics
          /\ \E x \in {1, 23} \cup RsyncExits(p) : Ends(p, Judged(p, RsyncCode(x, FALSE, proc[p].saw)))
    /\ EnvUnchanged /\ KeyUnchanged
    /\ UNCHANGED <<tree, misled, probes>>

\* How rclone exits with an error: whether it counted one, and its last message.
RcloneErrors(p) ==
    {x \in {<<TRUE, "not_found">>} : Working(p) /\ Gone(p)}
    \cup {x \in {<<TRUE, "other">>} : Working(p) /\ proc[p].left = {} /\ proc[p].vanished}
    \cup {x \in BOOLEAN \X {"unreachable", "other"} : proc[p].lost}

RcloneCode(moved, errors, msg) ==
    IF moved \/ (errors /\ msg = "other") THEN "partial"
    ELSE IF msg = "other" THEN "failed" ELSE "target_unavailable"

\* rclone tries again after an error.
Retry(p) ==
    /\ Working(p) /\ ~Rsync(Target(p))
    /\ proc[p].left = {} /\ proc[p].vanished
    /\ LET list == [s \in DOMAIN proc[p].list |-> src[s]]
       IN  proc' = [proc EXCEPT ![p].list = list, ![p].left = FilesIn(list), ![p].vanished = FALSE]
    /\ EnvUnchanged /\ KeyUnchanged
    /\ UNCHANGED <<tree, last, kept, steady, misled, probes, used>>

RcloneFails(p) ==
    /\ At(p, "tool") /\ ~Rsync(Target(p))
    /\ \/ /\ \E x \in RcloneErrors(p) : Ends(p, Judged(p, RcloneCode(proc[p].moved, x[1], x[2])))
          /\ UNCHANGED used
       \/ /\ Faulty
          /\ Ends(p, Judged(p, RcloneCode(proc[p].moved, TRUE, "other")))
    /\ EnvUnchanged /\ KeyUnchanged
    /\ UNCHANGED <<tree, misled, probes>>

\* A folder is done: the next one, or the result.  An exit without an
\* error may still have counted some.
RcloneEnds(p) ==
    /\ Done(p) /\ ~Rsync(Target(p)) /\ ~Gone(p) /\ ~proc[p].vanished
    /\ \E errors \in {proc[p].errors, TRUE} :
          /\ IF errors = proc[p].errors THEN UNCHANGED used ELSE Faulty
          /\ IF proc[p].dead THEN Ends(p, "cancelled")
             ELSE IF proc[p].rest = {} THEN Ends(p, IF errors THEN "partial" ELSE "completed")
             ELSE /\ proc' = [proc EXCEPT ![p].pc = "launch", ![p].errors = errors]
                  /\ UNCHANGED <<last, steady, kept>>
    /\ EnvUnchanged /\ KeyUnchanged
    /\ UNCHANGED <<tree, misled, probes>>

\* A dead context kills the tool, and its pipes are given up soon after.
Die(p) ==
    /\ At(p, "tool") /\ proc[p].dead
    /\ Ends(p, "cancelled")
    /\ EnvUnchanged /\ KeyUnchanged
    /\ UNCHANGED <<tree, misled, probes, used>>

-----------------------------------------------------------------------------
(* Around the runs *)

\* Cancel, Delete or the timeout of a run; the browser or the deadline of a preview.
Cancel(p) ==
    /\ ~At(p, "idle") /\ ~proc[p].dead
    /\ proc' = [proc EXCEPT ![p].dead = TRUE]
    /\ EnvUnchanged /\ KeyUnchanged
    /\ UNCHANGED <<tree, last, kept, steady, misled, probes, used>>

\* The job is edited; what another target or other folders hold is no longer its copy.
Save(j) ==
    /\ Uses("edits", MaxEdits)
    /\ j # job /\ Valid(j)
    /\ job' = j
    /\ kept' = {x \in kept : x[1] \in j.sources /\ j.target = job.target}
    /\ KeyUnchanged
    /\ UNCHANGED <<src, mtab, dirs, net, tree, proc, last, steady, misled, probes>>

\* A folder changes, goes (its disk does), or is back.
Change(s) ==
    /\ Changes
    /\ \E fs \in ((SUBSET Files) \cup {None}) \ {src[s]} :
          /\ src' = [src EXCEPT ![s] = fs]
          /\ steady' = {x \in steady : x[1] # s \/ (fs # None /\ x[2] \in fs)}
          /\ kept' = {x \in kept : x[1] # s \/ fs = None \/ x[2] \in fs}
    /\ KeyUnchanged
    /\ UNCHANGED <<job, mtab, dirs, net, tree, proc, last, misled, probes>>

\* The processes that work with what went away.
Without(p, gone) ==
    [proc[p] EXCEPT !.lost = @ \/ (At(p, "tool") /\ gone),
                    !.raced = @ \/ (proc[p].pc \in {"mkdir", "probe", "probed", "launch"} /\ gone)]

\* A disk or share goes; its mount point may stay as an empty folder.
Unmount(d) ==
    /\ d \subseteq mtab
    /\ Changes
    /\ mtab' = mtab \ d
    /\ \E stays \in BOOLEAN :
          dirs' = IF stays THEN dirs \cup {<<DeviceOf(mtab', l.at), l.at>> : l \in d} ELSE dirs
    /\ proc' = [p \in Procs |->
                  IF At(p, "idle") \/ ~Local(Target(p)) THEN proc[p]
                  ELSE Without(p, IF At(p, "tool") THEN proc[p].place[1] \in {l.dev : l \in d}
                                  ELSE \E l \in d : l.at \in Above(Path(p)))]
    /\ KeyUnchanged
    /\ UNCHANGED <<job, src, net, tree, last, kept, steady, misled, probes>>

Mount(d) ==
    /\ ~(d \subseteq mtab)
    /\ mtab' = mtab \cup d
    /\ KeyUnchanged
    /\ UNCHANGED <<job, src, dirs, net, tree, proc, last, kept, steady, misled, probes, used>>

NetFails ==
    /\ net /\ Changes
    /\ net' = FALSE
    /\ proc' = [p \in Procs |-> IF At(p, "idle") \/ Local(Target(p)) THEN proc[p] ELSE Without(p, TRUE)]
    /\ KeyUnchanged
    /\ UNCHANGED <<job, src, mtab, dirs, tree, last, kept, steady, misled, probes>>

NetReturns ==
    /\ ~net
    /\ net' = TRUE
    /\ KeyUnchanged
    /\ UNCHANGED <<job, src, mtab, dirs, tree, proc, last, kept, steady, misled, probes, used>>

\* The daemon is killed, and its tools with it; it is up again with no run
\* and no result of one.
Kill ==
    /\ \E p \in Procs : ~At(p, "idle")
    /\ Faulty
    /\ proc' = [p \in Procs |-> IdleProc]
    /\ last' = IF At("run", "idle") THEN last ELSE None
    /\ steady' = {}
    /\ EnvUnchanged /\ KeyUnchanged
    /\ UNCHANGED <<tree, kept, misled, probes>>

\* The steps of the module itself.
OwnStep(p) ==
    \/ Refuse(p) \/ Accept(p) \/ MakeDirs(p) \/ MakeProbe(p) \/ RemoveProbe(p)
    \/ FindKey(p) \/ GenerateKey(p) \/ PublishKey(p) \/ Scan(p)
    \/ Launch(p) \/ NotLaunched(p) \/ Die(p)

ToolStep(p) ==
    \/ CopyFile(p) \/ DeleteFile(p) \/ RsyncEnds(p)
    \/ Retry(p) \/ RcloneFails(p) \/ RcloneEnds(p)

Next ==
    \/ \E p \in Procs : Start(p) \/ OwnStep(p) \/ ToolStep(p) \/ Unprepared(p) \/ Cancel(p)
    \/ \E j \in Jobs : Save(j)
    \/ \E s \in Folders : Change(s)
    \/ \E d \in Removable : Unmount(d) \/ Mount(d)
    \/ NetFails \/ NetReturns \/ Kill

Spec == Init /\ [][Next]_vars

-----------------------------------------------------------------------------
Paths == {j.target.path : j \in {k \in Jobs : Local(k.target)}}
Places == {Remote} \cup ({l.dev : l \in Lines} \X Paths)

TypeOK ==
    /\ job \in Jobs
    /\ src \in [Folders -> (SUBSET Files) \cup {None}]
    /\ mtab \subseteq Lines /\ Fixed \subseteq mtab
    /\ tree \subseteq Places \X {Base(s) : s \in Folders} \X Files
    /\ key.priv \in 0..1 /\ key.pub \in {0, key.priv} /\ told \subseteq {1}
    /\ last \in Codes \cup {None}
    /\ misled \in {"so", "excused", "wrong"}
    /\ probes \subseteq ProbeNames \X ({l.dev : l \in Lines} \X UNION {Above(t) : t \in Paths})
    /\ kept \subseteq Folders \X Files
    /\ \A p \in Procs : proc[p].left \subseteq FilesIn(proc[p].list)

\* What a run mirrored and what is in the source ever since is in the copy,
\* whatever runs, previews, edits, cancellations and errors came after,
\* also while the source folder is missing (mirror.go:1-5).
KeptIsThere == \A x \in kept : <<Home(job.target), Base(x[1]), x[2]>> \in tree

\* A tool writes to the place the job names.  Only when the disk goes after
\* the check does the path lead to the system disk (localfs.go:1-2), and a
\* folder that was left behind this way does not admit the next run.
WritesHome ==
    \A p \in Procs :
        At(p, "tool") /\ ~dry(p) => proc[p].place = Home(Target(p)) \/ proc[p].raced

\* Probe files that nobody is about to remove.
Litter == probes \ UNION {proc[p].probe : p \in Procs}

\* A preview changes no file and no folder at the target (mirror.go:135),
\* and the probe file that it or a run makes there is gone before the tool
\* starts, unless its disk went first or the daemon was killed
\* (mirror.go:255-277).
PreviewTouchesNothing ==
    [][/\ proc'["preview"] # proc["preview"] /\ proc'["run"] = proc["run"] /\ mtab' = mtab
             => tree' = tree /\ dirs' = dirs
       /\ Kill \/ \A f \in Litter' \ Litter : ~Reached(f)]_vars

\* A run that was cancelled never ends as a success, and none ends as
\* cancelled that was not (mirror.go:210, 489).
CancelIsHonest ==
    [][~At("run", "idle") /\ proc'["run"].pc = "idle" =>
          /\ proc["run"].dead => last' \notin Good
          /\ last' = "cancelled" => proc["run"].dead]_vars

\* Every volume that is offered as a target, cloud mounts apart, is one a
\* run accepts, whatever came, went or was left behind: mounts.go and
\* localfs.go agree on what a disk is.
OfferedIsAccepted ==
    (\A p \in Procs : At(p, "idle")) =>
        \A v \in Volumes(mtab, Disk) :
            Kind(v, Disk) # "cloud" => Check(mtab, dirs, v.at \o <<"backups">>)

\* A reason for a missing share leads the user to what is broken
\* (netpath.go:1-11), also when answers come late or the run is cancelled
\* meanwhile: it is not so only where netpath cannot know better.
NeverMisled == misled # "wrong"

\* A public key the user was shown stays the key of the module.
OneKey == told \subseteq {key.priv}

\* Not so: "a folder that is empty at run time ends with a yellow nothing to
\* back up instead of a green success" (README.md:81).
EmptyIsYellow ==
    [][~At("run", "idle") /\ proc'["run"].pc = "idle" /\ last' = "completed"
       => proc["run"].saw]_vars

=============================================================================
