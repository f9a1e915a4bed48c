------------------------------ MODULE Targets -------------------------------
(***************************************************************************)
(* Where a local target lies: the volumes the module offers (mounts.go)    *)
(* and the rule that a target must sit on a mounted disk, never inside an  *)
(* empty mount point (localfs.go); and why the host of a network share is  *)
(* not there (netpath.go).                                                 *)
(*                                                                         *)
(* A path is a sequence of names, a line of the mount table a record       *)
(* [dev, fs, at].  mtab is a set of lines, dirs the set of <<dev, path>>   *)
(* that exist as folders.                                                  *)
(***************************************************************************)
EXTENDS Integers, Sequences, SequencesExt, FiniteSets

DATA == <<"DATA">>
Media == <<"media">>
Mnt == <<"mnt">>

\* main: the filesystems a target must not end up on.
ContainerMounts == {<<>>, Media, Mnt}

\* p and the folders above it.
Above(p) == {SubSeq(p, 1, i) : i \in 0..Len(p)}

Under(p, q) == Len(p) > Len(q) /\ SubSeq(p, 1, Len(q)) = q

Deepest(ps) == CHOOSE p \in ps : \A q \in ps : Len(q) <= Len(p)

-----------------------------------------------------------------------------
(* localfs *)

\* The device that holds p.
DeviceOf(mtab, p) ==
    LET ls == {l \in mtab : Len(l.at) <= Len(p) /\ l.at = SubSeq(p, 1, Len(l.at))}
    IN  (CHOOSE l \in ls : \A k \in ls : Len(k.at) <= Len(l.at)).dev

Exists(mtab, dirs, p) == <<DeviceOf(mtab, p), p>> \in dirs

\* Slip: the walk up goes one folder too far.
SlipOneTooFar(mtab, d) ==
    Deepest({Front(a) : a \in {b \in Above(d) \ {<<>>} :
                                 DeviceOf(mtab, b) # DeviceOf(mtab, Front(b))}} \cup {<<>>})

\* From d up until the device changes.
MountPoint(mtab, d) ==
    Deepest({a \in Above(d) : a = <<>> \/ DeviceOf(mtab, a) # DeviceOf(mtab, Front(a))})

\* The nearest folder that exists.
Existing(mtab, dirs, p) == Deepest({a \in Above(p) : Exists(mtab, dirs, a)})

\* Slip: a folder that exists is taken for a mounted disk.
SlipExistsIsEnough(mtab, dirs, p) ==
    \/ Exists(mtab, dirs, p)
    \/ MountPoint(mtab, Existing(mtab, dirs, p)) \notin ContainerMounts

\* The nearest existing folder lies on a disk, a pool, a share or /DATA.
Check(mtab, dirs, p) == MountPoint(mtab, Existing(mtab, dirs, p)) \notin ContainerMounts

\* MkdirAll.
WithFolders(mtab, dirs, p) == dirs \cup {<<DeviceOf(mtab, a), a>> : a \in Above(p)}

\* /media/<host>/<share>/...: the host carries a dot.
IsShare(p, hosts) == Len(p) >= 3 /\ p[1] = "media" /\ p[2] \in hosts

-----------------------------------------------------------------------------
(* mounts *)

\* The system disk is shown as /DATA alone: its other partitions and the
\* bind of /media are left out.
SystemDisk(mtab, disk) == {disk[l.dev] : l \in {k \in mtab : k.at = DATA}}

IsBlock(l, disk) == l.dev \in DOMAIN disk

Hidden == {".media"}   \* names under /DATA that begin with a dot

Kind(l, disk) ==
    CASE l.at = DATA -> "system"
      [] l.fs = "fuse.rclone" /\ Under(l.at, Media) -> "cloud"
      [] l.fs = "fuse.mergerfs" /\ Under(l.at, DATA) -> "pool"
      [] l.fs \in {"cifs", "smb3"} /\ Under(l.at, Media) -> IF Len(l.at) = 3 THEN "lan" ELSE "none"
      [] IsBlock(l, disk) /\ (\/ l.at # <<>> /\ Front(l.at) \in {Media, Mnt}
                              \/ Under(l.at, DATA) /\ l.at[2] \notin Hidden) -> "disk"
      [] OTHER -> "none"

Candidates(mtab, disk) ==
    LET system == SystemDisk(mtab, disk)
    IN  {l \in mtab : /\ Kind(l, disk) # "none"
                      /\ IsBlock(l, disk) /\ l.at # DATA => disk[l.dev] \notin system}

\* A block device is shown once, by its mount under /media if it has one.
NamedBy(ls) ==
    IF \E l \in ls : Under(l.at, Media) THEN CHOOSE l \in ls : Under(l.at, Media)
    ELSE CHOOSE l \in ls : TRUE

\* The volumes List shows.
Volumes(mtab, disk) ==
    LET shown == Candidates(mtab, disk)
    IN  {l \in shown : IsBlock(l, disk) => l = NamedBy({k \in shown : k.dev = l.dev})}

IsCloudMount(mtab, disk, p) ==
    \E v \in Volumes(mtab, disk) : Kind(v, disk) = "cloud" /\ v.at \in Above(p)

-----------------------------------------------------------------------------
(* netpath: why the host of a share is not there.  A world is what is so:   *)
(*   name     how the share names the host: "ts.net" by its suffix,        *)
(*            "tailnet" another name Tailscale gave it, its "address", or  *)
(*            a name from elsewhere, "other"                               *)
(*   addrs    where the name leads: "none", "cgnat" or "lan"               *)
(*   mesh     whether the way there is this box's Tailscale                *)
(*   ts       Tailscale here: "absent", or tailscaled's BackendState       *)
(*   peer     what tailscaled says of the machine: "none", "offline" or    *)
(*            "online"                                                     *)
(*   net      the network of the interface that reaches a lan address      *)
(*   up       whether the machine takes connections on the SMB port        *)

\* findPeer compares the host as it is written.
Matches(w) == w.name \in {"ts.net", "tailnet"} \/ (w.name = "address" /\ w.addrs = "cgnat")

\* Only Tailscale names and lists what it leads to.
Sensible(w) ==
    /\ w.name = "ts.net" \/ (Matches(w) /\ w.peer # "none") => w.mesh
    /\ w.name = "address" => w.addrs # "none"
    /\ w.ts = "absent" => w.peer = "none"
    /\ w.net # "tailscale"

\* A connection to the machine's address comes about.
Answers(w) == w.up /\ (w.mesh => w.ts = "Running" /\ w.peer # "none")

\* The share is missing and nothing else: there is an address, and it answers.
OnlyMountMissing(w) ==
    Answers(w) /\ (w.addrs # "none" \/ (Matches(w) /\ w.peer # "none"))

\* What netpath asks; each answer may come too late, all of them when the
\* run is cancelled.
Asks == {"lookup", "status", "dial"}

\* What netpath finds.
Found(w, late) ==
    [name |-> w.name,
     addrs |-> IF "lookup" \in late /\ w.name # "address" THEN "none" ELSE w.addrs,
     ts |-> IF "status" \in late THEN "mute" ELSE w.ts,
     peer |-> IF Matches(w) THEN w.peer ELSE "none",
     net |-> w.net,
     answers |-> "dial" \notin late /\ Answers(w)]

HaveStatus(f) == f.ts \notin {"absent", "mute"}

ViaTailscale(f) ==
    \/ f.name = "ts.net" \/ f.addrs = "cgnat"
    \/ HaveStatus(f) /\ f.peer # "none"

\* Slip: without an address of its own the peer is not called.
SlipNamesOnly(f) == f.addrs # "none"

\* An address to call; the peer's own if the name does not resolve.
HasAddress(f) == f.addrs # "none" \/ ViaTailscale(f)

Answer(f, net) ==
    [kind |-> IF HasAddress(f) /\ f.answers THEN "reachable" ELSE "unreachable",
     net |-> net]

Explain(f) ==
    IF ~ViaTailscale(f) THEN Answer(f, IF f.addrs = "none" THEN "lan" ELSE f.net)
    ELSE LET verdict == CASE f.ts # "Running" -> "ts_stopped"
                          [] f.ts = "Running" /\ f.peer = "none" -> "ts_no_peer"
                          [] f.ts = "Running" /\ f.peer = "offline" -> "ts_offline"
                          [] OTHER -> "online"
         IN  IF verdict = "online" THEN Answer(f, "tailscale")
             ELSE [kind |-> verdict, net |-> "tailscale"]

\* The reason leads the user to what is broken: the share and nothing else
\* exactly when that is so, and Tailscale only when it is the way there.
Holds(w, r) ==
    /\ r.kind = "reachable" <=> OnlyMountMissing(w)
    /\ r.net = "tailscale" => w.mesh

\* What netpath cannot know: an answer that came too late, or Tailscale's
\* word that a peer which answers is offline, make a way that works look
\* broken; others may use Tailscale's addresses, or names of their own for
\* its peers.
Excused(w, late) ==
    \/ OnlyMountMissing(w) /\ (late # {} \/ w.peer = "offline")
    \/ w.addrs = "cgnat" /\ ~(w.mesh /\ Matches(w))

\* What the user is told by the reason.
Verdict(w, late) ==
    IF Holds(w, Explain(Found(w, late))) THEN "so"
    ELSE IF Excused(w, late) THEN "excused" ELSE "wrong"

=============================================================================
