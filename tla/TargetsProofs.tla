--------------------------- MODULE TargetsProofs ---------------------------
(***************************************************************************)
(* What the operators of Targets promise, for every path and every mount   *)
(* table: the device of a folder, the mount point it belongs to, what an   *)
(* accepted target lies on, and where netpath's reasons lead.              *)
(***************************************************************************)
EXTENDS Targets, SequenceTheorems, WellFoundedInduction, TLAPS

\* The names a path is made of: strings (that a literal is one, the provers
\* do not know).
Names == STRING \cup {"backups"}

APath == Seq(Names)

-----------------------------------------------------------------------------
(* Paths *)

LEMMA StringsAreNames == \A p \in Seq(STRING) : p \in APath
<1>1. STRING \subseteq Names BY DEF Names
<1>2. ASSUME NEW p \in Seq(STRING) PROVE p \in APath
  <2>1. p \in [1..Len(p) -> STRING] /\ Len(p) \in Nat BY LenProperties
  <2>2. p \in [1..Len(p) -> Names] BY <1>1, <2>1
  <2> QED BY <2>1, <2>2, IsASeq DEF APath
<1> QED BY <1>2

LEMMA BeginningIs ==
    ASSUME NEW p \in APath, NEW i \in 0..Len(p)
    PROVE  SubSeq(p, 1, i) \in APath /\ Len(SubSeq(p, 1, i)) = i
<1>0. Len(p) \in Nat BY LenProperties DEF APath
<1>1. \A k \in 1..i : p[k] \in Names BY <1>0, ElementOfSeq DEF APath
<1> QED BY <1>0, <1>1, SubSeqProperties DEF APath

\* The folders above p are its beginnings.
LEMMA AboveIs ==
    ASSUME NEW p \in APath
    PROVE  /\ \A a : a \in Above(p) <=> /\ a \in APath /\ Len(a) <= Len(p)
                                        /\ a = SubSeq(p, 1, Len(a))
           /\ p \in Above(p) /\ <<>> \in Above(p)
<1>0. Len(p) \in Nat BY LenProperties DEF APath
<1>2. ASSUME NEW a, a \in Above(p)
      PROVE  a \in APath /\ Len(a) <= Len(p) /\ a = SubSeq(p, 1, Len(a))
  <2>1. PICK i \in 0..Len(p) : a = SubSeq(p, 1, i) BY <1>2 DEF Above
  <2>2. a \in APath /\ Len(a) = i BY <2>1, BeginningIs
  <2> QED BY <1>0, <2>1, <2>2
<1>3. ASSUME NEW a, a \in APath, Len(a) <= Len(p), a = SubSeq(p, 1, Len(a)) PROVE a \in Above(p)
  <2>1. Len(a) \in 0..Len(p) BY <1>0, <1>3, LenProperties DEF APath
  <2> QED BY <1>3, <2>1 DEF Above
<1>4. SubSeq(p, 1, Len(p)) = p /\ SubSeq(p, 1, 0) = <<>>
  BY SubSeqFull, SubSeqEmpty DEF APath
<1>5. p \in Above(p) /\ <<>> \in Above(p)
  <2>1. Len(p) \in 0..Len(p) /\ 0 \in 0..Len(p) BY <1>0
  <2> QED BY <1>4, <2>1 DEF Above
<1> QED BY <1>2, <1>3, <1>5

\* Two paths are one if they have the same names.
LEMMA AboveNames ==
    ASSUME NEW p \in APath, NEW a \in APath
    PROVE  a \in Above(p) <=> Len(a) <= Len(p) /\ \A i \in 1..Len(a) : a[i] = p[i]
<1>0. Len(p) \in Nat /\ Len(a) \in Nat BY LenProperties DEF APath
<1>1. CASE Len(a) <= Len(p)
  <2>1. \A k \in 1..Len(a) : p[k] \in Names BY <1>0, <1>1, ElementOfSeq DEF APath
  <2>2. /\ SubSeq(p, 1, Len(a)) \in APath /\ Len(SubSeq(p, 1, Len(a))) = Len(a)
        /\ \A i \in 1..Len(a) : SubSeq(p, 1, Len(a))[i] = p[i]
    BY <1>0, <2>1, SubSeqProperties DEF APath
  <2>3. (\A i \in 1..Len(a) : a[i] = p[i]) => a = SubSeq(p, 1, Len(a))
    BY <2>2, SeqEqual DEF APath
  <2> QED BY <1>1, <2>2, <2>3, AboveIs
<1>2. CASE ~(Len(a) <= Len(p)) BY <1>2, AboveIs
<1> QED BY <1>1, <1>2

\* Above is an order, and total over the folders above one path.
LEMMA AboveOrder ==
    ASSUME NEW p \in APath, NEW b \in Above(p)
    PROVE  /\ Above(b) \subseteq Above(p)
           /\ \A a \in Above(p) : Len(a) <= Len(b) => a \in Above(b)
           /\ \A a \in Above(p) : Len(a) = Len(b) => a = b
<1>0. b \in APath /\ Len(b) <= Len(p) /\ Len(b) \in Nat /\ Len(p) \in Nat
  BY AboveIs, LenProperties DEF APath
<1>1. \A i \in 1..Len(b) : b[i] = p[i] BY <1>0, AboveNames
<1>2. ASSUME NEW a \in Above(b) PROVE a \in Above(p)
  <2>1. a \in APath /\ Len(a) <= Len(b) /\ Len(a) \in Nat BY <1>0, AboveIs, LenProperties DEF APath
  <2>2. \A i \in 1..Len(a) : a[i] = b[i] BY <1>0, <2>1, AboveNames
  <2> QED BY <1>0, <1>1, <2>1, <2>2, AboveNames
<1>3. ASSUME NEW a \in Above(p), Len(a) <= Len(b) PROVE a \in Above(b)
  <2>1. a \in APath /\ Len(a) \in Nat BY AboveIs, LenProperties DEF APath
  <2>2. \A i \in 1..Len(a) : a[i] = p[i] BY <2>1, AboveNames
  <2> QED BY <1>0, <1>1, <1>3, <2>1, <2>2, AboveNames
<1>4. ASSUME NEW a \in Above(p), Len(a) = Len(b) PROVE a = b
  <2>1. a = SubSeq(p, 1, Len(a)) BY AboveIs
  <2>2. b = SubSeq(p, 1, Len(b)) BY AboveIs
  <2> QED BY <1>4, <2>1, <2>2
<1> QED BY <1>2, <1>3, <1>4

\* The folder that holds p.
LEMMA FrontIs ==
    ASSUME NEW p \in APath, p # <<>>
    PROVE  /\ Front(p) \in Above(p) /\ Len(Front(p)) = Len(p) - 1
           /\ Above(p) = Above(Front(p)) \cup {p}
<1>0. Len(p) \in Nat /\ Len(p) # 0
  BY LenProperties, EmptySeq DEF APath
<1>1. Front(p) = SubSeq(p, 1, Len(p) - 1) BY DEF Front
<1>2. Front(p) \in Above(p) BY <1>0, <1>1 DEF Above
<1>3. Len(Front(p)) = Len(p) - 1
  <2>1. Len(p) - 1 \in 0..Len(p) BY <1>0
  <2> QED BY <1>1, <2>1, BeginningIs
<1>4. Above(p) \subseteq Above(Front(p)) \cup {p}
  <2> SUFFICES ASSUME NEW a \in Above(p), a # p PROVE a \in Above(Front(p)) OBVIOUS
  <2>1. Len(a) <= Len(p) /\ Len(a) \in Nat BY AboveIs, LenProperties DEF APath
  <2>2. Len(a) # Len(p) BY AboveIs, AboveOrder
  <2> QED BY <1>0, <1>2, <1>3, <2>1, <2>2, AboveOrder
<1> QED BY <1>2, <1>3, <1>4, AboveOrder, AboveIs

\* Of some folders above p one is the deepest, and one the highest.
LEMMA DeepestIs ==
    ASSUME NEW p \in APath, NEW S, S \subseteq Above(p), S # {}
    PROVE  Deepest(S) \in S /\ \A q \in S : Len(q) <= Len(Deepest(S))
<1>0. Len(p) \in Nat /\ \A q \in S : Len(q) \in Nat /\ Len(q) <= Len(p)
  BY AboveIs, LenProperties DEF APath
<1> DEFINE T == {Len(p) - Len(q) : q \in S}
<1>1. T \subseteq Nat /\ T # {} BY <1>0
<1>2. PICK n \in T : \A m \in T : ~(<<m, n>> \in OpToRel(<, Nat))
  BY <1>1, NatLessThanWellFounded, WFMin
<1>3. \A m \in T : ~(m < n) BY <1>1, <1>2 DEF OpToRel
<1>4. PICK q \in S : n = Len(p) - Len(q) BY <1>2
<1>5. ASSUME NEW r \in S PROVE Len(r) <= Len(q)
  <2>1. ~(Len(p) - Len(r) < Len(p) - Len(q)) BY <1>3, <1>4
  <2> QED BY <1>0, <2>1
<1> QED BY <1>5 DEF Deepest

LEMMA HighestExists ==
    ASSUME NEW p \in APath, NEW S, S \subseteq Above(p), S # {}
    PROVE  \E q \in S : \A r \in S : Len(q) <= Len(r)
<1>0. \A q \in S : Len(q) \in Nat BY AboveIs, LenProperties DEF APath
<1> DEFINE T == {Len(q) : q \in S}
<1>1. T \subseteq Nat /\ T # {} BY <1>0
<1>2. PICK n \in T : \A m \in T : ~(<<m, n>> \in OpToRel(<, Nat))
  BY <1>1, NatLessThanWellFounded, WFMin
<1>3. \A m \in T : ~(m < n) BY <1>1, <1>2 DEF OpToRel
<1>4. PICK q \in S : n = Len(q) BY <1>2
<1>5. ASSUME NEW r \in S PROVE Len(q) <= Len(r)
  <2>1. ~(Len(r) < Len(q)) BY <1>3, <1>4
  <2> QED BY <1>0, <2>1
<1> QED BY <1>5

-----------------------------------------------------------------------------
(* Mount tables *)

\* A mount table: something is mounted at the root, nothing twice at one point.
MountTable(mtab) ==
    /\ \A l \in mtab : l.at \in APath
    /\ \A k, l \in mtab : k.at = l.at => k = l
    /\ \E l \in mtab : l.at = <<>>

\* The lines that DeviceOf chooses from are those at p and above.
LinesAbove(mtab, p) == {l \in mtab : l.at \in Above(p)}

LEMMA DeviceChoice ==
    ASSUME NEW mtab, \A l \in mtab : l.at \in APath, NEW p \in APath
    PROVE  LET ls == LinesAbove(mtab, p)
           IN  DeviceOf(mtab, p) = (CHOOSE l \in ls : \A k \in ls : Len(k.at) <= Len(l.at)).dev
<1>1. {l \in mtab : Len(l.at) <= Len(p) /\ l.at = SubSeq(p, 1, Len(l.at))} = LinesAbove(mtab, p)
  BY AboveIs DEF LinesAbove
<1> QED BY <1>1 DEF DeviceOf

\* The device of p is that of the line closest to it.
LEMMA DeviceIs ==
    ASSUME NEW mtab, MountTable(mtab), NEW p \in APath
    PROVE  \E l \in mtab : /\ l.at \in Above(p) /\ DeviceOf(mtab, p) = l.dev
                           /\ \A k \in mtab : k.at \in Above(p) => Len(k.at) <= Len(l.at)
<1> DEFINE ls == LinesAbove(mtab, p)
<1>1. \A l \in mtab : l.at \in APath BY DEF MountTable
<1>2. DeviceOf(mtab, p) = (CHOOSE l \in ls : \A k \in ls : Len(k.at) <= Len(l.at)).dev
  BY <1>1, DeviceChoice
<1>3. \E l \in ls : \A k \in ls : Len(k.at) <= Len(l.at)
  <2> DEFINE S == {l.at : l \in ls}
  <2>1. S \subseteq Above(p) BY DEF LinesAbove
  <2>2. <<>> \in S BY AboveIs DEF MountTable, LinesAbove
  <2>3. PICK q \in S : \A r \in S : Len(r) <= Len(q) BY <2>1, <2>2, DeepestIs
  <2> QED BY <2>3
<1>4. (CHOOSE l \in ls : \A k \in ls : Len(k.at) <= Len(l.at)) \in ls
      /\ \A k \in ls : Len(k.at) <= Len((CHOOSE l \in ls : \A k2 \in ls : Len(k2.at) <= Len(l.at)).at)
  BY <1>3
<1> QED BY <1>2, <1>4 DEF LinesAbove

\* What is mounted at p is its device.
LEMMA DeviceAt ==
    ASSUME NEW mtab, MountTable(mtab), NEW l \in mtab
    PROVE  DeviceOf(mtab, l.at) = l.dev
<1>1. l.at \in APath BY DEF MountTable
<1>2. PICK k \in mtab : /\ k.at \in Above(l.at) /\ DeviceOf(mtab, l.at) = k.dev
                        /\ \A m \in mtab : m.at \in Above(l.at) => Len(m.at) <= Len(k.at)
  BY <1>1, DeviceIs
<1>3. l.at \in Above(l.at) /\ Len(l.at) \in Nat /\ Len(k.at) \in Nat /\ Len(k.at) <= Len(l.at)
  BY <1>1, <1>2, AboveIs, LenProperties DEF APath
<1>4. Len(l.at) <= Len(k.at) BY <1>2, <1>3
<1>5. k.at = l.at BY <1>1, <1>2, <1>3, <1>4, AboveOrder
<1> QED BY <1>2, <1>5 DEF MountTable

\* Two tables with the same lines above p give p the same device.
LEMMA DeviceSame ==
    ASSUME NEW m, NEW n, \A l \in m \cup n : l.at \in APath, NEW p \in APath,
           LinesAbove(m, p) = LinesAbove(n, p)
    PROVE  DeviceOf(m, p) = DeviceOf(n, p)
<1>1. \A l \in m : l.at \in APath OBVIOUS
<1>2. \A l \in n : l.at \in APath OBVIOUS
<1> QED BY <1>1, <1>2, DeviceChoice

\* The device changes only where something is mounted.
LEMMA DeviceChanges ==
    ASSUME NEW mtab, MountTable(mtab), NEW p \in APath, p # <<>>,
           DeviceOf(mtab, p) # DeviceOf(mtab, Front(p))
    PROVE  \E l \in mtab : l.at = p
<1> SUFFICES ASSUME \A l \in mtab : l.at # p PROVE FALSE OBVIOUS
<1>1. \A l \in mtab : l.at \in APath BY DEF MountTable
<1>2. Front(p) \in APath BY FrontIs, AboveIs
<1>3. LinesAbove(mtab, p) = LinesAbove(mtab, Front(p)) BY FrontIs DEF LinesAbove
<1> QED BY <1>1, <1>2, <1>3, DeviceChoice

-----------------------------------------------------------------------------
(* Mount points *)

Borders(mtab, d) ==
    {a \in Above(d) : a = <<>> \/ DeviceOf(mtab, a) # DeviceOf(mtab, Front(a))}

LEMMA MountPointIs ==
    ASSUME NEW mtab, NEW d \in APath
    PROVE  /\ MountPoint(mtab, d) \in Borders(mtab, d)
           /\ \A a \in Borders(mtab, d) : Len(a) <= Len(MountPoint(mtab, d))
<1>1. <<>> \in Borders(mtab, d) BY AboveIs DEF Borders
<1>2. Borders(mtab, d) \subseteq Above(d) BY DEF Borders
<1>3. MountPoint(mtab, d) = Deepest(Borders(mtab, d)) BY DEF MountPoint, Borders
<1> QED BY <1>1, <1>2, <1>3, DeepestIs

\* Something is mounted at a mount point, and it is the device of all folders
\* from there down to d.
LEMMA MountPointDevice ==
    ASSUME NEW mtab, MountTable(mtab), NEW d \in APath
    PROVE  /\ \E l \in mtab : l.at = MountPoint(mtab, d)
           /\ \A a \in Above(d) : Len(a) >= Len(MountPoint(mtab, d)) =>
                 DeviceOf(mtab, a) = DeviceOf(mtab, MountPoint(mtab, d))
<1> DEFINE m == MountPoint(mtab, d)
<1>1. /\ m \in Above(d) /\ m \in APath /\ m \in Borders(mtab, d)
      /\ \A a \in Borders(mtab, d) : Len(a) <= Len(m)
  BY MountPointIs, AboveIs DEF Borders
<1>2. Len(m) \in Nat BY <1>1, LenProperties DEF APath
<1> HIDE DEF m
<1>3. \E l \in mtab : l.at = m
  <2>1. CASE m = <<>> BY <2>1 DEF MountTable
  <2>2. CASE m # <<>> BY <1>1, <2>2, DeviceChanges DEF Borders
  <2> QED BY <2>1, <2>2
<1>4. ASSUME NEW a \in Above(d), Len(a) >= Len(m) PROVE DeviceOf(mtab, a) = DeviceOf(mtab, m)
  <2> DEFINE B == {b \in Above(d) : Len(b) >= Len(m) /\ DeviceOf(mtab, b) # DeviceOf(mtab, m)}
  <2> SUFFICES ASSUME B # {} PROVE FALSE BY <1>4
  <2>1. PICK b \in B : \A r \in B : Len(b) <= Len(r) BY HighestExists
  <2>2. b \in Above(d) /\ b \in APath /\ Len(b) \in Nat BY AboveIs, LenProperties DEF APath
  <2>3. Len(b) > Len(m)
    <3>1. Len(b) # Len(m) BY <1>1, <2>2, AboveOrder
    <3> QED BY <1>2, <2>2, <3>1
  <2>4. b # <<>> BY <1>2, <2>3, EmptySeq
  <2>5. Front(b) \in Above(d) /\ Len(Front(b)) = Len(b) - 1
    BY <2>2, <2>4, FrontIs, AboveOrder
  <2>6. Front(b) \notin B BY <2>1, <2>2, <2>5
  <2>7. DeviceOf(mtab, Front(b)) = DeviceOf(mtab, m) BY <1>2, <2>2, <2>3, <2>5, <2>6
  <2>8. b \in Borders(mtab, d) BY <2>2, <2>7 DEF Borders
  <2> QED BY <1>1, <1>2, <2>2, <2>3, <2>8
<1> QED BY <1>3, <1>4 DEF m

-----------------------------------------------------------------------------
(* Targets *)

LEMMA ExistingIs ==
    ASSUME NEW mtab, NEW dirs, NEW p \in APath, NEW a \in Above(p), Exists(mtab, dirs, a)
    PROVE  /\ Existing(mtab, dirs, p) \in Above(p)
           /\ Exists(mtab, dirs, Existing(mtab, dirs, p))
           /\ Len(a) <= Len(Existing(mtab, dirs, p))
<1> DEFINE S == {b \in Above(p) : Exists(mtab, dirs, b)}
<1>1. S \subseteq Above(p) /\ a \in S OBVIOUS
<1>2. Deepest(S) \in S /\ Len(a) <= Len(Deepest(S)) BY <1>1, DeepestIs
<1> QED BY <1>2 DEF Existing

\* A target that is accepted lies on something that is mounted below the
\* container mounts, or at /DATA: never on the system alone (localfs.go:1-2).
THEOREM AcceptedLiesOnADisk ==
    ASSUME NEW mtab, MountTable(mtab), NEW dirs,
           \A l \in mtab : l.at = <<>> => <<l.dev, <<>>>> \in dirs,
           NEW p \in APath, Check(mtab, dirs, p)
    PROVE  \E l \in mtab : l.at \in Above(p) \ ContainerMounts
<1> DEFINE e == Existing(mtab, dirs, p)
<1>1. Exists(mtab, dirs, <<>>)
  <2>1. PICK l \in mtab : l.at = <<>> BY DEF MountTable
  <2> QED BY <2>1, DeviceAt DEF Exists
<1>2. e \in Above(p) /\ e \in APath BY <1>1, AboveIs, ExistingIs
<1>3. MountPoint(mtab, e) \notin ContainerMounts BY DEF Check, Existing
<1>4. PICK l \in mtab : l.at = MountPoint(mtab, e) BY <1>2, MountPointDevice
<1>5. l.at \in Above(e) BY <1>2, <1>4, MountPointIs DEF Borders
<1>6. l.at \in Above(p) BY <1>2, <1>5, AboveOrder
<1> QED BY <1>3, <1>4, <1>6

\* The root and folders in it: one name at most.
LEMMA ContainersShort == \A c \in ContainerMounts : Len(c) <= 1
<1>1. Len(<<>>) = 0 /\ Len(Media) = 1 /\ Len(Mnt) = 1 BY DEF Media, Mnt
<1>2. \A c \in ContainerMounts : c = <<>> \/ c = Media \/ c = Mnt BY DEF ContainerMounts
<1>3. 0 <= 1 /\ 1 <= 1 OBVIOUS
<1> QED BY <1>1, <1>2, <1>3, Zenon

\* Volumes that are offered are no container mounts, nor above one.
LEMMA OfferedBelow ==
    ASSUME NEW v, NEW disk, v.at \in APath, Kind(v, disk) # "none"
    PROVE  v.at \notin ContainerMounts /\ Len(v.at) >= 1
<1>0. Len(v.at) \in Nat BY LenProperties DEF APath
<1>1. ASSUME NEW p \in {DATA, Media}, Under(v.at, p) PROVE Len(v.at) > 1
  BY <1>0, <1>1 DEF Under, DATA, Media
<1>2. CASE v.at = DATA
  BY <1>2 DEF DATA, ContainerMounts, Media, Mnt
<1>3. CASE \E p \in {DATA, Media} : Under(v.at, p)
  <2>1. Len(v.at) > 1 BY <1>1, <1>3
  <2> QED BY <1>0, <2>1, ContainersShort
<1>4. CASE v.at # <<>> /\ Front(v.at) \in {Media, Mnt}
  <2>1. Len(v.at) = 2
    <3>1. Len(Media) = 1 /\ Len(Mnt) = 1 BY DEF Media, Mnt
    <3>2. Len(Front(v.at)) = 1 BY <1>4, <3>1, Zenon
    <3>3. Len(Front(v.at)) = Len(v.at) - 1 BY <1>4, FrontIs
    <3>4. Len(v.at) - 1 = 1 BY <3>2, <3>3, Zenon
    <3> QED BY <1>0, <3>4
  <2>2. ~(Len(v.at) <= 1) /\ Len(v.at) >= 1 BY <2>1
  <2> QED BY <2>2, ContainersShort, Zenon
<1> QED BY <1>2, <1>3, <1>4 DEF Kind

\* The container mounts are the system's: what is offered below one of them
\* is another device (localfs.go:22-24).
ContainersApart(mtab, disk) ==
    \A k, l \in mtab :
        k.at \in ContainerMounts /\ k.at \in Above(l.at) \ {l.at} /\ k.dev = l.dev =>
            l.at # DATA /\ IsBlock(l, disk) /\ disk[l.dev] \in SystemDisk(mtab, disk)

\* Every folder on a volume that is offered as a target passes localfs' check
\* (mounts.go and localfs.go agree on what a disk is).
THEOREM OfferedIsTaken ==
    ASSUME NEW mtab, MountTable(mtab), NEW disk, ContainersApart(mtab, disk),
           NEW dirs, \A l \in mtab : <<l.dev, l.at>> \in dirs,
           NEW v \in Volumes(mtab, disk), NEW p \in APath, v.at \in Above(p)
    PROVE  Check(mtab, dirs, p)
<1> DEFINE e == Existing(mtab, dirs, p)
           m == MountPoint(mtab, e)
<1>1. v \in mtab /\ v.at \in APath /\ Kind(v, disk) # "none"
      /\ (IsBlock(v, disk) /\ v.at # DATA => disk[v.dev] \notin SystemDisk(mtab, disk))
  BY DEF Volumes, Candidates, MountTable
<1>2. v.at \notin ContainerMounts /\ Len(v.at) >= 1 /\ Len(v.at) \in Nat
  BY <1>1, OfferedBelow, LenProperties DEF APath
<1>3. Exists(mtab, dirs, v.at) BY <1>1, DeviceAt DEF Exists
<1>4. e \in Above(p) /\ e \in APath /\ v.at \in Above(e)
  BY <1>3, AboveIs, AboveOrder, ExistingIs
<1>5. /\ m \in Above(e) /\ m \in APath /\ Len(m) \in Nat
      /\ \E l \in mtab : l.at = m
      /\ \A a \in Above(e) : Len(a) >= Len(m) => DeviceOf(mtab, a) = DeviceOf(mtab, m)
  <2>1. m \in Above(e) BY <1>4, MountPointIs DEF Borders
  <2> QED BY <1>4, <2>1, MountPointDevice, AboveIs, LenProperties DEF APath
<1> HIDE DEF e, m
<1>6. m \notin ContainerMounts
  <2> SUFFICES ASSUME m \in ContainerMounts PROVE FALSE OBVIOUS
  <2>1. Len(m) <= 1 BY ContainersShort
  <2>2. Len(m) # Len(v.at) BY <1>2, <1>4, <1>5, AboveOrder
  <2>3. Len(v.at) > Len(m) BY <1>2, <1>5, <2>1, <2>2
  <2>4. m \in Above(v.at) /\ m # v.at BY <1>2, <1>4, <1>5, <2>3, AboveOrder
  <2>5. PICK k \in mtab : k.at = m BY <1>5
  <2>6. k.dev = v.dev
    <3>1. DeviceOf(mtab, v.at) = DeviceOf(mtab, m) BY <1>2, <1>4, <1>5, <2>3
    <3> QED BY <1>1, <2>5, <3>1, DeviceAt
  <2> QED BY <1>1, <2>4, <2>5, <2>6 DEF ContainersApart
<1> QED BY <1>6 DEF Check, Existing, e, m

-----------------------------------------------------------------------------
(* Reasons *)

\* The connection netpath tries is one to the machine, if it has an address
\* to try.
LEMMA CallsIfItCan ==
    ASSUME NEW w, Sensible(w), NEW late, ~Excused(w, late)
    PROVE  LET f == Found(w, late)
           IN  /\ OnlyMountMissing(w) => HasAddress(f) /\ f.answers
               /\ HasAddress(f) /\ f.answers => Answers(w)
<1> DEFINE f == Found(w, late)
<1>1. /\ f.addrs = (IF "lookup" \in late /\ w.name # "address" THEN "none" ELSE w.addrs)
      /\ f.answers = ("dial" \notin late /\ Answers(w)) /\ f.name = w.name
      /\ f.ts = (IF "status" \in late THEN "mute" ELSE w.ts)
      /\ f.peer = (IF Matches(w) THEN w.peer ELSE "none")
  BY DEF Found
<1> HIDE DEF f
<1>2. ASSUME OnlyMountMissing(w) PROVE HasAddress(f) /\ f.answers
  <2>1. late = {} BY <1>2 DEF Excused
  <2>2. Answers(w) BY <1>2 DEF OnlyMountMissing
  <2>3. f.answers BY <1>1, <2>1, <2>2
  <2>4. CASE w.addrs # "none" BY <1>1, <2>1, <2>3, <2>4 DEF HasAddress
  <2>5. CASE Matches(w) /\ w.peer # "none"
    <3>1. w.mesh /\ w.ts = "Running" BY <2>2, <2>5 DEF Sensible, Answers
    <3> QED BY <1>1, <2>1, <2>3, <2>5, <3>1 DEF HasAddress, ViaTailscale, HaveStatus
  <2> QED BY <1>2, <2>4, <2>5 DEF OnlyMountMissing
<1>3. ASSUME f.answers PROVE Answers(w) BY <1>1, <1>3
<1> QED BY <1>2, <1>3 DEF f

\* Whatever is so of a host and whichever answers come too late: netpath
\* sends nobody to Tailscale for a machine that is reached another way, and
\* it says that only the mount is missing exactly when that is so, but for
\* what it cannot know (netpath.go:199).
THEOREM ReasonsAreSo ==
    ASSUME NEW w, Sensible(w), NEW late, ~Excused(w, late)
    PROVE  Holds(w, Explain(Found(w, late)))
<1> DEFINE f == Found(w, late)
<1>1. /\ f.addrs \in {"none", w.addrs} /\ f.net = w.net /\ f.name = w.name
      /\ f.addrs # w.addrs => late # {}
      /\ f.ts = (IF "status" \in late THEN "mute" ELSE w.ts)
      /\ f.peer = (IF Matches(w) THEN w.peer ELSE "none")
  BY DEF Found
<1>2. /\ OnlyMountMissing(w) => HasAddress(f) /\ f.answers
      /\ HasAddress(f) /\ f.answers => Answers(w)
  BY CallsIfItCan
<1>3. OnlyMountMissing(w) => late = {} /\ w.peer # "offline" BY DEF Excused
<1> SUFFICES Holds(w, Explain(f)) OBVIOUS
<1> HIDE DEF f
<1>4. ViaTailscale(f) => w.mesh /\ Matches(w)
  <2>1. CASE f.name = "ts.net" BY <1>1, <2>1 DEF Sensible, Matches
  <2>2. CASE f.addrs = "cgnat" BY <1>1, <2>2 DEF Excused
  <2>3. CASE f.peer # "none" BY <1>1, <2>3 DEF Sensible
  <2> QED BY <2>1, <2>2, <2>3 DEF ViaTailscale
<1>5. CASE ~ViaTailscale(f)
  <2>1. Explain(f) = Answer(f, IF f.addrs = "none" THEN "lan" ELSE f.net) BY <1>5 DEF Explain
  <2>2. HasAddress(f) /\ f.answers => OnlyMountMissing(w)
    BY <1>1, <1>2, <1>5 DEF HasAddress, OnlyMountMissing
  <2>3. Explain(f).kind = "reachable" <=> HasAddress(f) /\ f.answers BY <2>1 DEF Answer
  <2>4. Explain(f).net # "tailscale" BY <1>1, <2>1 DEF Answer, Sensible
  <2> QED BY <1>2, <2>2, <2>3, <2>4 DEF Holds
<1>6. CASE ViaTailscale(f)
  <2>1. w.mesh /\ Matches(w) /\ f.peer = w.peer BY <1>1, <1>4, <1>6
  <2>2. Answers(w) => w.ts = "Running" /\ w.peer # "none" BY <2>1 DEF Answers
  <2>3. OnlyMountMissing(w) => f.ts = "Running" /\ f.peer # "none" /\ f.peer # "offline"
    BY <1>1, <1>3, <2>1, <2>2 DEF OnlyMountMissing
  <2>4. CASE f.ts # "Running"
    <3>1. Explain(f).kind = "ts_stopped" BY <1>6, <2>4 DEF Explain
    <3> QED BY <2>1, <2>3, <2>4, <3>1 DEF Holds
  <2>5. CASE f.ts = "Running" /\ f.peer \in {"none", "offline"}
    <3>1. Explain(f).kind \in {"ts_no_peer", "ts_offline"} BY <1>6, <2>5 DEF Explain
    <3> QED BY <2>1, <2>3, <2>5, <3>1 DEF Holds
  <2>6. CASE f.ts = "Running" /\ f.peer \notin {"none", "offline"}
    <3>1. Explain(f) = Answer(f, "tailscale") BY <1>6, <2>6 DEF Explain
    <3>2. HasAddress(f) /\ f.answers => OnlyMountMissing(w)
      BY <1>2, <2>1, <2>6 DEF OnlyMountMissing
    <3>3. Explain(f).kind = "reachable" <=> HasAddress(f) /\ f.answers BY <3>1 DEF Answer
    <3> QED BY <1>2, <2>1, <3>2, <3>3 DEF Holds
  <2> QED BY <2>4, <2>5, <2>6
<1> QED BY <1>5, <1>6

=============================================================================
