------------------------------ MODULE MCMirror ------------------------------
\* An instance of Mirror for TLC: the mount table of a box with a system
\* disk, a USB disk that is bound a second time, a share and a cloud drive.
EXTENDS Mirror, TLC

CONSTANT f1

Line(dev, fs, at) == [dev |-> dev, fs |-> fs, at |-> at]

System == {Line("overlay", "overlay", <<>>),
           Line("sda8", "ext4", <<"DATA">>),
           Line("sda8", "ext4", <<"media">>)}
Cloud == Line("gdrive", "fuse.rclone", <<"media", "gdrive">>)
Usb == Line("sdb1", "exfat", <<"media", "sdb">>)
UsbBound == Line("sdb1", "exfat", <<"DATA", "Media">>)
Share == Line("nas", "cifs", <<"media", "nas.local", "share">>)

Inner == Line("sdc1", "ext4", <<"DATA", "srtest", "data1">>)

Drives == "sda8" :> "sda" @@ "sdb1" :> "sdb" @@ "sdc1" :> "sdc"

OnUsb == [type |-> "local", path |-> <<"media", "sdb", "copies">>]
OnShare == [type |-> "local", path |-> <<"media", "nas.local", "share">>]
OnInner == [type |-> "local", path |-> <<"DATA", "srtest", "data1", "copies">>]
ToSSH == [type |-> "ssh", path |-> <<>>]
ToSFTP == [type |-> "sftp", path |-> <<>>]
ByPassword == [type |-> "sftp_password", path |-> <<>>]
ToCloud == [type |-> "cloud", path |-> <<>>]

Photos == <<"DATA", "a", "photos">>
Docs == <<"DATA", "docs">>
OtherPhotos == <<"DATA", "b", "photos">>

MCFolders == {Photos, Docs, OtherPhotos}
MCJobs ==
    LET J(sources, target, delete) == [sources |-> sources, target |-> target, delete |-> delete]
    IN  {J({Photos, Docs}, OnUsb, TRUE), J({Photos}, OnShare, FALSE),
         J({Docs}, ToSSH, TRUE), J({Docs}, ToSFTP, FALSE), J({Docs}, ByPassword, TRUE),
         J({Photos, Docs}, ToCloud, TRUE), J({Photos, OtherPhotos}, ToCloud, TRUE)}
MCFixed == System \cup {Cloud}
MCRemovable == {{Usb, UsbBound}, {Share}}

\* A box with a disk that is mounted inside /DATA, and a job on it.
InnerJobs == {[sources |-> {Docs}, target |-> OnInner, delete |-> FALSE]}
InnerRemovable == {{Inner}}

AllWorlds ==
    {w \in [name : {"ts.net", "tailnet", "address", "other"}, addrs : {"none", "cgnat", "lan"},
            mesh : BOOLEAN, ts : {"absent", "Stopped", "Running"},
            peer : {"none", "offline", "online"}, net : {"lan", "zimanet"}, up : BOOLEAN] :
        Sensible(w)}

=============================================================================
