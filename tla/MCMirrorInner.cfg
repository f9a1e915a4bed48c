SPECIFICATION Spec
CONSTANTS
    f1 = f1
    Folders <- MCFolders
    Files = {f1}
    Jobs <- InnerJobs
    Fixed <- MCFixed
    Removable <- InnerRemovable
    Disk <- Drives
    Hosts = {"nas.local"}
    Worlds <- AllWorlds
    ProbeNames = {1, 2}
    Remote = Remote
    None = None
    MaxRuns = 1
    MaxEdits = 0
    MaxChanges = 1
    MaxFaults = 0
INVARIANTS WritesHome
CHECK_DEADLOCK FALSE
