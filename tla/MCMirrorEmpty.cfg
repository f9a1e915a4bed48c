SPECIFICATION Spec
CONSTANTS
    f1 = f1
    Folders <- MCFolders
    Files = {f1}
    Jobs <- MCJobs
    Fixed <- MCFixed
    Removable <- MCRemovable
    Disk <- Drives
    Hosts = {"nas.local"}
    Worlds <- AllWorlds
    ProbeNames = {1, 2}
    Remote = Remote
    None = None
    MaxRuns = 1
    MaxEdits = 0
    MaxChanges = 2
    MaxFaults = 0
PROPERTIES EmptyIsYellow
CHECK_DEADLOCK FALSE
