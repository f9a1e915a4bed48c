SPECIFICATION Spec
CONSTANTS
    f1 = f1
    Folders <- MCFolders
    Files = {f1}
    Jobs <- MCJobs
    Fixed <- MCFixed
    Removable <- MCRemovable
    Disk <- Drives
    Hosts = {"nas.local"}
    Worlds <- AllWorlds
    ProbeNames = {1, 2}
    Remote = Remote
    None = None
    MaxRuns = 2
    MaxEdits = 1
    MaxChanges = 1
    MaxFaults = 1
INVARIANTS TypeOK KeptIsThere WritesHome OfferedIsAccepted NeverMisled OneKey
PROPERTIES PreviewTouchesNothing CancelIsHonest
CHECK_DEADLOCK FALSE
