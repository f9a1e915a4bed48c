CONSTANTS
    Jobs = {j1}
    Workers = {w1}
    Handlers = {h1}
    None = None
    NoJob = NoJob
    Requests <- FileRequests
    Faults = {"read","write","timeout"}
    Outcomes = {"completed"}
    Schedules = {"manual"}
    MaxLogEntries = 1
    MaxSecrets = 1
SPECIFICATION Spec
SYMMETRY Interchangeable
INVARIANTS TypeOK DeletedStaysDeleted
