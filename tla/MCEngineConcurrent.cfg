CONSTANTS
    Jobs = {j1}
    Workers = {w1}
    Handlers = {h1,h2}
    None = None
    NoJob = NoJob
    Requests <- EditRequests
    Faults = {"crash"}
    Outcomes = {"completed"}
    Schedules = {"timed","dated"}
    MaxLogEntries = 0
    MaxSecrets = 2
SPECIFICATION Spec
SYMMETRY Interchangeable
INVARIANTS KeyNotOlderThanJob RegistryIsDurable ArmedAsScheduled NoStaleSecret
