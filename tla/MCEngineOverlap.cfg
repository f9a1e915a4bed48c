CONSTANTS
    Jobs = {j1}
    Workers = {w1,w2,w3}
    Handlers = {h1,h2}
    None = None
    NoJob = NoJob
    Requests <- LifeRequests
    Faults = {}
    Outcomes = {"completed"}
    Schedules = {"timed"}
    MaxLogEntries = 0
    MaxSecrets = 1
SPECIFICATION Spec
SYMMETRY Interchangeable
INVARIANTS NoOverlap
