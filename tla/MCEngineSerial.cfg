CONSTANTS
    Jobs = {j1}
    Workers = {w1,w2}
    Handlers = {h1}
    None = None
    NoJob = NoJob
    Requests <- RunRequests
    Faults = {"crash"}
    Outcomes = {"completed"}
    Schedules = {"timed"}
    MaxLogEntries = 0
    MaxSecrets = 1
SPECIFICATION FairSpec
INVARIANTS NoOverlap RunningMeansARun OutputOfOneRun
PROPERTIES ImplementsJobRuns DueIsServed RunEnds
