SPECIFICATION FairSpec
CONSTANTS
    j1 = j1 d1 = d1
    Jobs = {j1}
    Schedules <- HourlyOrRare
    Year = 1
    Grace = 0
    RunCodes = {"completed", "failed"}
    OtherCodes = {"restored", "failed"}
    Dashboards = {d1}
    Cap = 2
    None = None
    MaxTime = 4
    MaxFaults = 1
INVARIANTS TypeOK FailureIsListed SilenceIsListed
PROPERTIES TroubleIsShown CardIsWithdrawn
