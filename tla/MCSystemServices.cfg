SPECIFICATION FairSpec
CONSTANTS
    j1 = j1 d1 = d1 d2 = d2
    Jobs = {j1}
    Requests <- OneJob
    Services = {s1, s2}
    Containers = {c1}
    Databases = {d1, d2}
    Home <- HomeOf
    Lacking = {{}, {"etc", "icewhale"}}
    Versions = {"old", "new"}
    None = None
    MaxRuns = 2
    MaxFaults = 1
PROPERTIES ServicesStartedAgain
