CONSTANTS
    b1 = b1
    b2 = b2
    p = p
    Jobs = {b1}
    Local = {b1}
    Pruning = {b1}
    Requests <- Scheduled
    Passphrases = {p}
    pass <- Same
    yields <- Sources
    Failures = {"other"}
    None = None
    MaxSnapshots = 2
    MaxFaults = 1
SPECIFICATION FairSpec
PROPERTIES LeftoverCleared
