CONSTANTS
    b1 = b1
    b2 = b2
    p = p
    pass <- Same
    yields <- Sources
    Requests <- Shared
    Jobs = {b1,b2}
    Local = {b1}
    Pruning = {b1}
    Passphrases = {p,q}
    Failures = {"other"}
    None = None
    MaxSnapshots = 2
    MaxFaults = 1
SPECIFICATION FairSpec
INVARIANTS TypeOK PruneIsAlone SuccessHasSnapshot CancelledMeansStopped
PROPERTIES NewestGoodKept ImplementsCopies SharedLeftoverCleared OperationEnds
