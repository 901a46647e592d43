SPECIFICATION FairSpec
CONSTANTS
    w1 = w1
    w2 = w2
    None = None
    Rows = {1}
    Workers = {w1, w2}
    WorkerIds = {w1, w2}
    WorkerId <- OwnIds
    LeaseSeconds = 1
    MaxAttempts = 3
    BaseBackoff = 1
    MaxBackoff = 2
    MaxRetryAfter = 1
    Hints = {2, 3}
    DatetimeRange = 2
    MaxLag = 1
    MaxRequeues = 1
INVARIANTS
    TypeOK
    TablesAgree
    ExclusiveWindow
    MutualExclusion
    SendsPaidFor
    NeverLockedOut
PROPERTIES
    BothDelaysKept
    OnlyTheLatestAttemptSettles
    ImplementsLedger
    EveryAlertSettles
