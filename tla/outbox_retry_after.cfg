SPECIFICATION Spec
CONSTANTS
    w1 = w1
    w2 = w2
    None = None
    Rows = {1}
    Workers = {w1, w2}
    WorkerIds = {w1, w2}
    WorkerId <- OwnIds
    LeaseSeconds = 2
    MaxAttempts = 2
    BaseBackoff = 1
    MaxBackoff = 1
    MaxRetryAfter = 1
    Hints = {2, 3}
    DatetimeRange = 2
    MaxLag = 1
    MaxRequeues = 0
INVARIANTS RetryHintNeverRaises
