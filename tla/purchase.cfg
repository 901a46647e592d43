SPECIFICATION MCSpec
CONSTANTS
    d1 = d1
    d2 = d2
    low = low
    high = high
    Amounts = {low, high}
    Terms <- MCTerms
    None = None
    Digests = {d1, d2}
    MaxChanges = 2
    Requests = {1, 2}
INVARIANTS TypeOK ServedIsAuditedIsPaid ChargedAsQuoted
PROPERTY PaidIsReceived
CHECK_DEADLOCK FALSE
