SPECIFICATION FairSpec
CONSTANTS
    production = production
    refinery = refinery
    stocks = stocks
    Inflows = {production}
    Outflows = {refinery}
    Stock = stocks
    OtherSeries = {}
    Overrides <- MCOverrides
    Grace = 120
    Products <- MCProducts
    Prices = {1, 5}
    Terms <- MCTerms
    Feed <- MCFeed
    Instants <- MCInstants
    FirstWeek = 0
    LastWeek = 2
    None = None
INVARIANTS
    TypeOK
    AvailabilityIsHonest
    OwnsWhatIsCurrent
    UnchangedIsCurrent
PROPERTIES
    BuyerCatchesUp
CHECK_DEADLOCK FALSE
