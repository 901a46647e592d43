SPECIFICATION Spec
CONSTANTS
    production = production
    refinery = refinery
    stocks = stocks
    jet = jet
    Inflows = {production}
    Outflows = {refinery}
    Stock = stocks
    OtherSeries = {}
    Wpsr = {production, refinery, stocks}
    Metrics = {production, stocks}
    Policies <- MCPolicies
    Overrides <- MCOverrides
    Grace = 120
    SampleLength = 2
    Instants <- MCInstants
    FirstWeek = 0
    PublishedWeek = 1
    LastWeek = 3
    Value <- MCValue
    Anomalies <- MCAnomalies
    MaxContents = 1
    None = None
INVARIANTS
    TypeOK
    VerifiedIsServed
    GatedReportsAreCurrent
    NotStaleWithinGrace
    BalanceIsOfOneWeek
    ProductsAgree
PROPERTIES
    StaleUntilIngested
CHECK_DEADLOCK FALSE
