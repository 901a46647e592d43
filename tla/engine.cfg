SPECIFICATION FairSpec
CONSTANTS
    NumPolicies = 2
    Evaluators = {"api", "cron"}
    MaxDatasets = 2
    MaxCrashes = 1
    None = None
INVARIANTS
    TypeOK
    StateAndAlertTogether
    OneAlertPerRise
    ActiveWasAlerted
PROPERTIES
    EdgeTriggered
    StateConverges
