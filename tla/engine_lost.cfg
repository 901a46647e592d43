SPECIFICATION Spec
CONSTANTS
    NumPolicies = 1
    Evaluators = {"api", "cron"}
    MaxDatasets = 3
    MaxCrashes = 0
    None = None
PROPERTIES
    NoLostAlert
