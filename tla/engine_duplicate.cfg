SPECIFICATION Spec
CONSTANTS
    NumPolicies = 1
    Evaluators = {"api", "cron"}
    MaxDatasets = 1
    MaxCrashes = 0
    None = None
PROPERTIES
    NoDuplicateAlert
