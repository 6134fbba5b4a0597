CONSTANTS
    None = None
    MaxRuns = 2
    AdditionalMinters <- TaskMinters
    NumOfAttempts = 2
SPECIFICATION Spec
CHECK_DEADLOCK FALSE
INVARIANTS
    OnlyStoreMints
