CONSTANTS
    None = None
    MaxRuns = 2
    AdditionalMinters <- MCMinters
    NumOfAttempts = 2
SPECIFICATION Spec
CHECK_DEADLOCK FALSE
INVARIANTS
    TypeOK
    MintableUnlessRefused
    FileAccounted
PROPERTIES
    RunsEnd
