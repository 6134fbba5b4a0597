CONSTANTS
    None = None
    Chains = {"arb", "base", "sol"}
    SolanaChains = {"sol"}
    Connections <- MCConnections
    MaxVersion = 2
    Kinds = {"init", "wire", "own"}
SPECIFICATION Spec
CHECK_DEADLOCK FALSE
INVARIANTS
    ReportComplete
PROPERTIES
    FinishedIsWired
    WiredInTheEnd
