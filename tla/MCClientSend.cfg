CONSTANTS
    MaxU64 = 4
    MAX_FEE_BASIS_POINTS = 10
    None = None
    Users = {alice}
    alice = alice
    Keys = {k1}
    k1 = k1
    Pausers = {}
    ComposeChoices = {}
    Eids = {base}
    base = base
    Remotes = {mor, old}
    PeerAddresses = {mor, old}
    mor = mor
    old = old
    DecimalBase = 2
    TokenDecimals = 1
    SharedDecimals = {0}
    InitialBalance = 4
    FeeChoices = {5}
    TransferFees <- MCTransferFees
    LimitChoices = {}
    ExecOptions = {}
    MinAmounts = {}
    WireAmounts = {}
    SpareAmounts = {}
    NewAuthorities = {}
    MaxSent = 0
    MaxVerified = 0
    MaxTime = 0
    Client = alice
    Destination = base
    Amounts2Send = {3, 4}
    ScaleFactors = {9}
    Samples <- MCSamples
    NativeFees = {1, 2}
    NumOfAttempts = 2
    MaxCalls = 2
SPECIFICATION ClientSpec
CHECK_DEADLOCK FALSE
INVARIANTS
    FairDeal
    AnswerAccounted
    PriceIsRecent
PROPERTIES
    CallsEnd
