CONSTANTS
    MaxU64 = 4
    MAX_FEE_BASIS_POINTS = 10
    None = None
    Users = {alice}
    alice = alice
    Keys = {k1}
    k1 = k1
    Pausers = {}
    ComposeChoices = {TRUE, FALSE}
    Eids = {base}
    base = base
    Remotes = {mor}
    PeerAddresses = {mor}
    mor = mor
    DecimalBase = 2
    TokenDecimals = 1
    SharedDecimals = {0}
    InitialBalance = 4
    FeeChoices = {}
    TransferFees <- MCTransferFees
    LimitChoices = {}
    ExecOptions = {}
    MinAmounts = {0}
    WireAmounts = {1}
    SpareAmounts = {}
    NewAuthorities <- MCNewAuthorities
    MaxSent = 1
    MaxVerified = 2
    MaxTime = 0
SPECIFICATION ExecutorSpec
CHECK_DEADLOCK FALSE
INVARIANTS
    ExecutorTypeOK
    AnswersFit
PROPERTIES
    PayableIsPaid
