CONSTANTS
    MaxU64 = 4
    MAX_FEE_BASIS_POINTS = 10
    None = None
    Users = {alice}
    alice = alice
    Keys = {k1, k2}
    k2 = k2
    k1 = k1
    Pausers = {k2}
    ComposeChoices = {FALSE}
    Eids = {base}
    base = base
    Remotes = {mor}
    PeerAddresses <- MCPeerAddresses
    mor = mor
    DecimalBase = 2
    TokenDecimals = 1
    SharedDecimals = {0, 2}
    InitialBalance = 3
    FeeChoices = {}
    TransferFees <- MCNoTransferFee
    LimitChoices <- MCLimitChoices
    ExecOptions = {}
    MinAmounts = {0}
    WireAmounts = {1, 3}
    SpareAmounts = {}
    NewAuthorities = {"OFTStore", "Multisig"}
    MaxSent = 1
    MaxVerified = 1
    MaxTime = 1
SPECIFICATION Spec
CHECK_DEADLOCK FALSE
PROPERTIES
    PeersKeepLimits
    PauseFreezes
