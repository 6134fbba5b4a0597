CONSTANTS
    MaxU64 = 8
    MAX_FEE_BASIS_POINTS = 10
    None = None
    Users = {alice}
    alice = alice
    Keys = {k1}
    k1 = k1
    Pausers = {}
    ComposeChoices = {FALSE}
    Eids = {base}
    base = base
    Remotes = {mor}
    PeerAddresses = {mor}
    mor = mor
    DecimalBase = 2
    TokenDecimals = 1
    SharedDecimals = {0}
    InitialBalance = 6
    FeeChoices = {5, 10}
    TransferFees <- MCTransferFees
    LimitChoices = {}
    ExecOptions = {}
    MinAmounts = {0, 3}
    WireAmounts = {1}
    SpareAmounts = {2}
    NewAuthorities = {"OFTStore", "Multisig"}
    MaxSent = 2
    MaxVerified = 2
    MaxTime = 0
SPECIFICATION Spec
CHECK_DEADLOCK FALSE
INVARIANTS
    TypeOK
    TvlBacked
    EscrowAccounted
    TvlIsOutstanding
    SupplyAccounted
    PaidOnce
    AnnouncedIsCredited
    TermsHonoured
