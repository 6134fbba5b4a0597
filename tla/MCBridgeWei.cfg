CONSTANTS
    MaxU64 = 4
    MAX_FEE_BASIS_POINTS = 10
    None = None
    Users = {alice}
    alice = alice
    Keys = {k1}
    k1 = k1
    Pausers = {}
    ComposeChoices = {FALSE}
    Eids = {base}
    base = base
    Remotes = {mor}
    PeerAddresses = {mor}
    mor = mor
    DecimalBase = 2
    TokenDecimals = 1
    SharedDecimals = {0}
    InitialBalance = 4
    FeeChoices = {}
    TransferFees <- MCNoTransferFee
    LimitChoices = {}
    ExecOptions = {}
    MinAmounts = {0}
    WireAmounts = {0, 1, 2}
    SpareAmounts = {}
    NewAuthorities = {"OFTStore"}
    MaxSent = 2
    MaxVerified = 2
    MaxTime = 0
    Accounts = {dev}
    dev = dev
    Deployer = dev
    OApps = {store, stale}
    store = store
    stale = stale
    EvmBase = 2
    EvmDecimals = 2
    EvmSharedDecimals = 0
    UnitDecimals = 1
    MintAmounts = {5}
    ClientAmounts = {2, 3, 4}
    MaxEvmSupply = 9
    MaxOutbox = 2
    Evm = base
    Mor = mor
    Store = store
SPECIFICATION BridgeSpec
CHECK_DEADLOCK FALSE
INVARIANTS
    AskedIsWei
