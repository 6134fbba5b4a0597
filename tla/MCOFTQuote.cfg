CONSTANTS
    MaxU64 = 45
    MAX_FEE_BASIS_POINTS = 10
    None = None
    Rates <- MCRates
    DefaultFees <- MCDefaultFees
    PeerFees <- MCPeerFees
    TransferFees <- MCTransferFees
SPECIFICATION QuoteSpec
CHECK_DEADLOCK FALSE
INVARIANTS
    SentAtMostAsked
    EscrowGetsQuote
    SentIsLeast
    FeeDetailsAddUp
    NothingLostOnTheWire
PROPERTIES
    MoreAskedMoreDelivered
