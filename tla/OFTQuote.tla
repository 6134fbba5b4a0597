----------------------------- MODULE OFTQuote -----------------------------
(***************************************************************************)
(* The quote_oft instruction over every amount a caller can ask for:       *)
(*   programs/moroft/src/instructions/quote_oft.rs                         *)
(* A behaviour fixes the terms (the store's configuration, the peer's fee  *)
(* and the mint's transfer fee of the current epoch) and asks for larger   *)
(* and larger amounts.  Invariants judge one quote; action properties      *)
(* compare the quotes of neighbouring amounts.                             *)
(***************************************************************************)
EXTENDS OFTMath

CONSTANTS
    Rates,          \* values of ld2sd_rate: powers of ten in the code
    DefaultFees,    \* values of OFTStore.default_fee_bps
    PeerFees,       \* values of PeerConfig.fee_bps
    TransferFees    \* transfer fees of the mint

ASSUME QuoteAssumption ==
    /\ Rates \subseteq Nat \ {0}
    /\ DefaultFees \subseteq OftFeeBps
    /\ PeerFees \subseteq OftFeeBps \cup {None}
    /\ TransferFees \subseteq TransferFee

VARIABLES
    terms,      \* the configuration a quote is computed from
    amount_ld,  \* QuoteOFTParams.amount_ld
    quote       \* QuoteOFTResult

quoteVars == <<terms, amount_ld, quote>>

Terms == [oft_type : OFTType, ld2sd_rate : Rates, default_fee_bps : DefaultFees,
          fee_bps : PeerFees, transfer_fee : TransferFees]

Amounts(t, amount) ==
    compute_fee_and_adjust_amount(t.oft_type, t.ld2sd_rate,
        FinalFeeBps(t.default_fee_bps, t.fee_bps), t.transfer_fee, amount)

\* Mutant of TransferFeeDetail: the cross-chain fee is itemised twice.
TransferFeeDetailWhole(r) == r.sent - r.received

\* The two optional entries of oft_fee_details, 0 when the entry is absent.
TransferFeeDetail(r) ==
    IF r.received + r.fee < r.sent THEN r.sent - r.fee - r.received ELSE 0

CrossChainFeeDetail(r) == IF r.fee > 0 THEN r.fee ELSE 0

\* quote_oft on a store that is not paused, with min_amount_ld = 0.
quote_oft(t, amount) ==
    LET r == Amounts(t, amount)
    IN [sent            |-> r.sent,
        received        |-> r.received,
        transfer_fee    |-> TransferFeeDetail(r),
        cross_chain_fee |-> CrossChainFeeDetail(r)]

QuoteInit ==
    /\ terms \in Terms
    /\ amount_ld = 0
    /\ quote = quote_oft(terms, 0)

AskForMore ==
    /\ amount_ld < MaxU64
    /\ amount_ld' = amount_ld + 1
    /\ quote' = quote_oft(terms, amount_ld + 1)
    /\ UNCHANGED terms

QuoteNext == AskForMore

QuoteSpec == QuoteInit /\ [][QuoteNext]_quoteVars
----------------------------------------------------------------------------
\* Every component of a quote is a u64, so that none of the u64 subtractions
\* and additions on the way to it can abort the instruction.
QuoteTypeOK ==
    /\ terms \in Terms
    /\ amount_ld \in U64
    /\ quote \in [sent : U64, received : U64, transfer_fee : U64, cross_chain_fee : U64]

\* compute_fee_and_adjust_amount never takes more than the caller asked to
\* send: undoing the transfer fee of a rounded-down amount cannot climb back
\* above the amount it started from.
SentAtMostAsked == quote.sent <= amount_ld

\* For an Adapter, transferring amount_sent_ld to the escrow puts exactly the
\* delivered amount and the retained fee in it, whatever the transfer fee
\* withholds on the way: tvl_ld grows by no more than what arrives.
EscrowGetsQuote ==
    terms.oft_type = "Adapter" =>
        get_post_fee_amount_ld(terms.transfer_fee, quote.sent)
            = quote.received + quote.cross_chain_fee

\* calculate_pre_fee_amount charges the least amount that does so: one unit
\* less would leave the escrow short.
SentIsLeast ==
    terms.oft_type = "Adapter" /\ quote.sent > 0 =>
        get_post_fee_amount_ld(terms.transfer_fee, quote.sent - 1)
            < quote.received + quote.cross_chain_fee

\* The itemised fees of quote_oft explain exactly the difference between what
\* leaves the sender and what the recipient gets.
FeeDetailsAddUp ==
    quote.sent = quote.received + quote.transfer_fee + quote.cross_chain_fee

\* What is delivered survives the conversion to shared decimals and back: the
\* amount_sd that send puts in the message is worth all of it.
NothingLostOnTheWire ==
    sd2ld(ld2sd(quote.received, terms.ld2sd_rate), terms.ld2sd_rate) = quote.received

\* Asking for more never delivers less, nor charges less, in spite of two fees
\* and three roundings: a caller cannot gain by splitting off one unit.
MoreAskedMoreDelivered ==
    [][quote'.received >= quote.received /\ quote'.sent >= quote.sent]_quoteVars
=============================================================================
