---------------------------- MODULE MCOFTQuote ----------------------------
\* Values for model checking OFTQuote: one whole is 10 basis points and
\* u64::MAX is 45, so that every branch of the fee arithmetic is met.
EXTENDS OFTQuote

MCRates == {1, 2, 5, 10}
MCDefaultFees == {0, 3}
MCPeerFees == {None, 0, 1, 9}
MCTransferFees == [bps : {0, 1, 5, 9, 10}, max : {0, 1, 4, MaxU64}]
=============================================================================
