------------------------------ MODULE MCBridge ------------------------------
\* Rates 2 on Solana and 4 on the EVM chain; the unit of the send script is
\* 2 wei, a unit of the token on Solana.
EXTENDS Bridge

MCNoTransferFee == {[bps |-> 0, max |-> 0]}
=============================================================================
