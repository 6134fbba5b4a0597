------------------------------- MODULE MCOFT -------------------------------
\* Values for model checking OFT.  One whole is 10 basis points, and a mint of
\* one decimal over zero or one shared decimals gives ld2sd_rate 2 or 1.
EXTENDS OFT

\* Half of an amount, at most 2 units; and no transfer fee.
MCTransferFees == {[bps |-> 0, max |-> 0], [bps |-> 5, max |-> 2]}
MCNoTransferFee == {[bps |-> 0, max |-> 0]}

\* Wiring, rewiring and unwiring.
MCPeerAddresses == {None} \cup Remotes

\* A new limit, a change of its rate alone, and its end.
MCLimitChoices ==
    {None, [refill_per_second |-> 1, capacity |-> 3],
           [refill_per_second |-> 2, capacity |-> None]}
=============================================================================
