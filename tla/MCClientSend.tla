--------------------------- MODULE MCClientSend ---------------------------
EXTENDS ClientSend

\* Half of an amount, at most 2 units; and no transfer fee.
MCTransferFees == {[bps |-> 0, max |-> 0], [bps |-> 5, max |-> 2]}

\* No data or an error; slots of both kinds.
MCSamples == {<<>>, <<3, 0, 4>>}
=============================================================================
