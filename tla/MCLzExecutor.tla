---------------------------- MODULE MCLzExecutor ----------------------------
EXTENDS LzExecutor

\* Half of an amount, at most 2 units; and no transfer fee.
MCTransferFees == {[bps |-> 0, max |-> 0], [bps |-> 5, max |-> 2]}

\* The authority is handed to the OFT store, or given up.
MCNewAuthorities == {"OFTStore", None}
=============================================================================
