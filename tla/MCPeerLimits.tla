---------------------------- MODULE MCPeerLimits ----------------------------
\* Values for model checking PeerLimits and its meter: amounts up to 5, three
\* seconds, and every kind of reconfiguration: both settings, either one alone,
\* none, and lifting the limit.
EXTENDS MeteredLimits

MCLimitChoices ==
    [refill_per_second : {1, 3, None}, capacity : {0, 3, None}] \cup {None}
=============================================================================
