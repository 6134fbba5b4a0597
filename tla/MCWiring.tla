------------------------------ MODULE MCWiring ------------------------------
EXTENDS Wiring

\* Two pathways from the same EVM chain, and one from Solana.
MCConnections ==
    {[from |-> "arb", to |-> "sol"], [from |-> "arb", to |-> "base"],
     [from |-> "sol", to |-> "arb"]}
=============================================================================
