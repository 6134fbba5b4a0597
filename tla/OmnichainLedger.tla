-------------------------- MODULE OmnichainLedger --------------------------
(***************************************************************************)
(* What MOR promises across chains: one token, of which every chain keeps a *)
(* part in units of its own.  Value leaves a chain as a transfer, a        *)
(* transfer arrives once at most and with the value it left with, and only *)
(* an issuer changes how much there is.                                    *)
(***************************************************************************)
EXTENDS Integers

CONSTANTS
    Chains,
    Rate,           \* chain -> local units in a shared unit
    Opening         \* chain -> supply at first

\* What the constants must be; Bridge, which instantiates this module, assumes it.
LedgerParameters ==
    /\ Rate \in [Chains -> Nat \ {0}]
    /\ Opening \in [Chains -> Nat]

VARIABLES
    supply,         \* chain -> local units in circulation there
    issued,         \* chain -> local units made by issuers, less those destroyed
    transit,        \* transfers that have left and not arrived
    arrived         \* transfers that have arrived

ledgerVars == <<supply, issued, transit, arrived>>

\* What is worth this many shared units on this chain.
Worth(chain, value) == Rate[chain] * value

LedgerInit ==
    /\ supply = Opening
    /\ issued = [c \in Chains |-> 0]
    /\ transit = {} /\ arrived = {}

Depart(from, to, id, value) ==
    LET transfer == [from |-> from, to |-> to, id |-> id, value |-> value]
    IN /\ from # to
       /\ \A t \in transit \cup arrived : t.from = from => t.id # id
       /\ supply[from] >= Worth(from, value)
       /\ supply' = [supply EXCEPT ![from] = @ - Worth(from, value)]
       /\ transit' = transit \cup {transfer}
       /\ UNCHANGED <<issued, arrived>>

Arrive(transfer) ==
    /\ supply' = [supply EXCEPT ![transfer.to] = @ + Worth(transfer.to, transfer.value)]
    /\ transit' = transit \ {transfer}
    /\ arrived' = arrived \cup {transfer}
    /\ UNCHANGED issued

\* An issuer mints, or a holder destroys what is theirs.
Issue(chain, amount) ==
    /\ supply[chain] + amount >= 0
    /\ supply' = [supply EXCEPT ![chain] = @ + amount]
    /\ issued' = [issued EXCEPT ![chain] = @ + amount]
    /\ UNCHANGED <<transit, arrived>>

\* The transfer and the amount of a step are those it adds.
LedgerNext ==
    \/ \E t \in transit' : Depart(t.from, t.to, t.id, t.value)
    \/ \E t \in transit : Arrive(t)
    \/ \E c \in Chains : Issue(c, issued'[c] - issued[c])

LedgerSpec == LedgerInit /\ [][LedgerNext]_ledgerVars
=============================================================================
