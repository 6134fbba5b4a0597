------------------------------- MODULE Bridge -------------------------------
(***************************************************************************)
(* Both ends of the bridge and what is on its way: the moroft program on   *)
(* Solana (OFT), MOROFT on an EVM chain, and LayerZero between them.  A    *)
(* packet is verified on the other side only if it was sent, in the order  *)
(* of its nonces, and executed whenever the receiver is ready for it: in   *)
(* any order, late, or never if the two are not wired to each other.       *)
(***************************************************************************)
EXTENDS OFT

CONSTANTS
    Accounts, Deployer, OApps, EvmBase, EvmDecimals, EvmSharedDecimals, UnitDecimals,
    MintAmounts, ClientAmounts, MaxEvmSupply, MaxOutbox,    \* of MOROFT
    Evm,                \* the endpoint id of its chain
    Mor,                \* its address, as a peer of the program
    Store               \* the address of the OFT store, as a peer of MOROFT

VARIABLES balanceOf, allowance, totalSupply, isMinter, owner, peers, outbox, executed,
          issued_wei

evm == INSTANCE MOROFT

contractVars ==
    <<balanceOf, allowance, totalSupply, isMinter, owner, peers, outbox, executed, issued_wei>>
bridgeVars == <<vars, contractVars>>

\* Both sides must agree on the shared decimals: a message carries a number
\* of shared units, and each side has a rate of its own.
ASSUME BridgeAssumption ==
    /\ evm!ContractParameters
    /\ Evm \in Eids /\ Mor \in Remotes /\ Store \in OApps
    /\ SharedDecimals = {EvmSharedDecimals} /\ DecimalBase = EvmBase
    /\ EvmSharedDecimals <= TokenDecimals
    /\ EvmDecimals = TokenDecimals + UnitDecimals
    \* Follows from the line above: b^(m + n) = b^m * b^n, for provers without powers.
    /\ evm!EvmRate = RateOf(EvmSharedDecimals) * EvmBase ^ UnitDecimals

BridgeInit == Init /\ evm!EvmInit
----------------------------------------------------------------------------
\* Packets of one side as the other side knows them.

ToEvm(p) == p.eid = Evm /\ p.remote = Mor
ToStore(p) == p.oapp = Store

\* A verified packet is one that MOROFT sent to the store.
Genuine(q) ==
    \E p \in outbox :
        /\ ToStore(p)
        /\ q.eid = Evm /\ q.remote = Mor /\ q.nonce = p.nonce
        /\ q.to = p.to /\ q.amount_sd = p.amount_sd /\ ~q.compose

OnSolana ==
    /\ Next
    /\ \A q \in inbox' \ inbox : Genuine(q)
    /\ UNCHANGED contractVars

\* The recipient is part of the message; OFT leaves it out of its packets.
Deliver(packet, to) ==
    /\ ToEvm(packet)
    /\ evm!lzReceive(packet, Store, to)
    /\ UNCHANGED vars

OnEvm ==
    /\ \E caller \in Accounts :
           evm!Owner(caller) \/ evm!Holder(caller) \/ \E to \in Users : evm!Sender(caller, to)
    /\ UNCHANGED vars

BridgeNext ==
    \/ OnSolana
    \/ OnEvm
    \/ \E packet \in sent, to \in Accounts : Deliver(packet, to)

BridgeSpec == BridgeInit /\ [][BridgeNext]_bridgeVars
----------------------------------------------------------------------------
\* Nonces, per destination, identify the packets of a chain.
PaidNonces == {e.packet.nonce : e \in received}
Paid(p) == ToStore(p) /\ p.nonce \in PaidNonces

FromSolana(p) ==
    [from |-> "Solana", to |-> "EVM", id |-> <<p.eid, p.remote, p.nonce>>,
     value |-> p.amount_sd]
FromEvm(p) ==
    [from |-> "EVM", to |-> "Solana", id |-> <<p.oapp, p.nonce>>, value |-> p.amount_sd]

\* What the Solana side has put away for the other chains is not in circulation.
Locked == IF Initialized THEN oft_store.tvl_ld ELSE 0

Ledger == INSTANCE OmnichainLedger WITH
    Chains  <- {"Solana", "EVM"},
    Rate    <- [c \in {"Solana", "EVM"} |->
                   IF c = "Solana" THEN RateOf(EvmSharedDecimals) ELSE evm!EvmRate],
    Opening <- [c \in {"Solana", "EVM"} |->
                   IF c = "Solana" THEN InitialBalance * Cardinality(Users) ELSE 0],
    supply  <- [c \in {"Solana", "EVM"} |->
                   IF c = "Solana" THEN supply - Locked ELSE totalSupply],
    issued  <- [c \in {"Solana", "EVM"} |-> IF c = "Solana" THEN minted_ld ELSE issued_wei],
    transit <- {FromSolana(p) : p \in sent \ executed}
                   \cup {FromEvm(p) : p \in {q \in outbox : ~Paid(q)}},
    arrived <- {FromSolana(p) : p \in executed}
                   \cup {FromEvm(p) : p \in {q \in outbox : Paid(q)}}

ASSUME BridgeLedgerAssumption == Ledger!LedgerParameters

\* Program, contract and whatever is between them are one ledger: what send
\* burns or locks on one chain is, to the last unit, what one lzReceive mints or
\* unlocks on the other, whichever side is Native or Adapter, paused, unwired or
\* behind, and in whatever order packets are executed.  Only minters add to it.
OneLedger == Ledger!LedgerSpec

\* What is on its way, in shared units: packets sent and not executed, those of
\* pathways that are wired to nobody included.
OnTheWay ==
    MapThenSumSet(LAMBDA p : p.amount_sd, sent \ executed)
        + MapThenSumSet(LAMBDA p : p.amount_sd, {q \in outbox : ~Paid(q)})

\* In wei, what circulates on both chains and what is between them is at any
\* moment what there was at first and what minters have added since.  No rounding,
\* fee, late packet or change of peers makes or loses a unit.
MorConserved ==
    LET unit == EvmBase ^ UnitDecimals
    IN unit * (supply - Locked) + totalSupply + evm!EvmRate * OnTheWay =
           unit * (InitialBalance * Cardinality(Users) + minted_ld) + issued_wei

\* An Adapter can pay every packet that is on its way to it, in any order, as
\* long as nobody has issued MOR on the EVM chain beyond what was burnt there:
\* the checked subtraction from tvl_ld in lz_receive does not strand a transfer.
ReturnsCovered ==
    IsAdapter /\ issued_wei <= 0 =>
        oft_store.tvl_ld >=
            MapThenSumSet(LAMBDA p : sd2ld(p.amount_sd, oft_store.ld2sd_rate),
                          {q \in outbox : ToStore(q) /\ ~Paid(q)})

\* The script's amount is in the token's units on Solana: of the amount asked for,
\* at least nine tenths, rounded down, arrive there, and never more than was asked.
AskedArrives ==
    \A p \in outbox :
        p.asked # None =>
            LET amount_ld == sd2ld(p.amount_sd, RateOf(EvmSharedDecimals))
            IN amount_ld >= (9 * p.asked) \div 10 /\ amount_ld <= p.asked

\* The task says of its amount "Amount to send in wei".
AskedIsWei ==
    \A p \in outbox : p.asked # None => p.amount_sd * evm!EvmRate <= p.asked
=============================================================================
