------------------------------- MODULE MOROFT -------------------------------
(***************************************************************************)
(* MOR on an EVM chain: contracts/MOROFT.sol, an ERC-20 with minters, burns *)
(* and LayerZero's OFT, as deploy/deploy.ts deploys it, and the script     *)
(* that sends from it, utils/evm/sendSepoliaOFT.ts.  A call that reverts   *)
(* leaves no trace: each require is a guard.                               *)
(*                                                                         *)
(* The base contracts (OFT of LayerZero, ERC20 and Ownable of OpenZeppelin) *)
(* are not in the repository.  They are modelled as this contract uses     *)
(* them: an OFT burns what it sends and mints what it receives.            *)
(***************************************************************************)
EXTENDS Integers, FiniteSets

CONSTANTS
    None,
    Accounts,           \* addresses on the chain
    Deployer,           \* the account that deploys
    OApps,              \* addresses an owner may set as peer on Solana
    EvmBase,            \* 10 in the code
    EvmDecimals,        \* 18 in the code
    EvmSharedDecimals,  \* 6 in the code
    UnitDecimals,       \* 9 in sendSepoliaOFT.ts
    MintAmounts,        \* amounts minted, burnt and allowed
    ClientAmounts,      \* amounts given to the send script
    MaxEvmSupply,       \* bound on the supply
    MaxOutbox           \* bound on the packets sent

\* decimalConversionRate.
EvmRate == EvmBase ^ (EvmDecimals - EvmSharedDecimals)

\* What the constants must be; Bridge, which instantiates this module, assumes it.
ContractParameters ==
    /\ IsFiniteSet(Accounts) /\ Deployer \in Accounts
    /\ EvmBase \in Nat \ {0} /\ EvmDecimals \in Nat /\ EvmSharedDecimals \in 0..EvmDecimals
    /\ UnitDecimals \in Nat
    /\ EvmRate \in Nat \ {0} /\ EvmBase ^ UnitDecimals \in Nat \ {0}
    /\ MintAmounts \subseteq Nat /\ ClientAmounts \subseteq Nat
    /\ MaxEvmSupply \in Nat /\ MaxOutbox \in Nat
    /\ None \notin OApps \cup ClientAmounts

VARIABLES
    balanceOf,          \* account -> amount
    allowance,          \* account -> spender -> amount
    totalSupply,
    isMinter,           \* account -> BOOLEAN
    owner,
    peers,              \* the peer on Solana, None before setPeer
    outbox,             \* packets handed to the endpoint
    executed,           \* packets delivered by lzReceive
    issued_wei          \* history: minted by minters, less burnt by holders

tokenState == <<balanceOf, allowance, totalSupply>>
roleState == <<isMinter, owner, peers>>
packetState == <<outbox, executed>>
evmVars == <<tokenState, roleState, packetState, issued_wei>>

\* deploy.ts makes the deployer owner and minter.
EvmInit ==
    /\ balanceOf = [a \in Accounts |-> 0]
    /\ allowance = [a \in Accounts |-> [s \in Accounts |-> 0]]
    /\ totalSupply = 0
    /\ isMinter = [a \in Accounts |-> a = Deployer]
    /\ owner = Deployer
    /\ peers = None
    /\ outbox = {} /\ executed = {}
    /\ issued_wei = 0
----------------------------------------------------------------------------
\* ERC20._mint and _burn.

Minted(account, amount) ==
    /\ totalSupply' = totalSupply + amount
    /\ balanceOf' = [balanceOf EXCEPT ![account] = @ + amount]

Burnt(account, amount) ==
    /\ balanceOf[account] >= amount
    /\ totalSupply' = totalSupply - amount
    /\ balanceOf' = [balanceOf EXCEPT ![account] = @ - amount]

mint(caller, account, amount) ==
    /\ isMinter[caller]
    /\ totalSupply + amount <= MaxEvmSupply
    /\ Minted(account, amount)
    /\ issued_wei' = issued_wei + amount
    /\ UNCHANGED <<allowance, roleState, packetState>>

burn(caller, amount) ==
    /\ Burnt(caller, amount)
    /\ issued_wei' = issued_wei - amount
    /\ UNCHANGED <<allowance, roleState, packetState>>

approve(caller, spender, amount) ==
    /\ allowance' = [allowance EXCEPT ![caller][spender] = amount]
    /\ UNCHANGED <<balanceOf, totalSupply, roleState, packetState, issued_wei>>

burnFrom(caller, account, amount) ==
    /\ allowance[account][caller] >= amount
    /\ allowance' = [allowance EXCEPT ![account][caller] = @ - amount]
    /\ Burnt(account, amount)
    /\ issued_wei' = issued_wei - amount
    /\ UNCHANGED <<roleState, packetState>>

updateMinter(caller, minter, status) ==
    /\ caller = owner
    /\ isMinter' = [isMinter EXCEPT ![minter] = status]
    /\ UNCHANGED <<tokenState, owner, peers, packetState, issued_wei>>

transferOwnership(caller, new_owner) ==
    /\ caller = owner
    /\ owner' = new_owner
    /\ UNCHANGED <<tokenState, isMinter, peers, packetState, issued_wei>>

setPeer(caller, oapp) ==
    /\ caller = owner
    /\ peers' = oapp
    /\ UNCHANGED <<tokenState, isMinter, owner, packetState, issued_wei>>
----------------------------------------------------------------------------
\* The OFT.

removeDust(amountLD) == (amountLD \div EvmRate) * EvmRate

\* Mutant of DebitView: the dust is burnt and the minimum compared with it.
DebitDust(amountLD, minAmountLD) == [sent |-> amountLD, ok |-> amountLD >= minAmountLD]

\* _debitView: what is burnt is what arrives.
DebitView(amountLD, minAmountLD) ==
    [sent |-> removeDust(amountLD), ok |-> removeDust(amountLD) >= minAmountLD]

\* send, with the client's amount in asked if it is the script that calls.
Send(caller, to, amountLD, minAmountLD, asked) ==
    LET debit == DebitView(amountLD, minAmountLD)
    IN /\ peers # None
       /\ debit.ok
       /\ Burnt(caller, debit.sent)
       /\ outbox' = outbox \cup
             {[nonce |-> Cardinality({p \in outbox : p.oapp = peers}) + 1, oapp |-> peers,
               to |-> to, amount_sd |-> debit.sent \div EvmRate, asked |-> asked]}
       /\ UNCHANGED <<allowance, roleState, executed, issued_wei>>

\* Mutant of Executed: the payload stays with the endpoint.
Peeked(packet) == executed' = executed

\* The endpoint clears the payload, once.
Executed(packet) ==
    /\ packet \notin executed
    /\ executed' = executed \cup {packet}

\* lzReceive of a packet from this OApp on Solana.
lzReceive(packet, oapp, to) ==
    /\ peers = oapp
    /\ Executed(packet)
    /\ Minted(to, packet.amount_sd * EvmRate)
    /\ UNCHANGED <<allowance, roleState, outbox, issued_wei>>
----------------------------------------------------------------------------
\* sendOFTEVM: the amount is parsed with 9 decimals, nine tenths of it must
\* arrive.  quoteSend looks at the same parameters first, and a price that is
\* stale makes the send revert: a call that comes through is one Send.

\* Mutant of parseUnits: the amount is taken as it is.
AsWei(amount) == amount

parseUnits(amount) == amount * (EvmBase ^ UnitDecimals)

minAmountLD(amountLD) == (amountLD * 9000) \div 10000

sendOFTEVM(caller, to, amount) ==
    Send(caller, to, parseUnits(amount), minAmountLD(parseUnits(amount)), amount)
----------------------------------------------------------------------------
Owner(caller) ==
    \/ \E a \in Accounts, status \in BOOLEAN : updateMinter(caller, a, status)
    \/ \E a \in Accounts : transferOwnership(caller, a)
    \/ \E oapp \in OApps : setPeer(caller, oapp)

Holder(caller) ==
    \E amount \in MintAmounts :
        \/ burn(caller, amount)
        \/ \E a \in Accounts :
               \/ mint(caller, a, amount)
               \/ approve(caller, a, amount)
               \/ burnFrom(caller, a, amount)

\* Any caller of send, with any minimum, and the script.
Sender(caller, to) ==
    /\ Cardinality(outbox) < MaxOutbox
    /\ \/ \E amount \in MintAmounts : Send(caller, to, amount, 0, None)
       \/ \E amount \in ClientAmounts : sendOFTEVM(caller, to, amount)
=============================================================================
