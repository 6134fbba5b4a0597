-------------------------------- MODULE OFT --------------------------------
(***************************************************************************)
(* The moroft program on Solana: programs/moroft/src/lib.rs and every      *)
(* instruction of it that changes state, one action each.  An instruction  *)
(* that returns an error or panics leaves no trace, so each require!, each *)
(* account constraint and each checked u64 operation is a guard.           *)
(*                                                                         *)
(* Around the program stand parts that are not in the repository and are   *)
(* modelled from how it uses them: the token program (balances, the mint   *)
(* and its transfer fee), the LayerZero endpoint (sent and verified        *)
(* packets) and the clock.                                                 *)
(***************************************************************************)
EXTENDS RateLimiter, FiniteSets, FiniteSetsExt

CONSTANTS
    Users,              \* holders of the token
    Keys,               \* keys an admin, pauser or unpauser can have
    Pausers,            \* values of pauser and unpauser an admin may set
    Eids,               \* endpoint ids of remote chains
    Remotes,            \* OApp addresses on remote chains
    PeerAddresses,      \* peer addresses an admin may set, None for the zero address
    DecimalBase,        \* 10 in the code
    TokenDecimals,      \* decimals of the mint
    SharedDecimals,     \* values of InitOFTParams.shared_decimals
    InitialBalance,     \* what every user holds at first
    FeeChoices,         \* cross-chain fees an admin may set
    TransferFees,       \* transfer fees the mint may have
    LimitChoices,       \* RateLimitParams an admin may set
    ExecOptions,        \* executor options a message may carry
    ComposeChoices,     \* whether messages may carry a compose message
    MinAmounts,         \* SendParams.min_amount_ld values tried
    WireAmounts,        \* amount_sd values that arrive from remote chains
    SpareAmounts,       \* amounts minted or donated by others than the program
    NewAuthorities,     \* what a deployer may make of the mint's authority
    MaxSent,            \* bound on the packets sent
    MaxVerified,        \* bound on the packets verified
    MaxTime             \* bound on the clock

RateOf(shared_decimals) == DecimalBase ^ (TokenDecimals - shared_decimals)

VARIABLES
    \* accounts of the program
    oft_store,      \* OFTStore, None before init_oft
    peer,           \* eid -> PeerConfig, None before the first set_peer_config
    \* the token program
    balance,        \* user -> amount
    escrow,         \* amount of the token_escrow account
    supply,         \* supply of the mint
    mint_authority, \* of the mint
    transfer_fee,   \* of the mint, in the current epoch
    \* the endpoint and the runtime
    delegate,       \* the OApp's delegate
    sent,           \* packets handed to the endpoint
    inbox,          \* packets verified and not cleared yet
    now,            \* Clock::get().unix_timestamp
    \* history
    received,       \* OFTReceived events, with the packet they answer
    credited,       \* user -> tokens lz_receive put on the user's account
    out_sd, in_sd,  \* totals of amount_sd sent and paid out
    fees_ld,        \* what the admin may withdraw from the escrow
    minted_ld       \* tokens minted by others than the program

programVars == <<oft_store, peer>>
tokenVars == <<balance, escrow, supply, mint_authority, transfer_fee>>
chainVars == <<delegate, sent, inbox, now>>
historyVars == <<received, credited, out_sd, in_sd, fees_ld, minted_ld>>
vars == <<programVars, tokenVars, chainVars, historyVars>>
----------------------------------------------------------------------------
OFTStore ==
    [oft_type : OFTType, ld2sd_rate : Nat \ {0}, tvl_ld : U64, admin : Keys,
     default_fee_bps : OftFeeBps, paused : BOOLEAN,
     pauser : Keys \cup {None}, unpauser : Keys \cup {None}]

\* EnforcedOptions, one set of executor options for each kind of message.
EnforcedOptions == [send : SUBSET ExecOptions, send_and_call : SUBSET ExecOptions]

\* A peer_address of None stands for the zero address of a fresh account.
PeerConfig ==
    [peer_address : Remotes \cup {None}, enforced_options : EnforcedOptions,
     outbound_rate_limiter : Limiter \cup {None},
     inbound_rate_limiter : Limiter \cup {None},
     fee_bps : OftFeeBps \cup {None}]

DefaultPeer ==
    [peer_address |-> None,
     enforced_options |-> [send |-> {}, send_and_call |-> {}],
     outbound_rate_limiter |-> None, inbound_rate_limiter |-> None, fee_bps |-> None]

\* Who may mint: the key that made the mint, the OFT store alone, a 1-of-n
\* multisig with the OFT store among its signers, or nobody any more.
MintAuthority == {"Deployer", "OFTStore", "Multisig", None}

\* EnforcedOptions::combine_options: the enforced options of the kind of
\* message, then the caller's.
combine_options(enforced, compose, extra) ==
    extra \cup (IF compose THEN enforced.send_and_call ELSE enforced.send)

Initialized == oft_store # None

ASSUME OFTAssumption ==
    /\ IsFiniteSet(Users) /\ IsFiniteSet(Eids)
    /\ TokenDecimals \in Nat /\ SharedDecimals \subseteq Nat
    /\ \A d \in SharedDecimals : d <= TokenDecimals => RateOf(d) \in Nat \ {0}
    /\ InitialBalance \in U64 /\ InitialBalance * Cardinality(Users) \in U64
    /\ FeeChoices \subseteq Nat
    /\ TransferFees \subseteq TransferFee /\ TransferFees # {}
    /\ LimitChoices \subseteq LimitParams \cup {None}
    /\ MinAmounts \subseteq U64 /\ WireAmounts \subseteq U64 /\ SpareAmounts \subseteq U64
    /\ MaxSent \in Nat /\ MaxVerified \in Nat /\ MaxTime \in U64
    /\ NewAuthorities \subseteq MintAuthority \ {"Deployer"}
    /\ PeerAddresses \subseteq Remotes \cup {None}
    /\ Pausers \subseteq Keys \cup {None} /\ ComposeChoices \subseteq BOOLEAN
    /\ None \notin Keys \cup Remotes \cup OFTStore \cup PeerConfig
----------------------------------------------------------------------------
Init ==
    /\ oft_store = None
    /\ peer = [e \in Eids |-> None]
    /\ balance = [u \in Users |-> InitialBalance]
    /\ escrow = 0
    /\ supply = InitialBalance * Cardinality(Users)
    /\ mint_authority = "Deployer"
    /\ transfer_fee \in TransferFees
    /\ delegate = None
    /\ sent = {}
    /\ inbox = {}
    /\ now = 0
    /\ received = {}
    /\ credited = [u \in Users |-> 0]
    /\ out_sd = 0
    /\ in_sd = 0
    /\ fees_ld = 0
    /\ minted_ld = 0

\* init_oft.  The escrow account is created empty.
init_oft(oft_type, admin, shared_decimals) ==
    /\ ~Initialized
    /\ TokenDecimals >= shared_decimals
    /\ Fits(RateOf(shared_decimals))
    /\ oft_store' = [oft_type |-> oft_type, ld2sd_rate |-> RateOf(shared_decimals),
                     tvl_ld |-> 0, admin |-> admin, default_fee_bps |-> 0,
                     paused |-> FALSE, pauser |-> None, unpauser |-> None]
    /\ delegate' = admin
    /\ UNCHANGED <<peer, tokenVars, sent, inbox, now, historyVars>>
----------------------------------------------------------------------------
\* set_oft_config, one action per SetOFTConfigParams; has_one = admin.

ConfigStore(signer, new_store) ==
    /\ Initialized
    /\ signer = oft_store.admin
    /\ oft_store' = new_store
    /\ UNCHANGED <<peer, tokenVars, chainVars, historyVars>>

SetAdmin(signer, admin) == ConfigStore(signer, [oft_store EXCEPT !.admin = admin])

SetDelegate(signer, new_delegate) ==
    /\ Initialized
    /\ signer = oft_store.admin
    /\ delegate' = new_delegate
    /\ UNCHANGED <<programVars, tokenVars, sent, inbox, now, historyVars>>

\* Mutant of SetDefaultFee: any u16 is taken.
SetAnyFee(signer, fee_bps) ==
    ConfigStore(signer, [oft_store EXCEPT !.default_fee_bps = fee_bps])

SetDefaultFee(signer, fee_bps) ==
    /\ fee_bps < MAX_FEE_BASIS_POINTS
    /\ ConfigStore(signer, [oft_store EXCEPT !.default_fee_bps = fee_bps])

SetPaused(signer, paused) == ConfigStore(signer, [oft_store EXCEPT !.paused = paused])
SetPauser(signer, pauser) == ConfigStore(signer, [oft_store EXCEPT !.pauser = pauser])
SetUnpauser(signer, unpauser) == ConfigStore(signer, [oft_store EXCEPT !.unpauser = unpauser])

set_oft_config(signer) ==
    \/ \E key \in Keys : SetAdmin(signer, key) \/ SetDelegate(signer, key)
    \/ \E fee_bps \in FeeChoices : SetDefaultFee(signer, fee_bps)
    \/ \E paused \in BOOLEAN : SetPaused(signer, paused)
    \/ \E key \in Pausers : SetPauser(signer, key) \/ SetUnpauser(signer, key)

\* set_pause: the pauser pauses, the unpauser unpauses.
is_valid_signer(signer, paused) ==
    signer = IF paused THEN oft_store.pauser ELSE oft_store.unpauser

set_pause(signer, paused) ==
    /\ Initialized
    /\ is_valid_signer(signer, paused)
    /\ oft_store' = [oft_store EXCEPT !.paused = paused]
    /\ UNCHANGED <<peer, tokenVars, chainVars, historyVars>>
----------------------------------------------------------------------------
\* set_peer_config, one action per PeerConfigParam; the peer account is made
\* if needed.

PeerOrDefault(eid) == IF peer[eid] = None THEN DefaultPeer ELSE peer[eid]

ConfigPeer(signer, eid, config) ==
    /\ Initialized
    /\ signer = oft_store.admin
    /\ peer' = [peer EXCEPT ![eid] = config]
    /\ UNCHANGED <<oft_store, tokenVars, chainVars, historyVars>>

SetPeerAddress(signer, eid, address) ==
    ConfigPeer(signer, eid, [PeerOrDefault(eid) EXCEPT !.peer_address = address])

SetPeerFee(signer, eid, fee_bps) ==
    /\ fee_bps # None => fee_bps < MAX_FEE_BASIS_POINTS
    /\ ConfigPeer(signer, eid, [PeerOrDefault(eid) EXCEPT !.fee_bps = fee_bps])

SetEnforcedOptions(signer, eid, options) ==
    ConfigPeer(signer, eid, [PeerOrDefault(eid) EXCEPT !.enforced_options = options])

SetOutboundRateLimit(signer, eid, params) ==
    ConfigPeer(signer, eid, [PeerOrDefault(eid) EXCEPT !.outbound_rate_limiter =
        update_rate_limiter(@, params, now)])

SetInboundRateLimit(signer, eid, params) ==
    ConfigPeer(signer, eid, [PeerOrDefault(eid) EXCEPT !.inbound_rate_limiter =
        update_rate_limiter(@, params, now)])

set_peer_config(signer, eid) ==
    \/ \E address \in PeerAddresses : SetPeerAddress(signer, eid, address)
    \/ \E fee_bps \in FeeChoices \cup {None} : SetPeerFee(signer, eid, fee_bps)
    \/ \E options \in EnforcedOptions : SetEnforcedOptions(signer, eid, options)
    \/ \E params \in LimitChoices :
           SetOutboundRateLimit(signer, eid, params) \/ SetInboundRateLimit(signer, eid, params)
----------------------------------------------------------------------------
\* withdraw_fee.

\* Mutant of WithdrawableFee: everything in the escrow counts as fees.
WholeEscrow == escrow

WithdrawableFee == escrow - oft_store.tvl_ld

withdraw_fee(signer, fee_ld, dest) ==
    /\ Initialized
    /\ signer = oft_store.admin
    /\ Fits(WithdrawableFee)
    /\ WithdrawableFee >= fee_ld
    /\ escrow' = escrow - fee_ld
    /\ balance' = [balance EXCEPT ![dest] = @ + get_post_fee_amount_ld(transfer_fee, fee_ld)]
    /\ fees_ld' = fees_ld - fee_ld
    /\ UNCHANGED <<programVars, supply, mint_authority, transfer_fee, chainVars,
                   received, credited, out_sd, in_sd, minted_ld>>
----------------------------------------------------------------------------
\* send.

Amounts(eid, amount_ld) ==
    compute_fee_and_adjust_amount(oft_store.oft_type, oft_store.ld2sd_rate,
        FinalFeeBps(oft_store.default_fee_bps, peer[eid].fee_bps), transfer_fee, amount_ld)

\* Mutant of LockTokens: the fee is counted as locked value.
LockWithFee(user, r) ==
    /\ Fits(oft_store.tvl_ld + r.received + r.fee)
    /\ oft_store' = [oft_store EXCEPT !.tvl_ld = @ + r.received + r.fee]
    /\ balance' = [balance EXCEPT ![user] = @ - r.sent]
    /\ escrow' = escrow + get_post_fee_amount_ld(transfer_fee, r.sent)
    /\ fees_ld' = fees_ld + r.fee
    /\ UNCHANGED supply

\* Adapter: everything is transferred to the escrow.
LockTokens(user, r) ==
    /\ Fits(oft_store.tvl_ld + r.received)
    /\ oft_store' = [oft_store EXCEPT !.tvl_ld = @ + r.received]
    /\ balance' = [balance EXCEPT ![user] = @ - r.sent]
    /\ escrow' = escrow + get_post_fee_amount_ld(transfer_fee, r.sent)
    /\ fees_ld' = fees_ld + r.fee
    /\ UNCHANGED supply

\* Mutant of BurnTokens: the fee is burnt too.
BurnWithFee(user, r) ==
    /\ oft_store' = oft_store
    /\ balance' = [balance EXCEPT ![user] = @ - r.sent]
    /\ escrow' = escrow
    /\ fees_ld' = fees_ld
    /\ supply' = supply - r.sent

\* Native: all but the fee is burnt, the fee is transferred to the escrow.
BurnTokens(user, r) ==
    /\ supply >= r.sent - r.fee
    /\ oft_store' = oft_store
    /\ balance' = [balance EXCEPT ![user] = @ - r.sent]
    /\ escrow' = escrow + get_post_fee_amount_ld(transfer_fee, r.fee)
    /\ fees_ld' = fees_ld + get_post_fee_amount_ld(transfer_fee, r.fee)
    /\ supply' = supply - (r.sent - r.fee)

TakeTokens(user, r) ==
    IF oft_store.oft_type = "Adapter" THEN LockTokens(user, r) ELSE BurnTokens(user, r)

\* Mutant of Acceptable: the slippage check looks at what the sender pays.
AcceptableSent(r, min_amount_ld) == r.sent >= min_amount_ld

Acceptable(r, min_amount_ld) == r.received >= min_amount_ld

\* Mutant of LimitsAfterSend: the inbound limiter is left alone.
OutboundOnly(p, amount) ==
    [p EXCEPT !.outbound_rate_limiter = Charged(@, amount, now)]

\* The delivered amount is charged outbound and credited inbound.
LimitsAfterSend(p, amount) ==
    [p EXCEPT !.outbound_rate_limiter = Charged(@, amount, now),
              !.inbound_rate_limiter = Credited(@, amount, now)]

\* The nonce the endpoint gives to the next packet of a pathway.
NextNonce(packets, eid, remote) ==
    Cardinality({p \in packets : p.eid = eid /\ p.remote = remote}) + 1

\* The endpoint keeps no nonce for the zero address, so nothing is sent there.
send(user, eid, amount_ld, min_amount_ld, compose, options) ==
    /\ Initialized
    /\ peer[eid] # None
    /\ peer[eid].peer_address # None
    /\ ~oft_store.paused
    /\ LET r == Amounts(eid, amount_ld)
           amount_sd == ld2sd(r.received, oft_store.ld2sd_rate)
       IN /\ Acceptable(r, min_amount_ld)
          /\ Admits(peer[eid].outbound_rate_limiter, r.received, now)
          /\ balance[user] >= r.sent
          /\ peer' = [peer EXCEPT ![eid] = LimitsAfterSend(@, r.received)]
          /\ TakeTokens(user, r)
          /\ sent' = sent \cup
                {[eid |-> eid, remote |-> peer[eid].peer_address,
                  nonce |-> NextNonce(sent, eid, peer[eid].peer_address),
                  amount_sd |-> amount_sd,
                  compose |-> compose, min_amount_ld |-> min_amount_ld,
                  options |-> combine_options(peer[eid].enforced_options, compose, options)]}
          /\ out_sd' = out_sd + amount_sd
    /\ UNCHANGED <<mint_authority, transfer_fee, delegate, inbox, now, received,
                   credited, in_sd, minted_ld>>
----------------------------------------------------------------------------
\* lz_receive.

\* Mutant of UnlockTokens: tvl_ld goes down by what reaches the user only.
UnlockNet(user, amount_ld) ==
    LET net == get_post_fee_amount_ld(transfer_fee, amount_ld)
    IN /\ Fits(oft_store.tvl_ld - net)
       /\ escrow >= amount_ld
       /\ oft_store' = [oft_store EXCEPT !.tvl_ld = @ - net]
       /\ escrow' = escrow - amount_ld
       /\ balance' = [balance EXCEPT ![user] = @ + net]
       /\ credited' = [credited EXCEPT ![user] = @ + net]
       /\ UNCHANGED supply

\* Adapter: a transfer out of the escrow, of which the user gets what the
\* transfer fee leaves.
UnlockTokens(user, amount_ld) ==
    /\ Fits(oft_store.tvl_ld - amount_ld)
    /\ escrow >= amount_ld
    /\ oft_store' = [oft_store EXCEPT !.tvl_ld = @ - amount_ld]
    /\ escrow' = escrow - amount_ld
    /\ LET net == get_post_fee_amount_ld(transfer_fee, amount_ld)
       IN /\ balance' = [balance EXCEPT ![user] = @ + net]
          /\ credited' = [credited EXCEPT ![user] = @ + net]
    /\ UNCHANGED supply

\* Native: a mint, which the OFT store can sign for.
MintTokens(user, amount_ld) ==
    /\ mint_authority \in {"OFTStore", "Multisig"}
    /\ Fits(supply + amount_ld)
    /\ supply' = supply + amount_ld
    /\ balance' = [balance EXCEPT ![user] = @ + amount_ld]
    /\ credited' = [credited EXCEPT ![user] = @ + amount_ld]
    /\ UNCHANGED <<oft_store, escrow>>

GiveTokens(user, amount_ld) ==
    IF oft_store.oft_type = "Adapter" THEN UnlockTokens(user, amount_ld)
                                      ELSE MintTokens(user, amount_ld)

\* Mutant of AnnouncedAmount: the transfer fee is forgotten.
GrossAmount(amount_ld) == amount_ld

\* amount_received_ld of the OFTReceived event and of the compose message.
AnnouncedAmount(amount_ld) ==
    IF oft_store.oft_type = "Adapter"
    THEN get_post_fee_amount_ld(transfer_fee, amount_ld) ELSE amount_ld

LimitsAfterReceive(p, amount) ==
    [p EXCEPT !.inbound_rate_limiter = Charged(@, amount, now),
              !.outbound_rate_limiter = Credited(@, amount, now)]

\* Mutant of Clear: the payload stays with the endpoint.
Peek(packet) == packet \in inbox /\ inbox' = inbox

\* The endpoint's clear: the payload must be verified, and is gone afterwards.
Clear(packet) == packet \in inbox /\ inbox' = inbox \ {packet}

\* Mutant of Open: lz_receive is not stopped by a pause.
AlwaysOpen == Initialized

Open == Initialized /\ ~oft_store.paused

lz_receive(packet) ==
    /\ Open
    /\ peer[packet.eid] # None
    /\ peer[packet.eid].peer_address = packet.remote
    /\ Clear(packet)
    /\ LET amount_ld == sd2ld(packet.amount_sd, oft_store.ld2sd_rate)
       IN /\ Fits(amount_ld)
          /\ Admits(peer[packet.eid].inbound_rate_limiter, amount_ld, now)
          /\ peer' = [peer EXCEPT ![packet.eid] = LimitsAfterReceive(@, amount_ld)]
          /\ GiveTokens(packet.to, amount_ld)
          /\ received' = received \cup
                {[packet |-> packet, amount_received_ld |-> AnnouncedAmount(amount_ld)]}
    /\ in_sd' = in_sd + packet.amount_sd
    /\ UNCHANGED <<mint_authority, transfer_fee, delegate, sent, now, out_sd, fees_ld, minted_ld>>
----------------------------------------------------------------------------
\* What happens around the program.

\* The endpoint commits the verification of the next packet of a pathway.
\* Execution may come in any order, and much later.
Verify(eid, remote, to, amount_sd, compose) ==
    /\ inbox' = inbox \cup
          {[eid |-> eid, remote |-> remote,
            nonce |-> NextNonce(inbox \cup {e.packet : e \in received}, eid, remote),
            to |-> to, amount_sd |-> amount_sd, compose |-> compose]}
    /\ UNCHANGED <<programVars, tokenVars, delegate, sent, now, historyVars>>

\* A second passes.
Tick ==
    /\ now < MaxTime
    /\ now' = now + 1
    /\ UNCHANGED <<programVars, tokenVars, delegate, sent, inbox, historyVars>>

\* The deployer hands the mint over, to the OFT store or to the multisig, or
\* fixes the supply for good.
HandOverMint(authority) ==
    /\ mint_authority = "Deployer"
    /\ mint_authority' = authority
    /\ UNCHANGED <<programVars, balance, escrow, supply, transfer_fee, chainVars, historyVars>>

\* Who else can mint does: the deployer, or another signer of the multisig.
MintByOther(user, amount_ld) ==
    /\ mint_authority \in {"Deployer", "Multisig"}
    /\ Fits(supply + amount_ld)
    /\ supply' = supply + amount_ld
    /\ balance' = [balance EXCEPT ![user] = @ + amount_ld]
    /\ minted_ld' = minted_ld + amount_ld
    /\ UNCHANGED <<programVars, escrow, mint_authority, transfer_fee, chainVars,
                   received, credited, out_sd, in_sd, fees_ld>>

\* An epoch begins in which another transfer fee applies.
NewEpoch(fee) ==
    /\ fee # transfer_fee
    /\ transfer_fee' = fee
    /\ UNCHANGED <<programVars, balance, escrow, supply, mint_authority, chainVars, historyVars>>

\* Anyone may transfer tokens to the escrow account.
Donate(user, amount_ld) ==
    /\ Initialized
    /\ balance[user] >= amount_ld
    /\ balance' = [balance EXCEPT ![user] = @ - amount_ld]
    /\ escrow' = escrow + get_post_fee_amount_ld(transfer_fee, amount_ld)
    /\ fees_ld' = fees_ld + get_post_fee_amount_ld(transfer_fee, amount_ld)
    /\ UNCHANGED <<programVars, supply, mint_authority, transfer_fee, chainVars,
                   received, credited, out_sd, in_sd, minted_ld>>
----------------------------------------------------------------------------
Admin ==
    \E signer \in Keys :
        \/ set_oft_config(signer)
        \/ \E eid \in Eids : set_peer_config(signer, eid)
        \/ \E paused \in BOOLEAN : set_pause(signer, paused)
        \/ \E fee_ld \in U64, dest \in Users : withdraw_fee(signer, fee_ld, dest)

Public ==
    \/ \E oft_type \in OFTType, admin \in Keys, shared_decimals \in SharedDecimals :
           init_oft(oft_type, admin, shared_decimals)
    \/ /\ Cardinality(sent) < MaxSent
       /\ \E user \in Users, eid \in Eids, amount_ld \in U64, min_amount_ld \in MinAmounts,
             compose \in ComposeChoices, options \in SUBSET ExecOptions :
             send(user, eid, amount_ld, min_amount_ld, compose, options)
    \/ \E packet \in inbox : lz_receive(packet)

Environment ==
    \/ /\ Cardinality(inbox) + Cardinality(received) < MaxVerified
       /\ \E eid \in Eids, remote \in Remotes, to \in Users, amount_sd \in WireAmounts,
             compose \in ComposeChoices :
             Verify(eid, remote, to, amount_sd, compose)
    \/ Tick
    \/ \E authority \in NewAuthorities : HandOverMint(authority)
    \/ \E user \in Users, amount_ld \in SpareAmounts :
           MintByOther(user, amount_ld) \/ Donate(user, amount_ld)
    \/ \E fee \in TransferFees : NewEpoch(fee)

Next == Admin \/ Public \/ Environment

Spec == Init /\ [][Next]_vars
----------------------------------------------------------------------------
SentPacket ==
    [eid : Eids, remote : Remotes, nonce : Nat \ {0}, amount_sd : U64, compose : BOOLEAN,
     min_amount_ld : U64, options : SUBSET ExecOptions]

InPacket ==
    [eid : Eids, remote : Remotes, nonce : Nat \ {0}, to : Users, amount_sd : U64,
     compose : BOOLEAN]

\* Every account holds what its type says; tvl_ld and the limiters stay within
\* u64 through every checked operation of send, lz_receive and the setters.
TypeOK ==
    /\ oft_store \in OFTStore \cup {None}
    /\ peer \in [Eids -> PeerConfig \cup {None}]
    /\ balance \in [Users -> Nat] /\ escrow \in Nat /\ supply \in Nat
    /\ mint_authority \in MintAuthority
    /\ transfer_fee \in TransferFees
    /\ delegate \in Keys \cup {None}
    /\ sent \subseteq SentPacket
    /\ inbox \subseteq InPacket
    /\ now \in U64
    /\ received \subseteq [packet : InPacket, amount_received_ld : Nat]
    /\ credited \in [Users -> Nat]
    /\ out_sd \in Nat /\ in_sd \in Nat /\ fees_ld \in Nat /\ minted_ld \in Nat

IsAdapter == Initialized /\ oft_store.oft_type = "Adapter"
IsNative == Initialized /\ oft_store.oft_type = "Native"

\* The escrow of an Adapter holds at least the value locked for the other
\* chains, through transfer fees, cross-chain fees and withdraw_fee: every
\* token that exists remotely can come back.
TvlBacked == Initialized => escrow >= oft_store.tvl_ld

\* And what it holds beyond that is exactly the fees the senders were quoted,
\* plus gifts, less what withdraw_fee paid out: the admin can take all of the
\* fees and nothing else.
EscrowAccounted == Initialized => escrow = oft_store.tvl_ld + fees_ld

\* tvl_ld is worth exactly the messages: shared-decimal amounts sent less
\* shared-decimal amounts paid out.  A Native OFT keeps it at 0.
TvlIsOutstanding ==
    /\ IsAdapter => oft_store.tvl_ld = oft_store.ld2sd_rate * (out_sd - in_sd)
    /\ IsNative => oft_store.tvl_ld = 0

\* The supply of a Native OFT moves with the messages, to the last unit:
\* what send burns is what the message announces, what lz_receive mints is
\* what it was told, and fees are neither burnt nor minted.
SupplyAccounted ==
    IsNative =>
        supply + oft_store.ld2sd_rate * out_sd =
            InitialBalance * Cardinality(Users) + minted_ld + oft_store.ld2sd_rate * in_sd

\* Each verified packet pays out once at most: lz_receive clears it in the
\* same transaction, so it is pending or paid, and the total paid out is the
\* total of the paid packets.
PaidOnce ==
    /\ \A e \in received : e.packet \notin inbox
    /\ in_sd = MapThenSumSet(LAMBDA e : e.packet.amount_sd, received)

\* The amount in the OFTReceived event and in the compose message is the
\* amount that reached the recipient's account, with either OFT type and
\* whatever transfer fee the epoch brings.
AnnouncedIsCredited ==
    \A u \in Users :
        credited[u] = MapThenSumSet(LAMBDA e : e.amount_received_ld,
                                    {e \in received : e.packet.to = u})

\* A packet is worth at least the min_amount_ld its sender insisted on, after
\* both fees and after the loss of decimals.
TermsHonoured ==
    \A p \in sent : sd2ld(p.amount_sd, oft_store.ld2sd_rate) >= p.min_amount_ld

\* While the store is paused nothing is sent, nothing is paid out and the
\* locked value does not move, whoever signs.
PauseFreezes ==
    [][Initialized /\ oft_store.paused =>
          /\ UNCHANGED <<sent, received, credited>>
          /\ oft_store'.tvl_ld = oft_store.tvl_ld]_vars

\* What went out to a peer and what came in from it.
SentTo(eid) == {p \in sent : p.eid = eid}
ReceivedFrom(eid) == {e \in received : e.packet.eid = eid}

SdOf(packets) == MapThenSumSet(LAMBDA p : p.amount_sd, packets)
SdPaid(events) == MapThenSumSet(LAMBDA e : e.packet.amount_sd, events)

NetOut(eid) ==
    IF Initialized
    THEN oft_store.ld2sd_rate * (SdOf(SentTo(eid)) - SdPaid(ReceivedFrom(eid))) ELSE 0

\* The limiters of each peer change as the limits of PeerLimits do, with the packets
\* as the traffic: nothing is sent or paid out that both limiters are not moved by, each
\* in its direction, by the very amount, and so as LeakyBucket promises.
LimitsOf(eid) == INSTANCE PeerLimits WITH
    outbound <- IF peer[eid] = None THEN None ELSE peer[eid].outbound_rate_limiter,
    inbound  <- IF peer[eid] = None THEN None ELSE peer[eid].inbound_rate_limiter,
    net_out  <- NetOut(eid)

PeersKeepLimits ==
    /\ \A eid \in Eids : LimitsOf(eid)!Init
    /\ [][\A eid \in Eids : [LimitsOf(eid)!Next]_(LimitsOf(eid)!vars)]_vars
=============================================================================
