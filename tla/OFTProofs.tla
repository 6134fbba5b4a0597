----------------------------- MODULE OFTProofs -----------------------------
(***************************************************************************)
(* The books of the moroft program and what it promises its users, for     *)
(* every choice of the constants: any decimals, any fees, any number of    *)
(* users, chains, packets and seconds.                                     *)
(***************************************************************************)
EXTENDS OFT, OFTMathProofs, FiniteSetTheorems

\* Before init_oft nothing has happened that the accounting looks at.
FreshInv ==
    ~Initialized =>
        /\ escrow = 0 /\ fees_ld = 0 /\ out_sd = 0 /\ in_sd = 0
        /\ supply = InitialBalance * Cardinality(Users) + minted_ld

PacketsFinite == IsFiniteSet(sent) /\ IsFiniteSet(inbox) /\ IsFiniteSet(received)

\* Typing is inductive only together with the accounting: fees_ld stays a
\* natural because it is the escrow's surplus over tvl_ld.
IInv ==
    /\ TypeOK
    /\ PacketsFinite
    /\ FreshInv
    /\ EscrowAccounted
    /\ TvlIsOutstanding
    /\ SupplyAccounted
----------------------------------------------------------------------------
\* The rate limiter.

\* A refilled limiter holds u64 values: saturating_add and the capacity cap it.
LEMMA RefillType ==
    ASSUME NEW l \in Limiter, NEW extra \in Nat, NEW t \in U64
    PROVE  refill(l, extra, t) \in Limiter
  <1> USE MathAssumption
  <1>1. /\ l.capacity \in Nat /\ l.capacity <= MaxU64 /\ l.tokens \in Nat
        /\ l.refill_per_second \in Nat /\ l.last_refill_time \in Nat /\ t \in Nat
    BY SMT DEF Limiter, U64
  <1>2. ASSUME NEW a \in Nat, NEW b \in Nat
        PROVE  saturating_add(a, b) \in Nat
    BY SMT DEF saturating_add, Least
  <1>3. NewTokens(l, extra, t) \in Nat
    <2>1. CASE t > l.last_refill_time
      <3>1. PICK d \in Nat : d = t - l.last_refill_time
        BY <1>1, <2>1, SMT
      <3>2. d * l.refill_per_second \in Nat
        BY <1>1, SMT
      <3>3. saturating_mul(d, l.refill_per_second) \in Nat
        BY <3>2, SMT DEF saturating_mul, Least
      <3> QED
        BY <1>2, <2>1, <3>1, <3>3 DEF NewTokens
    <2>2. CASE ~(t > l.last_refill_time)
      BY <2>2 DEF NewTokens
    <2> QED
      BY <2>1, <2>2
  <1>4. PICK n \in Nat : n = saturating_add(l.tokens, NewTokens(l, extra, t))
    BY <1>1, <1>2, <1>3
  <1>5. PICK k \in U64 : k = Least(l.capacity, n)
    BY <1>1, SMT DEF Least, U64
  <1>6. refill(l, extra, t) = [l EXCEPT !.tokens = k, !.last_refill_time = t]
    BY <1>4, <1>5 DEF refill
  <1> QED
    BY <1>6 DEF Limiter

\* So does a limiter that try_consume has charged, when it admits the amount.
LEMMA ChargedType ==
    ASSUME NEW l \in Limiter \cup {None}, NEW amount \in Nat, NEW t \in U64,
           Admits(l, amount, t)
    PROVE  Charged(l, amount, t) \in Limiter \cup {None}
  <1>1. CASE l = None
    BY <1>1 DEF Charged
  <1>2. CASE l # None
    <2>1. PICK r \in Limiter : r = refill(l, 0, t)
      BY <1>2, RefillType, SMT
    <2>2. r.tokens - amount \in U64
      BY <1>2, <2>1, MathAssumption, SMT DEF Admits, CanConsume, Limiter, U64
    <2>3. Charged(l, amount, t) = [r EXCEPT !.tokens = r.tokens - amount]
      BY <1>2, <2>1 DEF Charged, try_consume
    <2> QED
      BY <2>1, <2>2, <2>3, SMT DEF Limiter
  <1> QED
    BY <1>1, <1>2

\* So does a limiter that the opposite direction has refilled.
LEMMA CreditedType ==
    ASSUME NEW l \in Limiter \cup {None}, NEW amount \in Nat, NEW t \in U64
    PROVE  Credited(l, amount, t) \in Limiter \cup {None}
  BY RefillType DEF Credited

\* So does a limiter that set_peer_config has reconfigured.
LEMMA UpdatedType ==
    ASSUME NEW l \in Limiter \cup {None}, NEW params \in LimitChoices, NEW t \in U64
    PROVE  update_rate_limiter(l, params, t) \in Limiter \cup {None}
  <1>1. CASE params = None
    BY <1>1 DEF update_rate_limiter
  <1>2. CASE params # None
    <2>1. params.capacity \in U64 \cup {None} /\ params.refill_per_second \in U64 \cup {None}
      BY <1>2, OFTAssumption DEF LimitParams
    <2>2. PICK l0 \in Limiter : l0 = IF l = None THEN DefaultLimiter ELSE l
      <3>1. 0 \in U64
        BY MathAssumption, SMT DEF U64
      <3>2. DefaultLimiter \in Limiter
        BY <3>1 DEF DefaultLimiter, Limiter
      <3> QED
        BY <3>2
    <2>3. PICK l1 \in Limiter :
             l1 = IF params.capacity = None THEN l0 ELSE set_capacity(l0, params.capacity, t)
      <3>1. params.capacity # None => set_capacity(l0, params.capacity, t) \in Limiter
        BY <2>1 DEF set_capacity, Limiter
      <3> QED
        BY <3>1
    <2>4. refill(l1, 0, t) \in Limiter
      BY RefillType, SMT
    <2>5. params.refill_per_second # None =>
             set_rate(l1, params.refill_per_second, t) \in Limiter
      BY <2>1, <2>4 DEF set_rate, Limiter
    <2> QED
      BY <1>2, <2>2, <2>3, <2>5 DEF update_rate_limiter
  <1> QED
    BY <1>1, <1>2
----------------------------------------------------------------------------
\* Configuration: the accounting is left alone.

\* What an initialised OFTStore account holds.
LEMMA StoreTypes ==
    ASSUME TypeOK, Initialized
    PROVE  /\ oft_store \in OFTStore
           /\ oft_store.oft_type \in OFTType
           /\ oft_store.ld2sd_rate \in Nat \ {0}
           /\ oft_store.tvl_ld \in Nat /\ oft_store.tvl_ld <= MaxU64
  <1>1. oft_store \in OFTStore
    BY DEF TypeOK, Initialized
  <1>2. oft_store.tvl_ld \in U64 /\ oft_store.ld2sd_rate \in Nat \ {0}
        /\ oft_store.oft_type \in OFTType
    BY <1>1 DEF OFTStore
  <1> QED
    BY <1>1, <1>2, MathAssumption, SMT DEF U64

\* An initialised store is told from the missing account.
LEMMA NoneIsNoStore == None \notin OFTStore
  BY OFTAssumption

\* Writing a store with the same type, rate and tvl keeps the invariant.
LEMMA ConfigStoreStep ==
    ASSUME IInv, NEW signer, NEW store \in OFTStore, ConfigStore(signer, store),
           store.oft_type = oft_store.oft_type, store.ld2sd_rate = oft_store.ld2sd_rate,
           store.tvl_ld = oft_store.tvl_ld
    PROVE  IInv'
  <1>1. /\ Initialized /\ oft_store' = store
        /\ UNCHANGED <<peer, tokenVars, chainVars, historyVars>>
    BY DEF ConfigStore
  <1>2. Initialized'
    BY <1>1, NoneIsNoStore DEF Initialized
  <1>3. TypeOK' /\ PacketsFinite'
    BY <1>1 DEF IInv, TypeOK, PacketsFinite, tokenVars, chainVars, historyVars
  <1>4. FreshInv' /\ EscrowAccounted' /\ TvlIsOutstanding' /\ SupplyAccounted'
    BY <1>1, <1>2 DEF IInv, FreshInv, EscrowAccounted, TvlIsOutstanding, SupplyAccounted,
       IsAdapter, IsNative, tokenVars, historyVars
  <1> QED
    BY <1>3, <1>4 DEF IInv

\* A peer account, and the one set_peer_config makes if there is none.
LEMMA PeerTypes ==
    ASSUME TypeOK, NEW eid \in Eids
    PROVE  /\ peer[eid] # None => peer[eid] \in PeerConfig
           /\ PeerOrDefault(eid) \in PeerConfig
  <1>1. DefaultPeer \in PeerConfig
    BY DEF DefaultPeer, PeerConfig, EnforcedOptions
  <1> QED
    BY <1>1 DEF TypeOK, PeerOrDefault

\* Writing a peer account keeps the invariant.
LEMMA ConfigPeerStep ==
    ASSUME IInv, NEW signer, NEW eid \in Eids, NEW config \in PeerConfig,
           ConfigPeer(signer, eid, config)
    PROVE  IInv'
  <1>1. /\ peer' = [peer EXCEPT ![eid] = config]
        /\ UNCHANGED <<oft_store, tokenVars, chainVars, historyVars>>
    BY DEF ConfigPeer
  <1>2. TypeOK' /\ PacketsFinite'
    BY <1>1 DEF IInv, TypeOK, PacketsFinite, tokenVars, chainVars, historyVars
  <1>3. FreshInv' /\ EscrowAccounted' /\ TvlIsOutstanding' /\ SupplyAccounted'
    BY <1>1 DEF IInv, FreshInv, EscrowAccounted, TvlIsOutstanding, SupplyAccounted,
       IsAdapter, IsNative, Initialized, tokenVars, historyVars
  <1> QED
    BY <1>2, <1>3 DEF IInv

\* Steps that leave the program's accounts and the accounting alone.
LEMMA QuietStep ==
    ASSUME IInv, TypeOK', PacketsFinite',
           UNCHANGED <<oft_store, escrow, supply, fees_ld, out_sd, in_sd, minted_ld>>
    PROVE  IInv'
  BY DEF IInv, FreshInv, EscrowAccounted, TvlIsOutstanding, SupplyAccounted,
     IsAdapter, IsNative, Initialized

\* Each SetOFTConfigParams of set_oft_config keeps the invariant.
LEMMA SetOFTConfigStep ==
    ASSUME IInv, NEW signer \in Keys, set_oft_config(signer)
    PROVE  IInv'
  <1>1. ASSUME NEW key \in Keys, SetAdmin(signer, key) PROVE IInv'
    <2>1. [oft_store EXCEPT !.admin = key] \in OFTStore
      BY <1>1, StoreTypes DEF IInv, SetAdmin, ConfigStore, OFTStore
    <2> QED
      BY <1>1, <2>1, ConfigStoreStep, StoreTypes DEF IInv, SetAdmin, ConfigStore, OFTStore
  <1>2. ASSUME NEW key \in Keys, SetDelegate(signer, key) PROVE IInv'
    <2>1. TypeOK' /\ PacketsFinite'
      BY <1>2 DEF IInv, TypeOK, PacketsFinite, SetDelegate, programVars, tokenVars, historyVars
    <2> QED
      BY <1>2, <2>1, QuietStep DEF SetDelegate, programVars, tokenVars, historyVars
  <1>3. ASSUME NEW fee_bps \in FeeChoices, SetDefaultFee(signer, fee_bps) PROVE IInv'
    <2>1. fee_bps \in OftFeeBps
      BY <1>3, OFTAssumption, MathAssumption, SMT DEF SetDefaultFee, OftFeeBps, U64
    <2>2. [oft_store EXCEPT !.default_fee_bps = fee_bps] \in OFTStore
      BY <1>3, <2>1, StoreTypes DEF IInv, SetDefaultFee, ConfigStore, OFTStore
    <2> QED
      BY <1>3, <2>2, ConfigStoreStep, StoreTypes DEF IInv, SetDefaultFee, ConfigStore, OFTStore
  <1>4. ASSUME NEW paused \in BOOLEAN, SetPaused(signer, paused) PROVE IInv'
    <2>1. [oft_store EXCEPT !.paused = paused] \in OFTStore
      BY <1>4, StoreTypes DEF IInv, SetPaused, ConfigStore, OFTStore
    <2> QED
      BY <1>4, <2>1, ConfigStoreStep, StoreTypes DEF IInv, SetPaused, ConfigStore, OFTStore
  <1>5. ASSUME NEW key \in Pausers, SetPauser(signer, key) PROVE IInv'
    <2>1. [oft_store EXCEPT !.pauser = key] \in OFTStore
      BY <1>5, StoreTypes, OFTAssumption DEF IInv, SetPauser, ConfigStore, OFTStore
    <2> QED
      BY <1>5, <2>1, ConfigStoreStep, StoreTypes DEF IInv, SetPauser, ConfigStore, OFTStore
  <1>6. ASSUME NEW key \in Pausers, SetUnpauser(signer, key) PROVE IInv'
    <2>1. [oft_store EXCEPT !.unpauser = key] \in OFTStore
      BY <1>6, StoreTypes, OFTAssumption DEF IInv, SetUnpauser, ConfigStore, OFTStore
    <2> QED
      BY <1>6, <2>1, ConfigStoreStep, StoreTypes DEF IInv, SetUnpauser, ConfigStore, OFTStore
  <1> QED
    BY <1>1, <1>2, <1>3, <1>4, <1>5, <1>6 DEF set_oft_config

\* set_pause keeps the invariant.
LEMMA SetPauseStep ==
    ASSUME IInv, NEW signer \in Keys, NEW paused \in BOOLEAN, set_pause(signer, paused)
    PROVE  IInv'
  <1>1. Initialized
    BY DEF set_pause
  <1> DEFINE store == [oft_store EXCEPT !.paused = paused]
  <1>2. /\ store \in OFTStore /\ store.oft_type = oft_store.oft_type
        /\ store.ld2sd_rate = oft_store.ld2sd_rate /\ store.tvl_ld = oft_store.tvl_ld
    BY <1>1, StoreTypes DEF IInv, OFTStore
  <1>3. ConfigStore(oft_store.admin, store)
    BY DEF set_pause, ConfigStore
  <1> HIDE DEF store
  <1> QED
    BY <1>2, <1>3, ConfigStoreStep

\* Each PeerConfigParam of set_peer_config keeps the invariant.
LEMMA SetPeerConfigStep ==
    ASSUME IInv, NEW signer \in Keys, NEW eid \in Eids, set_peer_config(signer, eid)
    PROVE  IInv'
  <1>1. PICK p \in PeerConfig : p = PeerOrDefault(eid)
    BY PeerTypes DEF IInv
  <1>2. now \in U64
    BY DEF IInv, TypeOK
  <1>3. ASSUME NEW address \in PeerAddresses, SetPeerAddress(signer, eid, address) PROVE IInv'
    <2>1. [p EXCEPT !.peer_address = address] \in PeerConfig
      BY OFTAssumption DEF PeerConfig
    <2> QED
      BY <1>1, <1>3, <2>1, ConfigPeerStep DEF SetPeerAddress
  <1>4. ASSUME NEW fee_bps \in FeeChoices \cup {None}, SetPeerFee(signer, eid, fee_bps)
        PROVE  IInv'
    <2>1. fee_bps \in OftFeeBps \cup {None}
      <3>1. CASE fee_bps = None
        BY <3>1
      <3>2. CASE fee_bps # None
        BY <1>4, <3>2, OFTAssumption, MathAssumption, SMT DEF SetPeerFee, OftFeeBps, U64
      <3> QED
        BY <3>1, <3>2
    <2>2. [p EXCEPT !.fee_bps = fee_bps] \in PeerConfig
      BY <2>1 DEF PeerConfig
    <2> QED
      BY <1>1, <1>4, <2>2, ConfigPeerStep DEF SetPeerFee
  <1>5. ASSUME NEW options \in EnforcedOptions, SetEnforcedOptions(signer, eid, options)
        PROVE  IInv'
    <2>1. [p EXCEPT !.enforced_options = options] \in PeerConfig
      BY DEF PeerConfig
    <2> QED
      BY <1>1, <1>5, <2>1, ConfigPeerStep DEF SetEnforcedOptions
  <1>6. ASSUME NEW params \in LimitChoices, SetOutboundRateLimit(signer, eid, params)
        PROVE  IInv'
    <2>1. update_rate_limiter(p.outbound_rate_limiter, params, now) \in Limiter \cup {None}
      BY <1>2, UpdatedType DEF PeerConfig
    <2>2. [p EXCEPT !.outbound_rate_limiter =
              update_rate_limiter(p.outbound_rate_limiter, params, now)] \in PeerConfig
      BY <2>1 DEF PeerConfig
    <2> QED
      BY <1>1, <1>6, <2>2, ConfigPeerStep DEF SetOutboundRateLimit
  <1>7. ASSUME NEW params \in LimitChoices, SetInboundRateLimit(signer, eid, params)
        PROVE  IInv'
    <2>1. update_rate_limiter(p.inbound_rate_limiter, params, now) \in Limiter \cup {None}
      BY <1>2, UpdatedType DEF PeerConfig
    <2>2. [p EXCEPT !.inbound_rate_limiter =
              update_rate_limiter(p.inbound_rate_limiter, params, now)] \in PeerConfig
      BY <2>1 DEF PeerConfig
    <2> QED
      BY <1>1, <1>7, <2>2, ConfigPeerStep DEF SetInboundRateLimit
  <1> QED
    BY <1>3, <1>4, <1>5, <1>6, <1>7 DEF set_peer_config
----------------------------------------------------------------------------
\* Initialisation and withdrawal.

\* The invariant holds before init_oft, when nothing has moved.
LEMMA InitialState == Init => IInv
  <1> SUFFICES ASSUME Init PROVE IInv
    OBVIOUS
  <1>1. ~Initialized /\ ~IsAdapter /\ ~IsNative
    BY DEF Init, Initialized, IsAdapter, IsNative
  <1>2. InitialBalance \in Nat /\ InitialBalance * Cardinality(Users) \in Nat
    BY OFTAssumption, MathAssumption, SMT DEF U64
  <1>3. 0 \in U64
    BY MathAssumption, SMT DEF U64
  <1>4. TypeOK
    BY <1>2, <1>3, SMT DEF Init, TypeOK, MintAuthority
  <1>5. PacketsFinite
    BY FS_EmptySet DEF Init, PacketsFinite
  <1>6. FreshInv
    BY <1>2, SMT DEF Init, FreshInv
  <1> QED
    BY <1>1, <1>4, <1>5, <1>6 DEF IInv, EscrowAccounted, TvlIsOutstanding, SupplyAccounted

\* init_oft starts with no locked value and an empty escrow.
LEMMA InitOFTStep ==
    ASSUME IInv, NEW oft_type \in OFTType, NEW admin \in Keys, NEW d \in SharedDecimals,
           init_oft(oft_type, admin, d)
    PROVE  IInv'
  <1>1. RateOf(d) \in Nat \ {0}
    BY OFTAssumption, SMT DEF init_oft
  <1>2. 0 \in U64 /\ 0 \in OftFeeBps
    BY MathAssumption, SMT DEF U64, OftFeeBps
  <1>3. /\ oft_store' \in OFTStore
        /\ oft_store'.tvl_ld = 0 /\ oft_store'.ld2sd_rate = RateOf(d)
    BY <1>1, <1>2 DEF init_oft, OFTStore
  <1>4. Initialized'
    BY <1>3, NoneIsNoStore DEF Initialized
  <1>5. /\ escrow' = 0 /\ fees_ld' = 0 /\ out_sd' = 0 /\ in_sd' = 0 /\ minted_ld' = minted_ld
        /\ supply' = InitialBalance * Cardinality(Users) + minted_ld
    BY DEF IInv, FreshInv, init_oft, tokenVars, historyVars
  <1>6. TypeOK' /\ PacketsFinite'
    BY <1>3 DEF IInv, TypeOK, PacketsFinite, init_oft, tokenVars, historyVars
  <1>7. RateOf(d) * 0 = 0 /\ RateOf(d) * (0 - 0) = 0
    BY <1>1, SMT
  <1>8. /\ supply' \in Nat /\ minted_ld' \in Nat
        /\ InitialBalance * Cardinality(Users) \in Nat
    BY <1>6, OFTAssumption, MathAssumption, SMT DEF TypeOK, U64
  <1>9. EscrowAccounted'
    BY <1>3, <1>5, SMT DEF EscrowAccounted
  <1>10. TvlIsOutstanding'
    BY <1>3, <1>5, <1>7 DEF TvlIsOutstanding
  <1>11. SupplyAccounted'
    <2>1. oft_store'.ld2sd_rate * out_sd' = 0 /\ oft_store'.ld2sd_rate * in_sd' = 0
      BY <1>3, <1>5, <1>7
    <2> QED
      BY <1>5, <1>8, <2>1, SMT DEF SupplyAccounted
  <1> QED
    BY <1>4, <1>6, <1>9, <1>10, <1>11 DEF IInv, FreshInv

\* withdraw_fee takes the fees down by what it takes out of the escrow.
LEMMA WithdrawFeeStep ==
    ASSUME IInv, NEW signer \in Keys, NEW fee_ld \in U64, NEW dest \in Users,
           withdraw_fee(signer, fee_ld, dest)
    PROVE  IInv'
  <1>1. /\ Initialized /\ UNCHANGED <<oft_store, peer>>
        /\ escrow' = escrow - fee_ld /\ fees_ld' = fees_ld - fee_ld
        /\ escrow - oft_store.tvl_ld >= fee_ld
        /\ UNCHANGED <<supply, out_sd, in_sd, minted_ld>>
    BY DEF withdraw_fee, programVars, WithdrawableFee
  <1>2. /\ oft_store.tvl_ld \in Nat /\ fee_ld \in Nat
        /\ escrow \in Nat /\ fees_ld \in Nat
        /\ escrow = oft_store.tvl_ld + fees_ld
    BY <1>1, StoreTypes, MathAssumption, SMT DEF IInv, TypeOK, EscrowAccounted, U64
  <1>3. escrow' \in Nat /\ fees_ld' \in Nat /\ escrow' = oft_store.tvl_ld + fees_ld'
    BY <1>1, <1>2, SMT
  <1>4. balance' \in [Users -> Nat]
    <2>1. transfer_fee \in TransferFee
      BY OFTAssumption DEF IInv, TypeOK
    <2>2. PICK net \in Nat : net = get_post_fee_amount_ld(transfer_fee, fee_ld)
      BY <1>2, <2>1, PostFeeBounds, SMT
    <2>3. balance' = [balance EXCEPT ![dest] = balance[dest] + net]
      BY <2>2 DEF withdraw_fee
    <2>4. balance \in [Users -> Nat]
      BY DEF IInv, TypeOK
    <2> QED
      BY <2>2, <2>3, <2>4, SMT
  <1>5. TypeOK' /\ PacketsFinite'
    BY <1>1, <1>3, <1>4 DEF IInv, TypeOK, PacketsFinite, withdraw_fee, chainVars
  <1>6. FreshInv' /\ EscrowAccounted'
    BY <1>1, <1>3 DEF FreshInv, EscrowAccounted, Initialized
  <1>7. TvlIsOutstanding' /\ SupplyAccounted'
    BY <1>1 DEF IInv, TvlIsOutstanding, SupplyAccounted, IsAdapter, IsNative, Initialized
  <1> QED
    BY <1>5, <1>6, <1>7 DEF IInv
----------------------------------------------------------------------------
\* send.

\* The amounts of a send, as the accounting of send uses them.
LEMMA SendAmounts ==
    ASSUME IInv, Initialized, NEW eid \in Eids, peer[eid] # None, NEW amount_ld \in U64
    PROVE  LET r == Amounts(eid, amount_ld)
               sd == ld2sd(r.received, oft_store.ld2sd_rate)
           IN /\ r.sent \in Nat /\ r.received \in Nat /\ r.fee \in Nat
              /\ r.received + r.fee <= r.sent /\ r.sent <= amount_ld
              /\ r.received <= MaxU64
              /\ sd \in Nat /\ sd <= r.received
              /\ r.received = oft_store.ld2sd_rate * sd
              /\ IsNative => r.received + r.fee = r.sent
              /\ IsAdapter =>
                    get_post_fee_amount_ld(transfer_fee, r.sent) = r.received + r.fee
  <1>1. /\ oft_store \in OFTStore /\ oft_store.oft_type \in OFTType
        /\ oft_store.ld2sd_rate \in Nat \ {0}
    BY StoreTypes DEF IInv
  <1>2. transfer_fee \in TransferFee
    BY OFTAssumption DEF IInv, TypeOK
  <1>3. FinalFeeBps(oft_store.default_fee_bps, peer[eid].fee_bps) \in OftFeeBps
    BY <1>1, PeerTypes DEF IInv, FinalFeeBps, OFTStore, PeerConfig
  <1>4. amount_ld \in Nat /\ amount_ld <= MaxU64
    BY MathAssumption, SMT DEF U64
  <1>5. PICK r : r = Amounts(eid, amount_ld)
    OBVIOUS
  <1>6. /\ r.sent \in 0 .. amount_ld /\ r.received \in Nat /\ r.fee \in Nat
        /\ r.received + r.fee <= r.sent
        /\ r.received % oft_store.ld2sd_rate = 0
        /\ oft_store.oft_type = "Native" => r.received + r.fee = r.sent
        /\ oft_store.oft_type = "Adapter" =>
              get_post_fee_amount_ld(transfer_fee, r.sent) = r.received + r.fee
    BY <1>1, <1>2, <1>3, <1>4, <1>5, AmountsCorrect DEF Amounts
  <1>7. PICK sd \in Nat : /\ sd = ld2sd(r.received, oft_store.ld2sd_rate)
                         /\ sd2ld(sd, oft_store.ld2sd_rate) = r.received
                         /\ sd <= r.received
    BY <1>1, <1>6, DustFreeRoundTrip
  <1>8. r.received = oft_store.ld2sd_rate * sd
    BY <1>1, <1>7, SMT DEF sd2ld
  <1>9. r.sent \in Nat /\ r.sent <= amount_ld /\ r.received <= MaxU64
    BY <1>4, <1>6, MathAssumption, SMT
  <1> QED
    BY <1>5, <1>6, <1>7, <1>8, <1>9 DEF IsNative, IsAdapter

\* The nonce of the next packet is a positive number.
LEMMA NextNonceType ==
    ASSUME NEW packets, IsFiniteSet(packets), NEW eid, NEW remote
    PROVE  NextNonce(packets, eid, remote) \in Nat \ {0}
  <1>1. IsFiniteSet({p \in packets : p.eid = eid /\ p.remote = remote})
    BY FS_Subset
  <1> QED
    BY <1>1, FS_CardinalityType, SMT DEF NextNonce

\* Moving an amount from one side of the ledger to the other.
LEMMA Distribute ==
    ASSUME NEW a \in Int, NEW b \in Int, NEW c \in Int
    PROVE  a * (b + c) = a * b + a * c /\ a * (b - c) = a * b - a * c
  BY SMT

\* send keeps the invariant, with either OFT type.
LEMMA SendStep ==
    ASSUME IInv, NEW user \in Users, NEW eid \in Eids, NEW amount_ld \in U64,
           NEW min_amount_ld \in U64, NEW compose \in BOOLEAN,
           NEW options \in SUBSET ExecOptions,
           send(user, eid, amount_ld, min_amount_ld, compose, options)
    PROVE  IInv'
  <1>1. PICK r, sd :
           /\ r = Amounts(eid, amount_ld) /\ sd = ld2sd(r.received, oft_store.ld2sd_rate)
           /\ Initialized /\ peer[eid] # None /\ peer[eid].peer_address # None
           /\ Admits(peer[eid].outbound_rate_limiter, r.received, now)
           /\ balance[user] >= r.sent
           /\ peer' = [peer EXCEPT ![eid] = LimitsAfterSend(@, r.received)]
           /\ TakeTokens(user, r)
           /\ sent' = sent \cup
                 {[eid |-> eid, remote |-> peer[eid].peer_address,
                   nonce |-> NextNonce(sent, eid, peer[eid].peer_address),
                   amount_sd |-> sd, compose |-> compose, min_amount_ld |-> min_amount_ld,
                   options |-> combine_options(peer[eid].enforced_options, compose, options)]}
           /\ out_sd' = out_sd + sd
           /\ UNCHANGED <<mint_authority, transfer_fee, delegate, inbox, now, received,
                          credited, in_sd, minted_ld>>
    BY DEF send
  <1>2. /\ r.sent \in Nat /\ r.received \in Nat /\ r.fee \in Nat
        /\ r.received + r.fee <= r.sent /\ r.received <= MaxU64
        /\ sd \in Nat /\ sd <= r.received /\ r.received = oft_store.ld2sd_rate * sd
        /\ IsNative => r.received + r.fee = r.sent
        /\ IsAdapter => get_post_fee_amount_ld(transfer_fee, r.sent) = r.received + r.fee
    BY <1>1, SendAmounts
  <1>3. /\ oft_store \in OFTStore /\ oft_store.oft_type \in OFTType
        /\ oft_store.ld2sd_rate \in Nat \ {0} /\ oft_store.tvl_ld \in Nat
    BY <1>1, StoreTypes DEF IInv
  <1>4. peer[eid] \in PeerConfig /\ now \in U64
    BY <1>1, PeerTypes DEF IInv, TypeOK
  <1>5. LimitsAfterSend(peer[eid], r.received) \in PeerConfig
    <2>1. Charged(peer[eid].outbound_rate_limiter, r.received, now) \in Limiter \cup {None}
      BY <1>1, <1>2, <1>4, ChargedType DEF PeerConfig
    <2>2. Credited(peer[eid].inbound_rate_limiter, r.received, now) \in Limiter \cup {None}
      BY <1>1, <1>2, <1>4, CreditedType DEF PeerConfig
    <2> QED
      BY <1>4, <2>1, <2>2 DEF LimitsAfterSend, PeerConfig
  <1>6. peer' \in [Eids -> PeerConfig \cup {None}]
    BY <1>1, <1>5 DEF IInv, TypeOK
  <1>7. sent' \subseteq SentPacket /\ IsFiniteSet(sent')
    <2>1. NextNonce(sent, eid, peer[eid].peer_address) \in Nat \ {0}
      BY NextNonceType DEF IInv, PacketsFinite
    <2>2. sd \in U64 /\ min_amount_ld \in U64 /\ compose \in BOOLEAN
      BY <1>2, OFTAssumption, MathAssumption, SMT DEF U64
    <2>3. combine_options(peer[eid].enforced_options, compose, options) \in SUBSET ExecOptions
      BY <1>4 DEF combine_options, PeerConfig, EnforcedOptions
    <2>4. peer[eid].peer_address \in Remotes
      BY <1>1, <1>4 DEF PeerConfig
    <2>5. PICK packet \in SentPacket : sent' = sent \cup {packet}
      <3> DEFINE packet ==
             [eid |-> eid, remote |-> peer[eid].peer_address,
              nonce |-> NextNonce(sent, eid, peer[eid].peer_address),
              amount_sd |-> sd, compose |-> compose, min_amount_ld |-> min_amount_ld,
              options |-> combine_options(peer[eid].enforced_options, compose, options)]
      <3>1. packet \in SentPacket
        BY <2>1, <2>2, <2>3, <2>4 DEF SentPacket
      <3>2. sent' = sent \cup {packet}
        BY <1>1
      <3> QED
        BY <3>1, <3>2
    <2>6. sent \subseteq SentPacket /\ IsFiniteSet(sent)
      BY DEF IInv, TypeOK, PacketsFinite
    <2>7. IsFiniteSet(sent \cup {packet})
      BY <2>6, FS_AddElement
    <2> QED
      BY <2>5, <2>6, <2>7
  <1>8. /\ balance \in [Users -> Nat] /\ escrow \in Nat /\ supply \in Nat /\ fees_ld \in Nat
        /\ out_sd \in Nat /\ in_sd \in Nat /\ minted_ld \in Nat
        /\ transfer_fee \in TransferFee
    BY OFTAssumption DEF IInv, TypeOK
  <1>9. oft_store.ld2sd_rate * out_sd' = oft_store.ld2sd_rate * out_sd + r.received
        /\ oft_store.ld2sd_rate * (out_sd' - in_sd)
               = oft_store.ld2sd_rate * (out_sd - in_sd) + r.received
    <2>1. out_sd' - in_sd = (out_sd - in_sd) + sd
      BY <1>1, <1>2, <1>8, SMT
    <2>2. oft_store.ld2sd_rate \in Int /\ out_sd \in Int /\ sd \in Int /\ out_sd - in_sd \in Int
      BY <1>2, <1>3, <1>8, SMT
    <2>3. oft_store.ld2sd_rate * (out_sd + sd)
              = oft_store.ld2sd_rate * out_sd + oft_store.ld2sd_rate * sd
      BY <2>2, Distribute
    <2>4. oft_store.ld2sd_rate * ((out_sd - in_sd) + sd)
              = oft_store.ld2sd_rate * (out_sd - in_sd) + oft_store.ld2sd_rate * sd
      BY <2>2, Distribute
    <2> QED
      BY <1>1, <1>2, <2>1, <2>3, <2>4
  <1>10. balance' \in [Users -> Nat]
    <2>1. balance' = [balance EXCEPT ![user] = balance[user] - r.sent]
      BY <1>1 DEF TakeTokens, LockTokens, BurnTokens
    <2>2. balance[user] - r.sent \in Nat
      BY <1>1, <1>2, <1>8, SMT
    <2> QED
      BY <1>8, <2>1, <2>2
  <1>11. CASE oft_store.oft_type = "Adapter"
    <2>1. /\ IsAdapter /\ ~IsNative /\ LockTokens(user, r)
      BY <1>1, <1>11 DEF IsAdapter, IsNative, TakeTokens
    <2>2. /\ Fits(oft_store.tvl_ld + r.received)
          /\ oft_store' = [oft_store EXCEPT !.tvl_ld = oft_store.tvl_ld + r.received]
          /\ escrow' = escrow + (r.received + r.fee)
          /\ fees_ld' = fees_ld + r.fee /\ supply' = supply
      BY <1>2, <2>1 DEF LockTokens
    <2>3. /\ oft_store' \in OFTStore /\ oft_store'.tvl_ld = oft_store.tvl_ld + r.received
          /\ oft_store'.ld2sd_rate = oft_store.ld2sd_rate /\ oft_store'.oft_type = "Adapter"
      BY <1>3, <1>11, <2>2 DEF OFTStore, Fits
    <2>4. Initialized' /\ ~IsNative'
      BY <2>3, NoneIsNoStore DEF Initialized, IsNative
    <2>5. escrow' \in Nat /\ fees_ld' \in Nat /\ out_sd' \in Nat
      BY <1>1, <1>2, <1>8, <2>2, SMT
    <2>6. EscrowAccounted'
      BY <1>1, <1>2, <1>3, <1>8, <2>2, <2>3, SMT DEF IInv, EscrowAccounted
    <2>7. TvlIsOutstanding'
      <3>1. oft_store.tvl_ld = oft_store.ld2sd_rate * (out_sd - in_sd)
        BY <2>1 DEF IInv, TvlIsOutstanding
      <3>2. oft_store'.tvl_ld = oft_store'.ld2sd_rate * (out_sd' - in_sd')
        BY <1>1, <1>9, <2>3, <3>1
      <3> QED
        BY <2>4, <3>2 DEF TvlIsOutstanding
    <2>8. TypeOK' /\ PacketsFinite'
      BY <1>1, <1>6, <1>7, <1>10, <2>2, <2>3, <2>5 DEF IInv, TypeOK, PacketsFinite
    <2> QED
      BY <2>4, <2>6, <2>7, <2>8 DEF IInv, FreshInv, SupplyAccounted
  <1>12. CASE oft_store.oft_type = "Native"
    <2>1. /\ IsNative /\ ~IsAdapter /\ BurnTokens(user, r)
      BY <1>1, <1>12 DEF IsAdapter, IsNative, TakeTokens
    <2>2. PICK net \in Nat : net = get_post_fee_amount_ld(transfer_fee, r.fee)
      BY <1>2, <1>8, PostFeeBounds, SMT
    <2>3. /\ supply >= r.sent - r.fee /\ supply' = supply - (r.sent - r.fee)
          /\ oft_store' = oft_store
          /\ escrow' = escrow + net /\ fees_ld' = fees_ld + net
      BY <2>1, <2>2 DEF BurnTokens
    <2>4. /\ supply' = supply - r.received /\ supply' \in Nat
          /\ escrow' \in Nat /\ fees_ld' \in Nat /\ out_sd' \in Nat
      BY <1>1, <1>2, <1>8, <2>1, <2>3, SMT
    <2>5. Initialized' /\ ~IsAdapter' /\ IsNative'
      BY <2>1, <2>3 DEF Initialized, IsAdapter, IsNative
    <2>6. EscrowAccounted'
      BY <1>1, <1>3, <1>8, <2>2, <2>3, SMT DEF IInv, EscrowAccounted
    <2>7. TvlIsOutstanding'
      BY <2>1, <2>3, <2>5 DEF IInv, TvlIsOutstanding
    <2>8. SupplyAccounted'
      <3>1. PICK genesis \in Nat : genesis = InitialBalance * Cardinality(Users)
        BY OFTAssumption, MathAssumption, SMT DEF U64
      <3>2. PICK ro \in Int, ri \in Int :
               ro = oft_store.ld2sd_rate * out_sd /\ ri = oft_store.ld2sd_rate * in_sd
        BY <1>3, <1>8, SMT
      <3>3. supply + ro = genesis + minted_ld + ri
        BY <2>1, <3>1, <3>2 DEF IInv, SupplyAccounted
      <3>4. supply' + (ro + r.received) = genesis + minted_ld + ri
        BY <1>2, <1>8, <2>4, <3>3, SMT
      <3>5. oft_store.ld2sd_rate * out_sd' = ro + r.received
        BY <1>9, <3>2
      <3> QED
        BY <1>1, <2>3, <3>1, <3>2, <3>4, <3>5 DEF SupplyAccounted
    <2>9. TypeOK' /\ PacketsFinite'
      BY <1>1, <1>6, <1>7, <1>10, <2>3, <2>4 DEF IInv, TypeOK, PacketsFinite
    <2> QED
      BY <2>5, <2>6, <2>7, <2>8, <2>9 DEF IInv, FreshInv
  <1> QED
    BY <1>3, <1>11, <1>12 DEF OFTType
----------------------------------------------------------------------------
\* lz_receive.

\* Adding to one user's account keeps the accounts well typed.
LEMMA CreditUser ==
    ASSUME NEW f \in [Users -> Nat], NEW user \in Users, NEW n \in Nat
    PROVE  [f EXCEPT ![user] = f[user] + n] \in [Users -> Nat]
  BY SMT

\* lz_receive keeps the invariant, with either OFT type.
LEMMA LzReceiveStep ==
    ASSUME IInv, NEW packet \in inbox, lz_receive(packet)
    PROVE  IInv'
  <1>1. PICK amount :
           /\ amount = sd2ld(packet.amount_sd, oft_store.ld2sd_rate)
           /\ Initialized /\ peer[packet.eid] # None
           /\ inbox' = inbox \ {packet}
           /\ Fits(amount)
           /\ Admits(peer[packet.eid].inbound_rate_limiter, amount, now)
           /\ peer' = [peer EXCEPT ![packet.eid] = LimitsAfterReceive(@, amount)]
           /\ GiveTokens(packet.to, amount)
           /\ received' = received \cup
                 {[packet |-> packet, amount_received_ld |-> AnnouncedAmount(amount)]}
           /\ in_sd' = in_sd + packet.amount_sd
           /\ UNCHANGED <<mint_authority, transfer_fee, delegate, sent, now, out_sd,
                          fees_ld, minted_ld>>
    BY DEF lz_receive, Open, Clear
  <1>2. /\ packet \in InPacket /\ packet.eid \in Eids /\ packet.to \in Users
        /\ packet.amount_sd \in Nat /\ amount \in Nat /\ amount <= MaxU64
    <2>1. packet \in InPacket
      BY DEF IInv, TypeOK
    <2>2. packet.eid \in Eids /\ packet.to \in Users /\ packet.amount_sd \in U64
      BY <2>1 DEF InPacket
    <2> QED
      BY <1>1, <2>1, <2>2, MathAssumption, SMT DEF Fits, U64
  <1>3. /\ oft_store \in OFTStore /\ oft_store.oft_type \in OFTType
        /\ oft_store.ld2sd_rate \in Nat \ {0} /\ oft_store.tvl_ld \in Nat
        /\ oft_store.tvl_ld <= MaxU64
    BY <1>1, StoreTypes DEF IInv
  <1>4. amount = oft_store.ld2sd_rate * packet.amount_sd
    BY <1>1, <1>2, <1>3, SMT DEF sd2ld
  <1>5. peer[packet.eid] \in PeerConfig /\ now \in U64
    BY <1>1, <1>2, PeerTypes DEF IInv, TypeOK
  <1>6. peer' \in [Eids -> PeerConfig \cup {None}]
    <2>1. Charged(peer[packet.eid].inbound_rate_limiter, amount, now) \in Limiter \cup {None}
      BY <1>1, <1>2, <1>5, ChargedType DEF PeerConfig
    <2>2. Credited(peer[packet.eid].outbound_rate_limiter, amount, now)
              \in Limiter \cup {None}
      BY <1>1, <1>2, <1>5, CreditedType DEF PeerConfig
    <2>3. LimitsAfterReceive(peer[packet.eid], amount) \in PeerConfig
      BY <1>5, <2>1, <2>2 DEF LimitsAfterReceive, PeerConfig
    <2> QED
      BY <1>1, <2>3 DEF IInv, TypeOK
  <1>7. /\ balance \in [Users -> Nat] /\ credited \in [Users -> Nat]
        /\ escrow \in Nat /\ supply \in Nat /\ fees_ld \in Nat
        /\ out_sd \in Nat /\ in_sd \in Nat /\ minted_ld \in Nat
        /\ transfer_fee \in TransferFee
    BY OFTAssumption DEF IInv, TypeOK
  <1>8. PICK net \in Nat : net = get_post_fee_amount_ld(transfer_fee, amount)
    BY <1>2, <1>7, PostFeeBounds, SMT
  <1>9. /\ received' \subseteq [packet : InPacket, amount_received_ld : Nat]
        /\ inbox' \subseteq InPacket
        /\ PacketsFinite'
    <2>1. AnnouncedAmount(amount) \in Nat
      BY <1>2, <1>8 DEF AnnouncedAmount
    <2>2. received' \subseteq [packet : InPacket, amount_received_ld : Nat]
      BY <1>1, <1>2, <2>1 DEF IInv, TypeOK
    <2>3. inbox' \subseteq InPacket
      BY <1>1 DEF IInv, TypeOK
    <2>4. IsFiniteSet(inbox')
      BY <1>1, FS_Subset DEF IInv, PacketsFinite
    <2>5. IsFiniteSet(received')
      BY <1>1, FS_AddElement DEF IInv, PacketsFinite
    <2> QED
      BY <1>1, <2>2, <2>3, <2>4, <2>5 DEF IInv, PacketsFinite
  <1>10. /\ in_sd' \in Nat
         /\ oft_store.ld2sd_rate * in_sd' = oft_store.ld2sd_rate * in_sd + amount
         /\ oft_store.ld2sd_rate * (out_sd - in_sd')
                = oft_store.ld2sd_rate * (out_sd - in_sd) - amount
    <2>1. /\ oft_store.ld2sd_rate \in Int /\ in_sd \in Int /\ packet.amount_sd \in Int
          /\ out_sd - in_sd \in Int /\ in_sd' \in Nat
          /\ out_sd - in_sd' = (out_sd - in_sd) - packet.amount_sd
      BY <1>1, <1>2, <1>3, <1>7, SMT
    <2>2. oft_store.ld2sd_rate * (in_sd + packet.amount_sd)
              = oft_store.ld2sd_rate * in_sd + oft_store.ld2sd_rate * packet.amount_sd
      BY <2>1, Distribute
    <2>3. oft_store.ld2sd_rate * ((out_sd - in_sd) - packet.amount_sd)
              = oft_store.ld2sd_rate * (out_sd - in_sd) - oft_store.ld2sd_rate * packet.amount_sd
      BY <2>1, Distribute
    <2> QED
      BY <1>1, <1>4, <2>1, <2>2, <2>3
  <1>11. CASE oft_store.oft_type = "Adapter"
    <2>1. /\ IsAdapter /\ ~IsNative /\ UnlockTokens(packet.to, amount)
      BY <1>1, <1>11 DEF IsAdapter, IsNative, GiveTokens
    <2>2. /\ Fits(oft_store.tvl_ld - amount)
          /\ escrow >= amount /\ escrow' = escrow - amount
          /\ oft_store' = [oft_store EXCEPT !.tvl_ld = oft_store.tvl_ld - amount]
          /\ balance' = [balance EXCEPT ![packet.to] = balance[packet.to] + net]
          /\ credited' = [credited EXCEPT ![packet.to] = credited[packet.to] + net]
          /\ supply' = supply
      BY <1>8, <2>1 DEF UnlockTokens
    <2>3. /\ oft_store' \in OFTStore /\ oft_store'.tvl_ld = oft_store.tvl_ld - amount
          /\ oft_store'.ld2sd_rate = oft_store.ld2sd_rate /\ oft_store'.oft_type = "Adapter"
      BY <1>3, <1>11, <2>2 DEF OFTStore, Fits
    <2>4. Initialized' /\ ~IsNative'
      BY <2>3, NoneIsNoStore DEF Initialized, IsNative
    <2>5. escrow' \in Nat
      BY <1>2, <1>7, <2>2, SMT
    <2>6. EscrowAccounted'
      BY <1>1, <1>2, <1>3, <1>7, <2>2, <2>3, SMT DEF IInv, EscrowAccounted
    <2>7. TvlIsOutstanding'
      <3>1. oft_store.tvl_ld = oft_store.ld2sd_rate * (out_sd - in_sd)
        BY <2>1 DEF IInv, TvlIsOutstanding
      <3>2. oft_store'.tvl_ld = oft_store'.ld2sd_rate * (out_sd' - in_sd')
        BY <1>1, <1>10, <2>3, <3>1
      <3> QED
        BY <2>4, <3>2 DEF TvlIsOutstanding
    <2>8. balance' \in [Users -> Nat] /\ credited' \in [Users -> Nat]
      BY <1>2, <1>7, <2>2, CreditUser
    <2>9. TypeOK'
      BY <1>1, <1>6, <1>9, <1>10, <2>2, <2>3, <2>5, <2>8 DEF IInv, TypeOK
    <2> QED
      BY <1>9, <2>4, <2>6, <2>7, <2>9 DEF IInv, FreshInv, SupplyAccounted
  <1>12. CASE oft_store.oft_type = "Native"
    <2>1. /\ IsNative /\ ~IsAdapter /\ MintTokens(packet.to, amount)
      BY <1>1, <1>12 DEF IsAdapter, IsNative, GiveTokens
    <2>2. /\ supply' = supply + amount
          /\ balance' = [balance EXCEPT ![packet.to] = balance[packet.to] + amount]
          /\ credited' = [credited EXCEPT ![packet.to] = credited[packet.to] + amount]
          /\ UNCHANGED <<oft_store, escrow>>
      BY <2>1 DEF MintTokens
    <2>3. Initialized' /\ ~IsAdapter' /\ IsNative'
      BY <2>1, <2>2 DEF Initialized, IsAdapter, IsNative
    <2>4. EscrowAccounted' /\ TvlIsOutstanding'
      BY <1>1, <2>1, <2>2, <2>3 DEF IInv, EscrowAccounted, TvlIsOutstanding
    <2>5. SupplyAccounted'
      <3>1. PICK genesis \in Nat : genesis = InitialBalance * Cardinality(Users)
        BY OFTAssumption, MathAssumption, SMT DEF U64
      <3>2. PICK ro \in Int, ri \in Int :
               ro = oft_store.ld2sd_rate * out_sd /\ ri = oft_store.ld2sd_rate * in_sd
        BY <1>3, <1>7, SMT
      <3>3. supply + ro = genesis + minted_ld + ri
        BY <2>1, <3>1, <3>2 DEF IInv, SupplyAccounted
      <3>4. supply' + ro = genesis + minted_ld + (ri + amount)
        BY <1>2, <1>7, <2>2, <3>3, SMT
      <3>5. oft_store.ld2sd_rate * in_sd' = ri + amount
        BY <1>10, <3>2
      <3> QED
        BY <1>1, <2>2, <3>1, <3>2, <3>4, <3>5 DEF SupplyAccounted
    <2>6. balance' \in [Users -> Nat] /\ credited' \in [Users -> Nat] /\ supply' \in Nat
      BY <1>2, <1>7, <2>2, CreditUser, SMT
    <2>7. TypeOK'
      BY <1>1, <1>6, <1>9, <1>10, <2>2, <2>6 DEF IInv, TypeOK
    <2> QED
      BY <1>9, <2>3, <2>4, <2>5, <2>7 DEF IInv, FreshInv
  <1> QED
    BY <1>3, <1>11, <1>12 DEF OFTType
----------------------------------------------------------------------------
\* The environment.

\* A packet verified by the endpoint changes no account of the program.
LEMMA VerifyStep ==
    ASSUME IInv, NEW eid \in Eids, NEW remote \in Remotes, NEW to \in Users,
           NEW amount_sd \in WireAmounts, NEW compose \in ComposeChoices,
           Verify(eid, remote, to, amount_sd, compose)
    PROVE  IInv'
  <1> DEFINE known == inbox \cup {e.packet : e \in received}
             packet == [eid |-> eid, remote |-> remote, nonce |-> NextNonce(known, eid, remote),
                        to |-> to, amount_sd |-> amount_sd, compose |-> compose]
  <1>1. IsFiniteSet(known)
    <2> DEFINE T == {e.packet : e \in received}
               f == [e \in received |-> e.packet]
    <2>1. f \in Surjection(received, T)
      BY DEF Surjection
    <2>2. IsFiniteSet(T)
      <3> HIDE DEF T, f
      <3> QED
        BY <2>1, FS_Surjection DEF IInv, PacketsFinite
    <2> QED
      BY <2>2, FS_Union DEF IInv, PacketsFinite
  <1>2. packet \in InPacket
    <2>1. NextNonce(known, eid, remote) \in Nat \ {0}
      BY <1>1, NextNonceType
    <2>2. amount_sd \in U64 /\ compose \in BOOLEAN
      BY OFTAssumption
    <2> HIDE DEF known
    <2> QED
      BY <2>1, <2>2 DEF InPacket
  <1>3. /\ inbox' = inbox \cup {packet}
        /\ UNCHANGED <<programVars, tokenVars, delegate, sent, now, historyVars>>
    BY DEF Verify
  <1> HIDE DEF packet
  <1>4. TypeOK'
    BY <1>2, <1>3 DEF IInv, TypeOK, programVars, tokenVars, historyVars
  <1>5. PacketsFinite'
    BY <1>3, FS_AddElement DEF IInv, PacketsFinite, historyVars
  <1> QED
    BY <1>3, <1>4, <1>5, QuietStep DEF programVars, tokenVars, historyVars

\* Nor does the clock,
LEMMA TickStep ==
    ASSUME IInv, Tick
    PROVE  IInv'
  <1>1. now' \in U64
    BY OFTAssumption, MathAssumption, SMT DEF IInv, TypeOK, Tick, U64
  <1>2. TypeOK' /\ PacketsFinite'
    BY <1>1 DEF IInv, TypeOK, PacketsFinite, Tick, programVars, tokenVars, historyVars
  <1> QED
    BY <1>2, QuietStep DEF Tick, programVars, tokenVars, historyVars

\* nor a new mint authority,
LEMMA HandOverMintStep ==
    ASSUME IInv, NEW authority \in NewAuthorities, HandOverMint(authority)
    PROVE  IInv'
  <1>1. TypeOK' /\ PacketsFinite'
    BY OFTAssumption
    DEF IInv, TypeOK, PacketsFinite, HandOverMint, programVars, chainVars, historyVars
  <1> QED
    BY <1>1, QuietStep DEF HandOverMint, programVars, historyVars

\* nor a new transfer fee.
LEMMA NewEpochStep ==
    ASSUME IInv, NEW fee \in TransferFees, NewEpoch(fee)
    PROVE  IInv'
  <1>1. TypeOK' /\ PacketsFinite'
    BY DEF IInv, TypeOK, PacketsFinite, NewEpoch, programVars, chainVars, historyVars
  <1> QED
    BY <1>1, QuietStep DEF NewEpoch, programVars, historyVars

\* Mints of others are counted in minted_ld.
LEMMA MintByOtherStep ==
    ASSUME IInv, NEW user \in Users, NEW amount_ld \in SpareAmounts,
           MintByOther(user, amount_ld)
    PROVE  IInv'
  <1>1. /\ amount_ld \in Nat /\ balance \in [Users -> Nat] /\ supply \in Nat
        /\ minted_ld \in Nat /\ InitialBalance * Cardinality(Users) \in Nat
    BY OFTAssumption, MathAssumption, SMT DEF IInv, TypeOK, U64
  <1>2. /\ supply' = supply + amount_ld /\ minted_ld' = minted_ld + amount_ld
        /\ balance' = [balance EXCEPT ![user] = balance[user] + amount_ld]
        /\ UNCHANGED <<oft_store, peer, escrow, mint_authority, transfer_fee, chainVars,
                       received, credited, out_sd, in_sd, fees_ld>>
    BY DEF MintByOther, programVars
  <1>3. balance' \in [Users -> Nat] /\ supply' \in Nat /\ minted_ld' \in Nat
    BY <1>1, <1>2, CreditUser, SMT
  <1>4. TypeOK' /\ PacketsFinite'
    BY <1>2, <1>3 DEF IInv, TypeOK, PacketsFinite, chainVars
  <1>5. FreshInv'
    BY <1>1, <1>2, SMT DEF IInv, FreshInv, Initialized
  <1>6. EscrowAccounted' /\ TvlIsOutstanding'
    BY <1>2 DEF IInv, EscrowAccounted, TvlIsOutstanding, Initialized, IsAdapter, IsNative
  <1>7. SupplyAccounted'
    <2> SUFFICES ASSUME IsNative'
                 PROVE  supply' + oft_store.ld2sd_rate * out_sd =
                            InitialBalance * Cardinality(Users) + minted_ld'
                                + oft_store.ld2sd_rate * in_sd
      BY <1>2 DEF SupplyAccounted
    <2>1. IsNative
      BY <1>2 DEF IsNative, Initialized
    <2>2. oft_store.ld2sd_rate * out_sd \in Int /\ oft_store.ld2sd_rate * in_sd \in Int
      <3>1. /\ oft_store.ld2sd_rate \in Int /\ out_sd \in Int /\ in_sd \in Int
        BY <2>1, StoreTypes, SMT DEF IInv, TypeOK, IsNative
      <3> QED
        BY <3>1, SMT
    <2>3. supply + oft_store.ld2sd_rate * out_sd =
              InitialBalance * Cardinality(Users) + minted_ld + oft_store.ld2sd_rate * in_sd
      BY <2>1 DEF IInv, SupplyAccounted
    <2> QED
      BY <1>1, <1>2, <2>2, <2>3, SMT
  <1> QED
    BY <1>4, <1>5, <1>6, <1>7 DEF IInv

\* Gifts to the escrow count as fees.
LEMMA DonateStep ==
    ASSUME IInv, NEW user \in Users, NEW amount_ld \in SpareAmounts, Donate(user, amount_ld)
    PROVE  IInv'
  <1>1. /\ amount_ld \in Nat /\ balance \in [Users -> Nat] /\ escrow \in Nat
        /\ fees_ld \in Nat /\ transfer_fee \in TransferFee
    BY OFTAssumption, MathAssumption, SMT DEF IInv, TypeOK, U64
  <1>2. PICK net \in Nat : net = get_post_fee_amount_ld(transfer_fee, amount_ld)
    BY <1>1, PostFeeBounds, SMT
  <1>3. /\ Initialized /\ balance[user] >= amount_ld
        /\ balance' = [balance EXCEPT ![user] = balance[user] - amount_ld]
        /\ escrow' = escrow + net /\ fees_ld' = fees_ld + net
        /\ UNCHANGED <<oft_store, peer, supply, mint_authority, transfer_fee, chainVars,
                       received, credited, out_sd, in_sd, minted_ld>>
    BY <1>2 DEF Donate, programVars
  <1>4. balance' \in [Users -> Nat] /\ escrow' \in Nat /\ fees_ld' \in Nat
    <2>1. balance[user] - amount_ld \in Nat
      BY <1>1, <1>3, SMT
    <2> QED
      BY <1>1, <1>2, <1>3, <2>1, SMT
  <1>5. TypeOK' /\ PacketsFinite'
    BY <1>3, <1>4 DEF IInv, TypeOK, PacketsFinite, chainVars
  <1>6. EscrowAccounted'
    <2>1. oft_store.tvl_ld \in Nat
      BY <1>3, StoreTypes DEF IInv
    <2> QED
      BY <1>1, <1>2, <1>3, <2>1, SMT DEF IInv, EscrowAccounted
  <1>7. FreshInv' /\ TvlIsOutstanding' /\ SupplyAccounted'
    BY <1>3 DEF IInv, FreshInv, TvlIsOutstanding, SupplyAccounted, Initialized, IsAdapter,
       IsNative
  <1> QED
    BY <1>5, <1>6, <1>7 DEF IInv
----------------------------------------------------------------------------
\* The invariant and what follows from it.

\* A step that changes nothing keeps the invariant.
LEMMA StutterStep ==
    ASSUME IInv, UNCHANGED vars
    PROVE  IInv'
  <1>1. TypeOK' /\ PacketsFinite'
    BY DEF IInv, TypeOK, PacketsFinite, vars, programVars, tokenVars, chainVars, historyVars
  <1> QED
    BY <1>1, QuietStep DEF vars, programVars, tokenVars, historyVars

\* Every step keeps the invariant.
LEMMA NextStep == IInv /\ [Next]_vars => IInv'
  <1> SUFFICES ASSUME IInv, [Next]_vars PROVE IInv'
    OBVIOUS
  <1>1. CASE Admin
    BY <1>1, SetOFTConfigStep, SetPeerConfigStep, SetPauseStep, WithdrawFeeStep DEF Admin
  <1>2. CASE Public
    <2>1. MinAmounts \subseteq U64 /\ ComposeChoices \subseteq BOOLEAN
      BY OFTAssumption
    <2> QED
      BY <1>2, <2>1, InitOFTStep, SendStep, LzReceiveStep DEF Public
  <1>3. CASE Environment
    BY <1>3, VerifyStep, TickStep, HandOverMintStep, MintByOtherStep, DonateStep, NewEpochStep
    DEF Environment
  <1>4. CASE UNCHANGED vars
    BY <1>4, StutterStep
  <1> QED
    BY <1>1, <1>2, <1>3, <1>4 DEF Next

\* The invariant holds throughout.
LEMMA Invariant == Spec => []IInv
  BY InitialState, NextStep, PTL DEF Spec

\* Accounts, packets and history keep their types in every execution of the
\* program; in particular no withdrawal makes the fees negative.
THEOREM TypeCorrect == Spec => []TypeOK
  BY Invariant, PTL DEF IInv

\* The books of the program agree with each other wherever the invariant holds.
LEMMA BooksAgree ==
    ASSUME IInv
    PROVE  TvlBacked /\ EscrowAccounted /\ TvlIsOutstanding /\ SupplyAccounted
<1>1. ASSUME Initialized PROVE escrow >= oft_store.tvl_ld
    <2>1. oft_store.tvl_ld \in Nat
        BY <1>1, StoreTypes DEF IInv
    <2>2. QED
        BY <1>1, <2>1, SMT DEF IInv, TypeOK, EscrowAccounted
<1>2. QED
    BY <1>1 DEF IInv, TvlBacked

\* The escrow of an Adapter always covers the locked value.
THEOREM TvlAlwaysBacked == Spec => []TvlBacked
  BY BooksAgree, Invariant, PTL

\* What the escrow holds beyond the locked value is exactly the fees.
THEOREM EscrowAlwaysAccounted == Spec => []EscrowAccounted
  BY Invariant, PTL DEF IInv

\* The locked value is worth the messages sent less the messages paid out.
THEOREM TvlAlwaysOutstanding == Spec => []TvlIsOutstanding
  BY Invariant, PTL DEF IInv

\* The supply of a Native OFT moves with the messages only.
THEOREM SupplyAlwaysAccounted == Spec => []SupplyAccounted
  BY Invariant, PTL DEF IInv
----------------------------------------------------------------------------
\* What the program promises its users beyond its books: a pause stops it, a
\* sender's minimum is kept, a packet is paid at most once, and the limiters of
\* every peer change only as PeerLimits allows.

\* A step of set_oft_config or set_pause leaves the terms of the store alone.
LEMMA StoreWritten ==
    ASSUME IInv, NEW signer \in Keys,
           set_oft_config(signer) \/ \E paused \in BOOLEAN : set_pause(signer, paused)
    PROVE  /\ Initialized /\ Initialized'
           /\ oft_store'.tvl_ld = oft_store.tvl_ld
           /\ oft_store'.ld2sd_rate = oft_store.ld2sd_rate
           /\ oft_store'.oft_type = oft_store.oft_type
           /\ UNCHANGED <<peer, sent, inbox, received, credited, out_sd, in_sd, now>>
<1>1. Initialized
    BY DEF set_oft_config, SetAdmin, SetDelegate, SetDefaultFee, SetPaused, SetPauser,
           SetUnpauser, ConfigStore, set_pause
<1>2. oft_store \in OFTStore
    BY <1>1, StoreTypes DEF IInv
<1>3. /\ oft_store'.tvl_ld = oft_store.tvl_ld /\ oft_store'.ld2sd_rate = oft_store.ld2sd_rate
      /\ oft_store'.oft_type = oft_store.oft_type
      /\ UNCHANGED <<peer, sent, inbox, received, credited, out_sd, in_sd, now>>
    BY <1>2 DEF set_oft_config, SetAdmin, SetDelegate, SetDefaultFee, SetPaused, SetPauser,
       SetUnpauser, ConfigStore, set_pause, OFTStore, chainVars, historyVars, programVars
<1>4. IInv'
    BY SetOFTConfigStep, SetPauseStep
<1>5. Initialized'
    <2>1. CASE oft_store' = oft_store
        BY <2>1, <1>1 DEF Initialized
    <2>2. CASE oft_store' \in OFTStore
        BY <2>2, NoneIsNoStore DEF Initialized
    <2>3. ASSUME NEW fee_bps \in FeeChoices, SetDefaultFee(signer, fee_bps)
          PROVE  oft_store' \in OFTStore
        <3>1. fee_bps \in OftFeeBps
            BY <2>3, OFTAssumption, MathAssumption, SMT DEF SetDefaultFee, OftFeeBps
        <3>2. QED
            BY <1>2, <2>3, <3>1 DEF SetDefaultFee, ConfigStore, OFTStore
    <2>4. ASSUME NEW key \in Pausers, SetPauser(signer, key) \/ SetUnpauser(signer, key)
          PROVE  oft_store' \in OFTStore
        <3>1. key \in Keys \cup {None}
            BY OFTAssumption
        <3>2. QED
            BY <1>2, <2>4, <3>1 DEF SetPauser, SetUnpauser, ConfigStore, OFTStore
    <2>5. ASSUME NEW key \in Keys, SetAdmin(signer, key) PROVE oft_store' \in OFTStore
        BY <1>2, <2>5 DEF SetAdmin, ConfigStore, OFTStore
    <2>6. ASSUME NEW key \in Keys, SetDelegate(signer, key) PROVE oft_store' = oft_store
        BY <2>6 DEF SetDelegate, programVars
    <2>7. ASSUME NEW paused \in BOOLEAN, SetPaused(signer, paused) \/ set_pause(signer, paused)
          PROVE  oft_store' \in OFTStore
        BY <1>2, <2>7 DEF SetPaused, ConfigStore, set_pause, OFTStore
    <2>8. QED
        BY <2>1, <2>2, <2>3, <2>4, <2>5, <2>6, <2>7 DEF set_oft_config
<1>6. QED
    BY <1>1, <1>3, <1>5

\* What a step does to the packets: only send and lz_receive move value.
LEMMA WhoMoves ==
    ASSUME IInv, [Next]_vars
    PROVE  \/ /\ UNCHANGED <<sent, received, credited, out_sd, in_sd>>
              /\ Initialized =>
                    /\ Initialized' /\ oft_store'.ld2sd_rate = oft_store.ld2sd_rate
                    /\ oft_store'.tvl_ld = oft_store.tvl_ld
                    /\ oft_store'.oft_type = oft_store.oft_type
           \/ \E user \in Users, eid \in Eids, amount_ld \in U64, min_amount_ld \in MinAmounts,
                 compose \in ComposeChoices, options \in SUBSET ExecOptions :
                 send(user, eid, amount_ld, min_amount_ld, compose, options)
           \/ \E packet \in inbox : lz_receive(packet)
<1> DEFINE Quiet == /\ UNCHANGED <<sent, received, credited, out_sd, in_sd>>
                    /\ Initialized =>
                          /\ Initialized' /\ oft_store'.ld2sd_rate = oft_store.ld2sd_rate
                          /\ oft_store'.tvl_ld = oft_store.tvl_ld
                          /\ oft_store'.oft_type = oft_store.oft_type
<1>1. CASE UNCHANGED vars
    BY <1>1 DEF vars, programVars, chainVars, historyVars, Initialized
<1>2. CASE Admin
    <2>1. ASSUME NEW signer \in Keys,
                 set_oft_config(signer) \/ \E paused \in BOOLEAN : set_pause(signer, paused)
          PROVE  Quiet
        BY <2>1, StoreWritten
    <2>2. ASSUME NEW signer \in Keys, NEW eid \in Eids, set_peer_config(signer, eid)
          PROVE  Quiet
        BY <2>2 DEF set_peer_config, SetPeerAddress, SetPeerFee, SetEnforcedOptions,
           SetOutboundRateLimit, SetInboundRateLimit, ConfigPeer, chainVars, historyVars,
           Initialized
    <2>3. ASSUME NEW signer \in Keys, NEW fee_ld \in U64, NEW dest \in Users,
                 withdraw_fee(signer, fee_ld, dest)
          PROVE  Quiet
        BY <2>3 DEF withdraw_fee, programVars, chainVars, Initialized
    <2>4. QED
        BY <1>2, <2>1, <2>2, <2>3 DEF Admin
<1>3. CASE Environment
    BY <1>3 DEF Environment, Verify, Tick, HandOverMint, MintByOther, Donate, NewEpoch,
       programVars, tokenVars, chainVars, historyVars, Initialized
<1>4. ASSUME NEW oft_type \in OFTType, NEW admin \in Keys, NEW shared_decimals \in SharedDecimals,
             init_oft(oft_type, admin, shared_decimals)
      PROVE  Quiet
    BY <1>4 DEF init_oft, historyVars
<1>5. QED
    BY <1>1, <1>2, <1>3, <1>4 DEF Next, Public

\* What a step may not do while the program is paused.
Frozen ==
    Initialized /\ oft_store.paused =>
        /\ UNCHANGED <<sent, received, credited>>
        /\ oft_store'.tvl_ld = oft_store.tvl_ld

\* No step of the program does it.
LEMMA FrozenStep == ASSUME IInv, [Next]_vars PROVE Frozen
<1> SUFFICES ASSUME Initialized, oft_store.paused PROVE Frozen
    BY DEF Frozen
<1>1. ~\E user \in Users, eid \in Eids, amount_ld \in U64, min_amount_ld \in MinAmounts,
          compose \in ComposeChoices, options \in SUBSET ExecOptions :
          send(user, eid, amount_ld, min_amount_ld, compose, options)
    BY DEF send
<1>2. ~\E packet \in inbox : lz_receive(packet)
    BY DEF lz_receive, Open
<1>3. QED
    BY <1>1, <1>2, WhoMoves DEF Frozen

\* While the store is paused, nobody's step moves value.
THEOREM PauseAlwaysFreezes == Spec => PauseFreezes
<1>1. IInv /\ [Next]_vars => [Frozen]_vars
    BY FrozenStep
<1>2. Spec => [][Frozen]_vars
    BY <1>1, Invariant, PTL DEF Spec
<1>3. QED
    BY <1>2 DEF PauseFreezes, Frozen
----------------------------------------------------------------------------
\* send and lz_receive keep the store and its rate.
LEMMA TakenFrom ==
    ASSUME IInv, Initialized, NEW user, NEW r, TakeTokens(user, r)
    PROVE  /\ Initialized' /\ oft_store'.ld2sd_rate = oft_store.ld2sd_rate
           /\ oft_store'.oft_type = oft_store.oft_type
<1>1. oft_store \in OFTStore
    BY StoreTypes DEF IInv
<1>2. CASE LockTokens(user, r)
    <2>1. PICK tvl \in U64 : oft_store' = [oft_store EXCEPT !.tvl_ld = tvl]
        BY <1>2 DEF LockTokens, Fits
    <2>2. /\ oft_store' \in OFTStore /\ oft_store'.ld2sd_rate = oft_store.ld2sd_rate
          /\ oft_store'.oft_type = oft_store.oft_type
        BY <1>1, <2>1 DEF OFTStore
    <2>3. QED
        BY <2>2, NoneIsNoStore DEF Initialized
<1>3. CASE BurnTokens(user, r)
    BY <1>3 DEF BurnTokens, Initialized
<1>4. QED
    BY <1>2, <1>3 DEF TakeTokens

\* Giving tokens keeps the rate and the type of the store.
LEMMA GivenFrom ==
    ASSUME IInv, Initialized, NEW user, NEW amount_ld, GiveTokens(user, amount_ld)
    PROVE  /\ Initialized' /\ oft_store'.ld2sd_rate = oft_store.ld2sd_rate
           /\ oft_store'.oft_type = oft_store.oft_type
<1>1. oft_store \in OFTStore
    BY StoreTypes DEF IInv
<1>2. CASE UnlockTokens(user, amount_ld)
    <2>1. PICK tvl \in U64 : oft_store' = [oft_store EXCEPT !.tvl_ld = tvl]
        BY <1>2 DEF UnlockTokens, Fits
    <2>2. /\ oft_store' \in OFTStore /\ oft_store'.ld2sd_rate = oft_store.ld2sd_rate
          /\ oft_store'.oft_type = oft_store.oft_type
        BY <1>1, <2>1 DEF OFTStore
    <2>3. QED
        BY <2>2, NoneIsNoStore DEF Initialized
<1>3. CASE MintTokens(user, amount_ld)
    BY <1>3 DEF MintTokens, Initialized
<1>4. QED
    BY <1>2, <1>3 DEF GiveTokens

\* The minimum of a packet is compared with what the message says, not with
\* what the sender pays; init_oft, which sets the rate, comes before all packets.
TermsInv == TermsHonoured /\ (~Initialized => sent = {})

\* The packet that send hands over is worth what its sender asked for, whatever
\* the minimum is and whoever chose it.
LEMMA SendTerms ==
    ASSUME IInv, TermsInv, NEW user, NEW eid \in Eids, NEW amount_ld \in U64,
           NEW min_amount_ld, NEW compose, NEW options,
           send(user, eid, amount_ld, min_amount_ld, compose, options)
    PROVE  TermsInv'
<1>1. PICK r, sd :
         /\ r = Amounts(eid, amount_ld) /\ sd = ld2sd(r.received, oft_store.ld2sd_rate)
         /\ Initialized /\ peer[eid] # None
         /\ r.received >= min_amount_ld
         /\ TakeTokens(user, r)
         /\ sent' = sent \cup
               {[eid |-> eid, remote |-> peer[eid].peer_address,
                 nonce |-> NextNonce(sent, eid, peer[eid].peer_address),
                 amount_sd |-> sd, compose |-> compose, min_amount_ld |-> min_amount_ld,
                 options |-> combine_options(peer[eid].enforced_options, compose, options)]}
    BY DEF send, Acceptable
<1>2. PICK p : p = [eid |-> eid, remote |-> peer[eid].peer_address,
                    nonce |-> NextNonce(sent, eid, peer[eid].peer_address),
                    amount_sd |-> sd, compose |-> compose, min_amount_ld |-> min_amount_ld,
                    options |-> combine_options(peer[eid].enforced_options, compose, options)]
    OBVIOUS
<1>3. p.amount_sd = sd /\ p.min_amount_ld = min_amount_ld /\ sent' = sent \cup {p}
    BY <1>1, <1>2
<1>4. r.received = oft_store.ld2sd_rate * sd /\ sd \in Nat
    BY <1>1, SendAmounts
<1>5. Initialized' /\ oft_store'.ld2sd_rate = oft_store.ld2sd_rate
    BY <1>1, TakenFrom
<1>6. oft_store.ld2sd_rate \in Nat
    BY <1>1, StoreTypes DEF IInv
<1>7. oft_store.ld2sd_rate * sd = sd * oft_store.ld2sd_rate
    BY <1>4, <1>6, SMT
<1>8. sd2ld(p.amount_sd, oft_store.ld2sd_rate) >= p.min_amount_ld
    BY <1>1, <1>3, <1>4, <1>7 DEF sd2ld
<1>9. QED
    BY <1>3, <1>5, <1>8 DEF TermsInv, TermsHonoured

\* The rate by which the packets were measured stays.
LEMMA TermsStep == IInv /\ TermsInv /\ [Next]_vars => TermsInv'
<1> SUFFICES ASSUME IInv, TermsInv, [Next]_vars PROVE TermsInv'
    OBVIOUS
<1>1. CASE /\ UNCHANGED <<sent, received, credited, out_sd, in_sd>>
           /\ Initialized => Initialized' /\ oft_store'.ld2sd_rate = oft_store.ld2sd_rate
    BY <1>1 DEF TermsInv, TermsHonoured
<1>2. ASSUME NEW user \in Users, NEW eid \in Eids, NEW amount_ld \in U64,
             NEW min_amount_ld \in MinAmounts, NEW compose \in ComposeChoices,
             NEW options \in SUBSET ExecOptions,
             send(user, eid, amount_ld, min_amount_ld, compose, options)
      PROVE  TermsInv'
    BY <1>2, SendTerms
<1>3. ASSUME NEW packet \in inbox, lz_receive(packet) PROVE TermsInv'
    <2>1. Initialized /\ sent' = sent
        BY <1>3 DEF lz_receive, Open
    <2>2. Initialized' /\ oft_store'.ld2sd_rate = oft_store.ld2sd_rate
        BY <1>3, <2>1, GivenFrom DEF lz_receive
    <2>3. QED
        BY <2>1, <2>2 DEF TermsInv, TermsHonoured
<1>4. QED
    BY <1>1, <1>2, <1>3, WhoMoves

\* Every packet that was sent is worth its sender's minimum, for all fees,
\* decimals and amounts.
THEOREM TermsAlwaysHonoured == Spec => []TermsHonoured
<1>1. Init => TermsInv
    BY DEF Init, TermsInv, TermsHonoured
<1>2. Spec => []TermsInv
    BY <1>1, TermsStep, Invariant, PTL DEF Spec
<1>3. QED
    BY <1>2, PTL DEF TermsInv
----------------------------------------------------------------------------
\* The packets the endpoint has verified, and those among them of one pathway.
Known == inbox \cup {e.packet : e \in received}
Pathway(packets, eid, remote) == {p \in packets : p.eid = eid /\ p.remote = remote}
PacketId(p) == <<p.eid, p.remote, p.nonce>>

\* A nonce is no greater than the number of packets of its pathway: the next one
\* is new.  What is paid is not pending.
NonceInv ==
    /\ \A p \in Known : p.nonce <= Cardinality(Pathway(Known, p.eid, p.remote))
    /\ \A p, q \in Known : PacketId(p) = PacketId(q) => p = q
    /\ \A e \in received : e.packet \notin inbox

\* The packets of a state, and those of each pathway, can be counted.
LEMMA KnownFinite ==
    ASSUME IInv
    PROVE  /\ IsFiniteSet(Known) /\ Known \subseteq InPacket
           /\ \A eid, remote : IsFiniteSet(Pathway(Known, eid, remote))
<1>1. IsFiniteSet(inbox) /\ IsFiniteSet(received)
    BY DEF IInv, PacketsFinite
<1>2. IsFiniteSet({e.packet : e \in received})
    <2>1. [e \in received |-> e.packet] \in Surjection(received, {e.packet : e \in received})
        BY DEF Surjection
    <2>2. QED
        BY <1>1, <2>1, FS_Surjection
<1>3. IsFiniteSet(Known)
    BY <1>1, <1>2, FS_Union DEF Known
<1>4. Known \subseteq InPacket
    BY DEF IInv, TypeOK, Known
<1>5. \A eid, remote : IsFiniteSet(Pathway(Known, eid, remote))
    BY <1>3, FS_Subset DEF Pathway
<1>6. QED
    BY <1>3, <1>4, <1>5

\* Verify gives the packet a nonce that no packet of the pathway has.
LEMMA VerifyIsNew ==
    ASSUME IInv, NonceInv, NEW eid \in Eids, NEW remote \in Remotes, NEW to \in Users,
           NEW amount_sd \in WireAmounts, NEW compose \in ComposeChoices,
           Verify(eid, remote, to, amount_sd, compose)
    PROVE  NonceInv'
<1>1. PICK n \in Nat : n = Cardinality(Pathway(Known, eid, remote))
    BY KnownFinite, FS_CardinalityType
<1>2. PICK packet : /\ packet = [eid |-> eid, remote |-> remote, nonce |-> n + 1, to |-> to,
                                 amount_sd |-> amount_sd, compose |-> compose]
                    /\ inbox' = inbox \cup {packet} /\ received' = received
    BY <1>1 DEF Verify, NextNonce, Pathway, Known, historyVars
<1>3. Known' = Known \cup {packet}
    BY <1>2 DEF Known
<1>4. packet \notin Known
    <2>1. packet \in Known => n + 1 <= n
        BY <1>1, <1>2 DEF NonceInv
    <2>2. QED
        BY <1>1, <2>1, SMT
<1>5. Pathway(Known', eid, remote) = Pathway(Known, eid, remote) \cup {packet}
    BY <1>2, <1>3 DEF Pathway
<1>6. Cardinality(Pathway(Known', eid, remote)) = n + 1
    <2>1. packet \notin Pathway(Known, eid, remote)
        BY <1>4 DEF Pathway
    <2>2. QED
        BY <1>1, <1>5, <2>1, KnownFinite, FS_AddElement
<1>7. ASSUME NEW p \in Known' PROVE p.nonce <= Cardinality(Pathway(Known', p.eid, p.remote))
    <2>1. CASE p = packet
        BY <1>1, <1>2, <1>6, <2>1, SMT
    <2>2. CASE p # packet
        <3>1. p \in Known /\ p.nonce \in Nat
            BY <1>3, <2>2, KnownFinite DEF InPacket
        <3>2. p.nonce <= Cardinality(Pathway(Known, p.eid, p.remote))
            BY <3>1 DEF NonceInv
        <3>3. CASE p.eid = eid /\ p.remote = remote
            BY <1>1, <1>6, <3>1, <3>2, <3>3, SMT
        <3>4. CASE ~(p.eid = eid /\ p.remote = remote)
            <4>1. Pathway(Known', p.eid, p.remote) = Pathway(Known, p.eid, p.remote)
                BY <1>2, <1>3, <3>4 DEF Pathway
            <4>2. QED
                BY <3>2, <4>1
        <3>5. QED
            BY <3>3, <3>4
    <2>3. QED
        BY <2>1, <2>2
<1>8. \A e \in received' : e.packet \notin inbox'
    BY <1>2, <1>4 DEF NonceInv, Known
<1>9. ASSUME NEW p \in Known PROVE PacketId(p) # PacketId(packet)
    <2>1. CASE p.eid = eid /\ p.remote = remote
        <3>1. p.nonce <= n /\ p.nonce \in Nat
            BY <1>1, <2>1, KnownFinite DEF NonceInv, InPacket
        <3>2. p.nonce # n + 1
            BY <3>1, SMT
        <3>3. QED
            BY <1>2, <3>2 DEF PacketId
    <2>2. CASE ~(p.eid = eid /\ p.remote = remote)
        BY <1>2, <2>2 DEF PacketId
    <2>3. QED
        BY <2>1, <2>2
<1>10. \A p, q \in Known' : PacketId(p) = PacketId(q) => p = q
    BY <1>3, <1>9 DEF NonceInv
<1>11. QED
    BY <1>7, <1>8, <1>10 DEF NonceInv

\* Who touches the packets: lz_receive, and the endpoint that verifies one.
LEMMA WhoDelivers ==
    ASSUME IInv, [Next]_vars
    PROVE  \/ UNCHANGED <<inbox, received>>
           \/ \E packet \in inbox : lz_receive(packet)
           \/ \E eid \in Eids, remote \in Remotes, to \in Users, amount_sd \in WireAmounts,
                 compose \in ComposeChoices : Verify(eid, remote, to, amount_sd, compose)
<1>1. ASSUME NEW signer \in Keys, set_oft_config(signer) PROVE UNCHANGED <<inbox, received>>
    BY <1>1, StoreWritten
<1>2. ASSUME NEW signer \in Keys, NEW eid \in Eids, set_peer_config(signer, eid)
      PROVE  UNCHANGED <<inbox, received>>
    BY <1>2 DEF set_peer_config, SetPeerAddress, SetPeerFee, SetEnforcedOptions,
       SetOutboundRateLimit, SetInboundRateLimit, ConfigPeer, chainVars, historyVars
<1>3. CASE Admin
    BY <1>1, <1>2, <1>3 DEF Admin, set_pause, withdraw_fee, chainVars, historyVars
<1>4. CASE Public
    BY <1>4 DEF Public, init_oft, send, historyVars
<1>5. CASE Environment
    <2>1. CASE Tick \/ \E eid \in Eids, remote \in Remotes, to \in Users, amount_sd \in WireAmounts,
                         compose \in ComposeChoices : Verify(eid, remote, to, amount_sd, compose)
        BY <2>1 DEF Tick, historyVars
    <2>2. CASE \/ \E authority \in NewAuthorities : HandOverMint(authority)
               \/ \E user \in Users, amount_ld \in SpareAmounts :
                      MintByOther(user, amount_ld) \/ Donate(user, amount_ld)
               \/ \E fee \in TransferFees : NewEpoch(fee)
        BY <2>2 DEF HandOverMint, MintByOther, Donate, NewEpoch, chainVars, historyVars
    <2>3. QED
        BY <1>5, <2>1, <2>2, Zenon DEF Environment
<1>6. CASE UNCHANGED vars
    BY <1>6 DEF vars, chainVars, historyVars
<1>7. QED
    BY <1>3, <1>4, <1>5, <1>6 DEF Next

\* lz_receive turns a packet that is pending into one that is paid.
LEMMA PacketPaid ==
    ASSUME NEW packet \in inbox, lz_receive(packet)
    PROVE  /\ Known' = Known
           /\ inbox' = inbox \ {packet}
           /\ \E e : e.packet = packet /\ received' = received \cup {e}
<1>1. PICK e : /\ e.packet = packet /\ received' = received \cup {e}
               /\ inbox' = inbox \ {packet}
    BY DEF lz_receive, Clear
<1>2. QED
    BY <1>1 DEF Known

\* Nonces stay unique: lz_receive adds no packet, Verify one with a new nonce.
LEMMA NonceStep == IInv /\ NonceInv /\ [Next]_vars => NonceInv'
<1> SUFFICES ASSUME IInv, NonceInv, [Next]_vars PROVE NonceInv'
    OBVIOUS
<1>1. CASE UNCHANGED <<inbox, received>>
    BY <1>1 DEF NonceInv, Known
<1>2. ASSUME NEW packet \in inbox, lz_receive(packet) PROVE NonceInv'
    <2>1. \A x \in received' : x.packet \notin inbox'
        BY <1>2, PacketPaid DEF NonceInv
    <2>2. QED
        BY <1>2, <2>1, PacketPaid DEF NonceInv
<1>3. QED
    BY <1>1, <1>2, WhoDelivers, VerifyIsNew

\* A packet once verified stays known, pending or paid.
LEMMA KnownStays == IInv /\ [Next]_vars => Known \subseteq Known'
<1> SUFFICES ASSUME IInv, [Next]_vars PROVE Known \subseteq Known'
    OBVIOUS
<1>1. ASSUME NEW eid, NEW remote, NEW to, NEW amount_sd, NEW compose,
             Verify(eid, remote, to, amount_sd, compose)
      PROVE  Known \subseteq Known'
    BY <1>1 DEF Verify, Known, historyVars
<1>2. CASE UNCHANGED <<inbox, received>>
    BY <1>2 DEF Known
<1>3. QED
    BY <1>1, <1>2, WhoDelivers, PacketPaid

\* A packet that has been paid is never pending again, however many packets
\* with the same contents a chain sends: the first half of PaidOnce.
THEOREM NeverPaidAgain == Spec => [](\A e \in received : e.packet \notin inbox)
<1>1. Init => NonceInv
    BY DEF Init, NonceInv, Known
<1>2. Spec => []NonceInv
    BY <1>1, NonceStep, Invariant, PTL DEF Spec
<1>3. NonceInv => \A e \in received : e.packet \notin inbox
    BY DEF NonceInv
<1>4. QED
    BY <1>2, <1>3, PTL
----------------------------------------------------------------------------
\* The OFTReceived events, with the numbers that the two sums below add up.
Events == [packet : InPacket, amount_received_ld : Nat]
PaidAmounts == [e \in Events |-> e.packet.amount_sd]
AnnouncedAmounts == [e \in Events |-> e.amount_received_ld]

\* The sum in PaidOnce.
LEMMA PaidTotal ==
    ASSUME NEW S, IsFiniteSet(S), S \subseteq Events
    PROVE  MapThenSumSet(LAMBDA e : e.packet.amount_sd, S) = SumOf(PaidAmounts, S)
<1> DEFINE Table(it) ==
        it = [s \in SUBSET S |->
                 IF s = {} THEN 0
                 ELSE LET x == CHOOSE x \in s : TRUE IN x.packet.amount_sd + it[s \ {x}]]
<1>1. ASSUME NEW it PROVE SumsOver(it, S, PaidAmounts) <=> Table(it)
    <2>1. ASSUME NEW s \in SUBSET S, s # {}
          PROVE  PaidAmounts[CHOOSE x \in s : TRUE] = (CHOOSE x \in s : TRUE).packet.amount_sd
        BY <2>1, ChosenFromSet DEF PaidAmounts
    <2>2. QED
        BY <2>1 DEF SumsOver, NextSum
<1>2. MapThenSumSet(LAMBDA e : e.packet.amount_sd, S) = (CHOOSE it : Table(it))[S]
    BY Zenon DEF MapThenSumSet, MapThenFoldSet
<1>3. (CHOOSE it : SumsOver(it, S, PaidAmounts)) = CHOOSE it : Table(it)
    <2> HIDE DEF Table
    <2> QED
        BY <1>1, Zenon
<1>4. QED
    BY <1>2, <1>3, Zenon DEF SumOf

\* The sum in AnnouncedIsCredited.
LEMMA AnnouncedTotal ==
    ASSUME NEW S, IsFiniteSet(S), S \subseteq Events
    PROVE  MapThenSumSet(LAMBDA e : e.amount_received_ld, S) = SumOf(AnnouncedAmounts, S)
<1> DEFINE Table(it) ==
        it = [s \in SUBSET S |->
                 IF s = {} THEN 0
                 ELSE LET x == CHOOSE x \in s : TRUE IN x.amount_received_ld + it[s \ {x}]]
<1>1. ASSUME NEW it PROVE SumsOver(it, S, AnnouncedAmounts) <=> Table(it)
    <2>1. ASSUME NEW s \in SUBSET S, s # {}
          PROVE  AnnouncedAmounts[CHOOSE x \in s : TRUE] = (CHOOSE x \in s : TRUE).amount_received_ld
        BY <2>1, ChosenFromSet DEF AnnouncedAmounts
    <2>2. QED
        BY <2>1 DEF SumsOver, NextSum
<1>2. MapThenSumSet(LAMBDA e : e.amount_received_ld, S) = (CHOOSE it : Table(it))[S]
    BY Zenon DEF MapThenSumSet, MapThenFoldSet
<1>3. (CHOOSE it : SumsOver(it, S, AnnouncedAmounts)) = CHOOSE it : Table(it)
    <2> HIDE DEF Table
    <2> QED
        BY <1>1, Zenon
<1>4. QED
    BY <1>2, <1>3, Zenon DEF SumOf

\* The events of one recipient.
EventsOf(u) == {e \in received : e.packet.to = u}

\* What has been paid, in both units, is what the events say.
PaidInv ==
    /\ in_sd = SumOf(PaidAmounts, received)
    /\ \A u \in Users : credited[u] = SumOf(AnnouncedAmounts, EventsOf(u))

\* The events of a state are finitely many, with natural amounts.
LEMMA EventsFinite ==
    ASSUME IInv
    PROVE  /\ received \subseteq Events /\ IsFiniteSet(received)
           /\ \A e \in received : PaidAmounts[e] \in Nat /\ AnnouncedAmounts[e] \in Nat
           /\ \A u \in Users : IsFiniteSet(EventsOf(u))
<1>1. received \subseteq Events /\ IsFiniteSet(received)
    BY DEF IInv, TypeOK, PacketsFinite, Events
<1>2. \A e \in Events : PaidAmounts[e] \in Nat /\ AnnouncedAmounts[e] \in Nat
    BY MathAssumption, SMT DEF PaidAmounts, AnnouncedAmounts, Events, InPacket, U64
<1>3. \A u \in Users : IsFiniteSet(EventsOf(u))
    BY <1>1, FS_Subset DEF EventsOf
<1>4. QED
    BY <1>1, <1>2, <1>3

\* Whoever pays a user is announced with what the user gets.
LEMMA CreditedAsAnnounced ==
    ASSUME IInv, Initialized, NEW user \in Users, NEW amount_ld, GiveTokens(user, amount_ld)
    PROVE  credited' = [credited EXCEPT ![user] = @ + AnnouncedAmount(amount_ld)]
<1>1. oft_store.oft_type \in OFTType
    BY StoreTypes DEF IInv
<1>2. QED
    BY <1>1 DEF GiveTokens, UnlockTokens, MintTokens, AnnouncedAmount, OFTType

\* lz_receive adds one event, which no earlier payment has left.
LEMMA PaidByReceive ==
    ASSUME IInv, NonceInv, PaidInv, NEW packet \in inbox, lz_receive(packet)
    PROVE  PaidInv'
<1>1. PICK amount :
         /\ Initialized /\ amount = sd2ld(packet.amount_sd, oft_store.ld2sd_rate)
         /\ GiveTokens(packet.to, amount)
         /\ received' = received \cup
                {[packet |-> packet, amount_received_ld |-> AnnouncedAmount(amount)]}
         /\ in_sd' = in_sd + packet.amount_sd
    BY DEF lz_receive, Open
<1>2. PICK e : e = [packet |-> packet, amount_received_ld |-> AnnouncedAmount(amount)]
    OBVIOUS
<1>3. /\ received' = received \cup {e} /\ e.packet = packet
      /\ e.amount_received_ld = AnnouncedAmount(amount)
    BY <1>1, <1>2
<1>4. e \notin received
    BY <1>3 DEF NonceInv
<1>5. IInv'
    BY LzReceiveStep
<1>6. /\ received' \subseteq Events
      /\ \A x \in received' : PaidAmounts[x] \in Nat /\ AnnouncedAmounts[x] \in Nat
    <2>1. received' \subseteq Events
        BY <1>5 DEF IInv, TypeOK, Events
    <2>2. QED
        BY <2>1, MathAssumption, SMT DEF PaidAmounts, AnnouncedAmounts, Events, InPacket, U64
<1>7. PaidAmounts[e] = packet.amount_sd /\ AnnouncedAmounts[e] = AnnouncedAmount(amount)
    BY <1>3, <1>6 DEF PaidAmounts, AnnouncedAmounts
<1>8. in_sd' = SumOf(PaidAmounts, received')
    <2>1. SumOf(PaidAmounts, received \cup {e})
              = PaidAmounts[e] + SumOf(PaidAmounts, received)
        BY <1>3, <1>4, <1>6, EventsFinite, SumOfAdd
    <2>2. in_sd \in Nat /\ PaidAmounts[e] \in Nat
        BY <1>3, <1>6 DEF IInv, TypeOK
    <2>3. in_sd' = PaidAmounts[e] + in_sd
        BY <1>1, <1>7, <2>2
    <2>4. QED
        BY <1>3, <2>1, <2>3 DEF PaidInv
<1>9. ASSUME NEW u \in Users PROVE credited'[u] = SumOf(AnnouncedAmounts, EventsOf(u)')
    <2>1. packet.to \in Users /\ credited \in [Users -> Nat]
        BY DEF IInv, TypeOK, InPacket
    <2>2. credited' = [credited EXCEPT ![packet.to] = @ + AnnouncedAmount(amount)]
        BY <1>1, <2>1, CreditedAsAnnounced
    <2>3. CASE u = packet.to
        <3>1. EventsOf(u)' = EventsOf(u) \cup {e} /\ e \notin EventsOf(u)
            BY <1>3, <1>4, <2>3 DEF EventsOf
        <3>2. /\ IsFiniteSet(EventsOf(u)) /\ AnnouncedAmounts[e] \in Nat
              /\ \A x \in EventsOf(u) : AnnouncedAmounts[x] \in Nat
            BY <1>3, <1>6, EventsFinite DEF EventsOf
        <3>3. SumOf(AnnouncedAmounts, EventsOf(u) \cup {e})
                  = AnnouncedAmounts[e] + SumOf(AnnouncedAmounts, EventsOf(u))
            BY <3>1, <3>2, SumOfAdd
        <3>4. credited'[u] = credited[u] + AnnouncedAmounts[e] /\ credited[u] \in Nat
            BY <1>7, <2>1, <2>2, <2>3
        <3>5. QED
            BY <3>1, <3>2, <3>3, <3>4 DEF PaidInv
    <2>4. CASE u # packet.to
        <3>1. EventsOf(u)' = EventsOf(u)
            BY <1>3, <2>4 DEF EventsOf
        <3>2. QED
            BY <2>1, <2>2, <2>4, <3>1 DEF PaidInv
    <2>5. QED
        BY <2>3, <2>4
<1>10. QED
    BY <1>8, <1>9 DEF PaidInv

\* Nobody else touches what has been paid.
LEMMA PaidStep == IInv /\ NonceInv /\ PaidInv /\ [Next]_vars => PaidInv'
<1> SUFFICES ASSUME IInv, NonceInv, PaidInv, [Next]_vars PROVE PaidInv'
    OBVIOUS
<1>1. CASE UNCHANGED <<received, credited, in_sd>>
    BY <1>1 DEF PaidInv, EventsOf
<1>2. ASSUME NEW packet \in inbox, lz_receive(packet) PROVE PaidInv'
    BY <1>2, PaidByReceive
<1>3. ASSUME NEW user \in Users, NEW eid \in Eids, NEW amount_ld \in U64,
             NEW min_amount_ld \in MinAmounts, NEW compose \in ComposeChoices,
             NEW options \in SUBSET ExecOptions,
             send(user, eid, amount_ld, min_amount_ld, compose, options)
      PROVE  UNCHANGED <<received, credited, in_sd>>
    BY <1>3 DEF send
<1>4. QED
    BY <1>1, <1>2, <1>3, WhoMoves

\* The sums of what was paid hold for ever.
LEMMA PaidInvariant == Spec => [](IInv /\ NonceInv /\ PaidInv)
<1>1. Init => NonceInv
    BY DEF Init, NonceInv, Known
<1>2. Init => PaidInv
    BY SumOfEmpty DEF Init, PaidInv, EventsOf
<1>3. QED
    BY <1>1, <1>2, InitialState, NextStep, NonceStep, PaidStep, PTL DEF Spec

\* What the two theorems below say of a state where the invariants hold.
LEMMA PaidAndAnnounced ==
    ASSUME IInv, NonceInv, PaidInv
    PROVE  PaidOnce /\ AnnouncedIsCredited
<1>1. PaidOnce
    BY EventsFinite, PaidTotal DEF NonceInv, PaidInv, PaidOnce
<1>2. AnnouncedIsCredited
    <2>1. ASSUME NEW u \in Users
          PROVE  credited[u] = MapThenSumSet(LAMBDA e : e.amount_received_ld,
                                             {e \in received : e.packet.to = u})
        <3>1. IsFiniteSet(EventsOf(u)) /\ EventsOf(u) \subseteq Events
            BY <2>1, EventsFinite DEF EventsOf
        <3>2. MapThenSumSet(LAMBDA e : e.amount_received_ld, EventsOf(u))
                  = SumOf(AnnouncedAmounts, EventsOf(u))
            BY <3>1, AnnouncedTotal
        <3>3. QED
            BY <2>1, <3>2 DEF PaidInv, EventsOf
    <2>2. QED
        BY <2>1 DEF AnnouncedIsCredited
<1>3. QED
    BY <1>1, <1>2

\* A verified packet pays out once at most, and the total that was paid out is
\* the total of the packets that were paid, however many there are.
THEOREM AlwaysPaidOnce == Spec => []PaidOnce
  BY PaidAndAnnounced, PaidInvariant, PTL

\* What the events announce to a user is what reached the user's account, for
\* every transfer fee the mint may have from epoch to epoch.
THEOREM AnnouncedAlwaysCredited == Spec => []AnnouncedIsCredited
  BY PaidAndAnnounced, PaidInvariant, PTL
-----------------------------------------------------------------------------
\* The packets handed to the endpoint.

\* Their nonces number the packets of a pathway, so that no two are the same.
SentNonces ==
    /\ \A p \in sent : p.nonce <= Cardinality(Pathway(sent, p.eid, p.remote))
    /\ \A p, q \in sent : PacketId(p) = PacketId(q) => p = q

SentAmounts == [p \in SentPacket |-> p.amount_sd]

\* out_sd is what they are worth.
SentInv == SentNonces /\ out_sd = SumOf(SentAmounts, sent)

NewPacket(p) ==
    /\ p \notin sent /\ sent' = sent \cup {p}
    /\ \A q \in sent : PacketId(q) # PacketId(p)

\* One packet of this amount has come to the packets sent.
OnePacketOf(amount_sd) == \E p \in sent' : NewPacket(p) /\ p.amount_sd = amount_sd

\* send adds one packet, with a nonce that is new.
LEMMA SendIsNew ==
    ASSUME IInv, SentNonces, NEW user, NEW eid \in Eids, NEW amount_ld \in U64,
           NEW min_amount_ld, NEW compose, NEW options,
           send(user, eid, amount_ld, min_amount_ld, compose, options)
    PROVE  /\ SentNonces'
           /\ OnePacketOf(ld2sd(Amounts(eid, amount_ld).received, oft_store.ld2sd_rate))
<1>1. PICK remote, sd : remote = peer[eid].peer_address
                        /\ sd = ld2sd(Amounts(eid, amount_ld).received, oft_store.ld2sd_rate)
    OBVIOUS
<1>2. IsFiniteSet(Pathway(sent, eid, remote))
    BY FS_Subset DEF IInv, PacketsFinite, Pathway
<1>3. PICK n \in Nat : n = Cardinality(Pathway(sent, eid, remote))
    BY <1>2, FS_CardinalityType
<1>4. PICK p : /\ p.eid = eid /\ p.remote = remote /\ p.nonce = n + 1 /\ p.amount_sd = sd
               /\ sent' = sent \cup {p}
    <2>1. PICK p : p = [eid |-> eid, remote |-> remote, nonce |-> n + 1, amount_sd |-> sd,
                        compose |-> compose, min_amount_ld |-> min_amount_ld,
                        options |-> combine_options(peer[eid].enforced_options, compose, options)]
        OBVIOUS
    <2>2. sent' = sent \cup {p}
        BY <1>1, <1>3, <2>1 DEF send, NextNonce, Pathway
    <2>3. QED
        BY <2>1, <2>2
<1>5. ASSUME NEW q \in sent PROVE PacketId(q) # PacketId(p)
    <2>1. CASE q.eid = eid /\ q.remote = remote
        <3>1. q.nonce <= n /\ q.nonce \in Nat
            BY <1>3, <2>1 DEF SentNonces, IInv, TypeOK, SentPacket
        <3>2. q.nonce # n + 1
            BY <3>1, SMT
        <3>3. QED
            BY <1>4, <3>2 DEF PacketId
    <2>2. CASE ~(q.eid = eid /\ q.remote = remote)
        BY <1>4, <2>2 DEF PacketId
    <2>3. QED
        BY <2>1, <2>2
<1>6. NewPacket(p)
    BY <1>4, <1>5 DEF NewPacket
<1>7. ASSUME NEW q \in sent' PROVE q.nonce <= Cardinality(Pathway(sent', q.eid, q.remote))
    <2>1. Pathway(sent', eid, remote) = Pathway(sent, eid, remote) \cup {p}
        BY <1>4 DEF Pathway
    <2>2. p \notin Pathway(sent, eid, remote)
        BY <1>6 DEF Pathway, NewPacket
    <2>3. Cardinality(Pathway(sent', eid, remote)) = n + 1
        BY <1>2, <1>3, <2>1, <2>2, FS_AddElement
    <2>4. CASE q = p
        BY <1>3, <1>4, <2>3, <2>4, SMT
    <2>5. CASE q \in sent /\ q.eid = eid /\ q.remote = remote
        <3>1. q.nonce <= n /\ q.nonce \in Nat
            BY <1>3, <2>5 DEF SentNonces, IInv, TypeOK, SentPacket
        <3>2. QED
            BY <2>3, <2>5, <3>1, SMT
    <2>6. CASE q \in sent /\ ~(q.eid = eid /\ q.remote = remote)
        <3>1. Pathway(sent', q.eid, q.remote) = Pathway(sent, q.eid, q.remote)
            BY <1>4, <2>6 DEF Pathway
        <3>2. QED
            BY <2>6, <3>1 DEF SentNonces
    <2>7. QED
        BY <1>4, <2>4, <2>5, <2>6
<1>8. \A q, r \in sent' : PacketId(q) = PacketId(r) => q = r
    BY <1>4, <1>5 DEF SentNonces
<1>9. OnePacketOf(ld2sd(Amounts(eid, amount_ld).received, oft_store.ld2sd_rate))
    BY <1>1, <1>4, <1>6 DEF OnePacketOf
<1>10. QED
    BY <1>7, <1>8, <1>9 DEF SentNonces

\* Nobody else sends.
LEMMA SentStep == IInv /\ SentInv /\ [Next]_vars => SentInv'
<1> SUFFICES ASSUME IInv, SentInv, [Next]_vars PROVE SentInv'
    OBVIOUS
<1>1. CASE UNCHANGED <<sent, out_sd>>
    BY <1>1 DEF SentInv, SentNonces, Pathway, PacketId
<1>2. ASSUME NEW user \in Users, NEW eid \in Eids, NEW amount_ld \in U64,
             NEW min_amount_ld \in MinAmounts, NEW compose \in ComposeChoices,
             NEW options \in SUBSET ExecOptions,
             send(user, eid, amount_ld, min_amount_ld, compose, options)
      PROVE  SentInv'
    <2>1. PICK sd : /\ sd = ld2sd(Amounts(eid, amount_ld).received, oft_store.ld2sd_rate)
                    /\ out_sd' = out_sd + sd
        BY <1>2 DEF send
    <2>2. SentNonces' /\ OnePacketOf(sd)
        BY <1>2, <2>1, SendIsNew DEF SentInv
    <2>3. PICK p \in sent' : NewPacket(p) /\ p.amount_sd = sd
        BY <2>2 DEF OnePacketOf
    <2>4. /\ IsFiniteSet(sent) /\ sent \subseteq SentPacket /\ sent' \subseteq SentPacket
        <3>1. IInv'
            BY NextStep
        <3>2. QED
            BY <3>1 DEF IInv, TypeOK, PacketsFinite
    <2>5. \A q \in sent' : SentAmounts[q] = q.amount_sd /\ SentAmounts[q] \in Nat
        BY <2>4, MathAssumption, SMT DEF SentAmounts, SentPacket, U64
    <2>6. SumOf(SentAmounts, sent \cup {p}) = SentAmounts[p] + SumOf(SentAmounts, sent)
        BY <2>3, <2>4, <2>5, SumOfAdd DEF NewPacket
    <2>7. SumOf(SentAmounts, sent) \in Nat /\ SentAmounts[p] = sd /\ sd \in Nat
        BY <2>3, <2>4, <2>5, SumOfType DEF NewPacket
    <2>8. QED
        BY <2>1, <2>2, <2>3, <2>6, <2>7 DEF SentInv, NewPacket
<1>3. ASSUME NEW packet \in inbox, lz_receive(packet) PROVE UNCHANGED <<sent, out_sd>>
    BY <1>3 DEF lz_receive
<1>4. QED
    BY <1>1, <1>2, <1>3, WhoMoves
-----------------------------------------------------------------------------
\* The tokens in circulation on Solana.

\* After init_oft, type and rate of the store never change.
LEMMA StoreKept ==
    ASSUME IInv, Initialized, [Next]_vars
    PROVE  /\ Initialized' /\ oft_store'.ld2sd_rate = oft_store.ld2sd_rate
           /\ oft_store'.oft_type = oft_store.oft_type
<1>1. ASSUME NEW user \in Users, NEW eid \in Eids, NEW amount_ld \in U64,
             NEW min_amount_ld \in MinAmounts, NEW compose \in ComposeChoices,
             NEW options \in SUBSET ExecOptions,
             send(user, eid, amount_ld, min_amount_ld, compose, options)
      PROVE  \E r : TakeTokens(user, r)
    BY <1>1 DEF send
<1>2. ASSUME NEW packet \in inbox, lz_receive(packet)
      PROVE  \E amount_ld : GiveTokens(packet.to, amount_ld)
    BY <1>2 DEF lz_receive
<1>3. QED
    BY <1>1, <1>2, WhoMoves, TakenFrom, GivenFrom

\* And init_oft alone makes a store.
LEMMA WhoInitializes ==
    ASSUME [Next]_vars, ~Initialized, Initialized'
    PROVE  \E oft_type \in OFTType, admin \in Keys, shared_decimals \in SharedDecimals :
               init_oft(oft_type, admin, shared_decimals)
<1>1. CASE Admin
    BY <1>1 DEF Admin, set_oft_config, SetAdmin, SetDelegate, SetDefaultFee, SetPaused,
       SetPauser, SetUnpauser, ConfigStore, set_pause, set_peer_config, SetPeerAddress,
       SetPeerFee, SetEnforcedOptions, SetOutboundRateLimit, SetInboundRateLimit, ConfigPeer,
       withdraw_fee
<1>2. CASE Environment
    BY <1>2 DEF Environment, Verify, Tick, HandOverMint, MintByOther, Donate, NewEpoch,
       programVars, Initialized
<1>3. CASE UNCHANGED vars
    BY <1>3 DEF vars, programVars, Initialized
<1>4. QED
    BY <1>1, <1>2, <1>3 DEF Next, Public, send, lz_receive, Open

\* Who moves tokens of the mint.
LEMMA WhoHolds ==
    ASSUME [Next]_vars
    PROVE  \/ UNCHANGED <<balance, escrow, supply, minted_ld>>
           \/ \E signer \in Keys, fee_ld \in U64, dest \in Users :
                 withdraw_fee(signer, fee_ld, dest)
           \/ \E user \in Users, eid \in Eids, amount_ld \in U64, min_amount_ld \in MinAmounts,
                 compose \in ComposeChoices, options \in SUBSET ExecOptions :
                 send(user, eid, amount_ld, min_amount_ld, compose, options)
           \/ \E packet \in inbox : lz_receive(packet)
           \/ \E user \in Users, amount_ld \in SpareAmounts :
                 MintByOther(user, amount_ld) \/ Donate(user, amount_ld)
<1>1. CASE UNCHANGED vars
    BY <1>1 DEF vars, tokenVars, historyVars
<1>2. CASE Admin
    BY <1>2 DEF Admin, set_oft_config, SetAdmin, SetDelegate, SetDefaultFee, SetPaused,
       SetPauser, SetUnpauser, ConfigStore, set_pause, set_peer_config, SetPeerAddress,
       SetPeerFee, SetEnforcedOptions, SetOutboundRateLimit, SetInboundRateLimit, ConfigPeer,
       tokenVars, historyVars
<1>3. CASE Environment
    BY <1>3 DEF Environment, Verify, Tick, HandOverMint, NewEpoch, tokenVars, historyVars
<1>4. CASE Public
    BY <1>4 DEF Public, init_oft, tokenVars, historyVars
<1>5. QED
    BY <1>1, <1>2, <1>3, <1>4 DEF Next

\* The escrow and the users hold no more than there is: the supply can pay for
\* what send burns and locks.  An Adapter neither mints nor burns.
CoveredInv ==
    /\ escrow + SumOf(balance, Users) <= supply
    /\ IsAdapter => supply = InitialBalance * Cardinality(Users) + minted_ld

\* A change of one user's balance.
LEMMA HoldingsChange ==
    ASSUME IInv, NEW user \in Users, NEW new \in Nat, balance' = [balance EXCEPT ![user] = new]
    PROVE  /\ SumOf(balance, Users) \in Nat /\ SumOf(balance', Users) \in Nat
           /\ SumOf(balance', Users) + balance[user] = SumOf(balance, Users) + new
<1>1. balance \in [Users -> Nat] /\ IsFiniteSet(Users)
    BY OFTAssumption DEF IInv, TypeOK
<1>2. \A u \in Users : balance[u] \in Nat /\ balance'[u] \in Nat
    BY <1>1
<1>3. PICK f, g : f = balance /\ g = balance'
    OBVIOUS
<1>4. /\ \A u \in Users : f[u] \in Nat /\ g[u] \in Nat
      /\ g[user] = new /\ \A u \in Users \ {user} : f[u] = g[u]
    BY <1>1, <1>2, <1>3
<1>5. /\ SumOf(f, Users) \in Nat /\ SumOf(g, Users) \in Nat
      /\ SumOf(g, Users) + f[user] = SumOf(f, Users) + g[user]
    <2>1. IsFiniteSet(Users)
        BY <1>1
    <2>2. SameBut(f, g, Users, user)
        BY <1>4 DEF SameBut
    <2>3. QED
        BY <2>1, <2>2, SumOfChange
<1>6. QED
    BY <1>3, <1>4, <1>5

\* send burns or locks what the sender holds.
LEMMA SendCovered ==
    ASSUME IInv, CoveredInv, NEW user \in Users, NEW eid \in Eids, NEW amount_ld \in U64,
           NEW min_amount_ld, NEW compose, NEW options,
           send(user, eid, amount_ld, min_amount_ld, compose, options)
    PROVE  CoveredInv'
<1>1. PICK r : /\ r = Amounts(eid, amount_ld) /\ Initialized /\ peer[eid] # None
               /\ balance[user] >= r.sent /\ TakeTokens(user, r) /\ minted_ld' = minted_ld
    BY DEF send
<1>2. r.sent \in Nat /\ r.fee \in Nat /\ r.received \in Nat /\ r.received + r.fee <= r.sent
    BY <1>1, SendAmounts
<1>3. /\ balance \in [Users -> Nat] /\ escrow \in Nat /\ supply \in Nat
      /\ transfer_fee \in TransferFee
    BY OFTAssumption DEF IInv, TypeOK
<1>4. PICK left \in Nat : left = balance[user] - r.sent
    BY <1>1, <1>2, <1>3, SMT
<1>5. balance' = [balance EXCEPT ![user] = left]
    BY <1>1, <1>4 DEF TakeTokens, LockTokens, BurnTokens
<1>6. /\ SumOf(balance, Users) \in Nat /\ SumOf(balance', Users) \in Nat
      /\ SumOf(balance', Users) + balance[user] = SumOf(balance, Users) + left
    BY <1>5, HoldingsChange
<1>7. /\ get_post_fee_amount_ld(transfer_fee, r.sent) \in 0..r.sent
      /\ get_post_fee_amount_ld(transfer_fee, r.fee) \in 0..r.fee
    BY <1>2, <1>3, PostFeeBounds
<1>8. \/ supply' = supply /\ escrow' = escrow + get_post_fee_amount_ld(transfer_fee, r.sent)
      \/ /\ supply' = supply - (r.sent - r.fee)
         /\ escrow' = escrow + get_post_fee_amount_ld(transfer_fee, r.fee)
    BY <1>1 DEF TakeTokens, LockTokens, BurnTokens
<1>9. escrow' + SumOf(balance', Users) <= supply'
    <2>1. PICK p \in 0..r.sent, q \in 0..r.fee :
             /\ p = get_post_fee_amount_ld(transfer_fee, r.sent)
             /\ q = get_post_fee_amount_ld(transfer_fee, r.fee)
        BY <1>7
    <2>2. PICK s \in Nat, t \in Nat, b \in Nat :
             s = SumOf(balance, Users) /\ t = SumOf(balance', Users) /\ b = balance[user]
        BY <1>3, <1>6
    <2>3. escrow + s <= supply /\ t + b = s + left
        BY <1>6, <2>2 DEF CoveredInv
    <2>4. escrow' + t <= supply'
        BY <1>2, <1>3, <1>4, <1>8, <2>1, <2>2, <2>3, SMT
    <2>5. QED
        BY <2>2, <2>4
<1>10. ASSUME IsAdapter' PROVE supply' = InitialBalance * Cardinality(Users) + minted_ld'
    <2>1. IsAdapter
        BY <1>1, <1>10, TakenFrom DEF IsAdapter
    <2>2. supply' = supply
        BY <1>1, <2>1 DEF TakeTokens, LockTokens, IsAdapter
    <2>3. QED
        BY <1>1, <2>1, <2>2 DEF CoveredInv
<1>11. QED
    BY <1>9, <1>10 DEF CoveredInv

\* lz_receive gives what it takes from the escrow, or mints it.
LEMMA ReceiveCovered ==
    ASSUME IInv, CoveredInv, NEW packet \in inbox, lz_receive(packet)
    PROVE  CoveredInv'
<1>1. PICK amount \in U64 : /\ amount = sd2ld(packet.amount_sd, oft_store.ld2sd_rate)
                            /\ Initialized /\ GiveTokens(packet.to, amount)
                            /\ minted_ld' = minted_ld
    BY DEF lz_receive, Open, Fits
<1>2. /\ balance \in [Users -> Nat] /\ escrow \in Nat /\ supply \in Nat /\ packet.to \in Users
      /\ transfer_fee \in TransferFee /\ amount \in Nat
    BY OFTAssumption, MathAssumption, SMT DEF IInv, TypeOK, InPacket, U64
<1>3. PICK net \in 0..amount : net = get_post_fee_amount_ld(transfer_fee, amount)
    BY <1>2, PostFeeBounds
<1>4. \/ /\ supply' = supply /\ escrow' = escrow - amount
         /\ balance' = [balance EXCEPT ![packet.to] = balance[packet.to] + net]
      \/ /\ supply' = supply + amount /\ escrow' = escrow
         /\ balance' = [balance EXCEPT ![packet.to] = balance[packet.to] + amount]
    BY <1>1, <1>3 DEF GiveTokens, UnlockTokens, MintTokens
<1>5. PICK b \in Nat : b = balance[packet.to]
    BY <1>2
<1>6. escrow' + SumOf(balance', Users) <= supply'
    <2>1. ASSUME NEW gain \in 0..amount,
                 balance' = [balance EXCEPT ![packet.to] = balance[packet.to] + gain],
                 supply' - escrow' = (supply - escrow) + amount
          PROVE  escrow' + SumOf(balance', Users) <= supply'
        <3>1. PICK new \in Nat : new = b + gain
            BY <2>1, <1>2, <1>5, SMT
        <3>2. balance' = [balance EXCEPT ![packet.to] = new]
            BY <1>5, <2>1, <3>1
        <3>3. /\ SumOf(balance, Users) \in Nat /\ SumOf(balance', Users) \in Nat
              /\ SumOf(balance', Users) + balance[packet.to] = SumOf(balance, Users) + new
            BY <1>2, <3>2, HoldingsChange
        <3>4. PICK s \in Nat, t \in Nat :
                 s = SumOf(balance, Users) /\ t = SumOf(balance', Users)
            BY <3>3
        <3>5. escrow + s <= supply /\ t + b = s + new
            BY <1>5, <3>3, <3>4 DEF CoveredInv
        <3>6. supply' \in Int /\ escrow' \in Int
            BY <1>2, <1>4, SMT
        <3>7. t = s + gain /\ gain <= amount
            BY <1>2, <1>5, <3>1, <3>4, <3>5, SMT
        <3>8. PICK e, f, u, v \in Int : e = escrow /\ f = escrow' /\ u = supply /\ v = supply'
            BY <1>2, <3>6
        <3>9. f + t <= v
            <4>1. v - f = (u - e) + amount /\ e + s <= u
                BY <2>1, <3>5, <3>8
            <4>2. amount \in Int /\ gain \in Int
                BY <1>2
            <4>3. QED
                BY <3>7, <4>1, <4>2
        <3>10. QED
            BY <3>4, <3>8, <3>9
    <2>2. amount \in 0..amount
        BY <1>2, SMT
    <2>3. supply' - escrow' = (supply - escrow) + amount
        BY <1>2, <1>4, SMT
    <2>4. QED
        BY <1>3, <1>4, <2>1, <2>2, <2>3
<1>7. ASSUME IsAdapter' PROVE supply' = InitialBalance * Cardinality(Users) + minted_ld'
    <2>1. IsAdapter
        BY <1>1, <1>7, GivenFrom DEF IsAdapter
    <2>2. supply' = supply
        BY <1>1, <2>1 DEF GiveTokens, UnlockTokens, IsAdapter
    <2>3. QED
        BY <1>1, <2>1, <2>2 DEF CoveredInv
<1>8. QED
    BY <1>6, <1>7 DEF CoveredInv

\* Every other step keeps the escrow and the users covered too.
LEMMA CoveredStep == IInv /\ CoveredInv /\ [Next]_vars => CoveredInv'
<1> SUFFICES ASSUME IInv, CoveredInv, [Next]_vars PROVE CoveredInv'
    OBVIOUS
<1>1. /\ balance \in [Users -> Nat] /\ escrow \in Nat /\ supply \in Nat /\ minted_ld \in Nat
      /\ transfer_fee \in TransferFee /\ Cardinality(Users) \in Nat
    BY OFTAssumption, FS_CardinalityType DEF IInv, TypeOK
<1>2. (escrow' + SumOf(balance', Users) <= supply')
      /\ (Initialized => supply' - supply = minted_ld' - minted_ld)
          => CoveredInv'
    <2> SUFFICES ASSUME escrow' + SumOf(balance', Users) <= supply',
                        Initialized => supply' - supply = minted_ld' - minted_ld, IsAdapter'
                 PROVE  supply' = InitialBalance * Cardinality(Users) + minted_ld'
        BY DEF CoveredInv
    <2>1. CASE Initialized
        <3>1. IsAdapter
            BY <2>1, StoreKept DEF IsAdapter
        <3>2. supply = InitialBalance * Cardinality(Users) + minted_ld
            BY <3>1 DEF CoveredInv
        <3>3. supply' \in Int /\ minted_ld' \in Int /\ InitialBalance * Cardinality(Users) \in Int
            <4>1. IInv'
                BY NextStep
            <4>2. InitialBalance * Cardinality(Users) \in Nat
                BY OFTAssumption, MathAssumption, SMT DEF U64
            <4>3. QED
                BY <4>1, <4>2 DEF IInv, TypeOK
        <3>4. QED
            BY <1>1, <2>1, <3>2, <3>3
    <2>2. CASE ~Initialized
        <3>1. PICK oft_type \in OFTType, admin \in Keys, shared_decimals \in SharedDecimals :
                 init_oft(oft_type, admin, shared_decimals)
            BY <2>2, WhoInitializes DEF IsAdapter
        <3>2. UNCHANGED <<supply, minted_ld>>
            BY <3>1 DEF init_oft, tokenVars, historyVars
        <3>3. QED
            BY <2>2, <3>2 DEF IInv, FreshInv
    <2>3. QED
        BY <2>1, <2>2
<1>3. CASE UNCHANGED <<balance, escrow, supply, minted_ld>>
    <2>1. supply' - supply = minted_ld' - minted_ld
        BY <1>1, <1>3
    <2>2. QED
        BY <1>2, <1>3, <2>1 DEF CoveredInv
<1>4. ASSUME NEW user \in Users, NEW new \in Nat, NEW less \in Nat, NEW more \in 0..less,
             \/ /\ escrow >= less /\ escrow' = escrow - less /\ new = balance[user] + more
             \/ /\ balance[user] >= less /\ escrow' = escrow + more /\ new = balance[user] - less,
             balance' = [balance EXCEPT ![user] = new],
             UNCHANGED <<supply, minted_ld>>
      PROVE  CoveredInv'
    <2>1. PICK s \in Nat, t \in Nat, b \in Nat :
             s = SumOf(balance, Users) /\ t = SumOf(balance', Users) /\ b = balance[user]
        BY <1>1, <1>4, HoldingsChange
    <2>2. t + b = s + new
        BY <1>4, <2>1, HoldingsChange
    <2>3. escrow + s <= supply
        BY <2>1 DEF CoveredInv
    <2>4. escrow' + t <= supply
        BY <1>1, <1>4, <2>1, <2>2, <2>3, SMT
    <2>5. supply' - supply = minted_ld' - minted_ld
        BY <1>1, <1>4
    <2>6. QED
        BY <1>2, <1>4, <2>1, <2>4, <2>5
<1>5. ASSUME NEW signer \in Keys, NEW fee_ld \in U64, NEW dest \in Users,
             withdraw_fee(signer, fee_ld, dest)
      PROVE  CoveredInv'
    <2>1. fee_ld \in Nat
        BY MathAssumption, SMT DEF U64
    <2>2. PICK more \in 0..fee_ld : more = get_post_fee_amount_ld(transfer_fee, fee_ld)
        BY <1>1, <2>1, PostFeeBounds
    <2>3. PICK new \in Nat : new = balance[dest] + more
        BY <1>1, <2>1, <2>2, SMT
    <2>4. /\ escrow' = escrow - fee_ld /\ balance' = [balance EXCEPT ![dest] = new]
          /\ UNCHANGED <<supply, minted_ld>> /\ Initialized
        BY <1>5, <2>2, <2>3 DEF withdraw_fee
    <2>5. escrow >= fee_ld
        <3>1. IInv'
            BY NextStep
        <3>2. escrow' \in Nat
            BY <3>1 DEF IInv, TypeOK
        <3>3. QED
            BY <1>1, <2>1, <2>4, <3>2, SMT
    <2>6. QED
        BY <1>4, <2>1, <2>3, <2>4, <2>5
<1>6. ASSUME NEW user \in Users, NEW amount_ld \in SpareAmounts, Donate(user, amount_ld)
      PROVE  CoveredInv'
    <2>1. amount_ld \in Nat
        BY OFTAssumption, MathAssumption, SMT DEF U64
    <2>2. PICK more \in 0..amount_ld : more = get_post_fee_amount_ld(transfer_fee, amount_ld)
        BY <1>1, <2>1, PostFeeBounds
    <2>3. PICK new \in Nat : new = balance[user] - amount_ld
        BY <1>1, <1>6, <2>1, SMT DEF Donate
    <2>4. /\ escrow' = escrow + more /\ balance' = [balance EXCEPT ![user] = new]
          /\ UNCHANGED <<supply, minted_ld>> /\ balance[user] >= amount_ld
        BY <1>6, <2>2, <2>3 DEF Donate
    <2>5. QED
        BY <1>4, <2>1, <2>3, <2>4
<1>7. ASSUME NEW user \in Users, NEW amount_ld \in SpareAmounts, MintByOther(user, amount_ld)
      PROVE  CoveredInv'
    <2>1. amount_ld \in Nat
        BY OFTAssumption, MathAssumption, SMT DEF U64
    <2>2. PICK new \in Nat : new = balance[user] + amount_ld
        BY <1>1, <2>1, SMT
    <2>3. /\ balance' = [balance EXCEPT ![user] = new] /\ supply' = supply + amount_ld
          /\ minted_ld' = minted_ld + amount_ld /\ escrow' = escrow
        BY <1>7, <2>2 DEF MintByOther
    <2>4. PICK s \in Nat, t \in Nat, b \in Nat :
             s = SumOf(balance, Users) /\ t = SumOf(balance', Users) /\ b = balance[user]
        BY <1>1, <2>3, HoldingsChange
    <2>5. t + b = s + new
        BY <2>3, <2>4, HoldingsChange
    <2>6. escrow + s <= supply
        BY <2>4 DEF CoveredInv
    <2>7. escrow' + t <= supply'
        BY <1>1, <2>1, <2>2, <2>3, <2>4, <2>5, <2>6, SMT
    <2>8. supply' - supply = minted_ld' - minted_ld
        BY <1>1, <2>1, <2>3
    <2>9. QED
        BY <1>2, <2>4, <2>7, <2>8
<1>8. QED
    BY <1>3, <1>5, <1>6, <1>7, SendCovered, ReceiveCovered, WhoHolds, SMT

\* What is in circulation is what there was, with what others minted, less what
\* is on its way or abroad: with either OFT type, in units of the token.
LEMMA Circulation ==
    ASSUME IInv, CoveredInv, Initialized
    PROVE  /\ supply - oft_store.tvl_ld \in Nat
           /\ supply - oft_store.tvl_ld =
                  (InitialBalance * Cardinality(Users) + minted_ld)
                      - oft_store.ld2sd_rate * (out_sd - in_sd)
<1>1. PICK rate \in Nat, tvl \in Nat, type \in OFTType :
         /\ rate = oft_store.ld2sd_rate /\ tvl = oft_store.tvl_ld
         /\ type = oft_store.oft_type
    BY StoreTypes, MathAssumption, SMT DEF IInv, U64
<1>2. /\ escrow \in Nat /\ supply \in Nat /\ minted_ld \in Nat /\ fees_ld \in Nat
      /\ out_sd \in Nat /\ in_sd \in Nat
    BY DEF IInv, TypeOK
<1>3. PICK opening \in Nat : opening = InitialBalance * Cardinality(Users)
    BY OFTAssumption, MathAssumption, SMT DEF U64
<1>4. supply - tvl \in Nat
    <2>1. escrow = tvl + fees_ld
        BY <1>1 DEF IInv, EscrowAccounted
    <2>2. PICK s \in Nat : s = SumOf(balance, Users)
        <3>1. balance \in [Users -> Nat] /\ IsFiniteSet(Users)
            BY OFTAssumption DEF IInv, TypeOK
        <3>2. QED
            BY <3>1, SumOfType
    <2>3. escrow + s <= supply
        BY <2>2 DEF CoveredInv
    <2>4. QED
        BY <1>2, <2>1, <2>3, SMT
<1>5. PICK out \in Int, back \in Int, net \in Int :
         /\ out = rate * out_sd /\ back = rate * in_sd /\ net = rate * (out_sd - in_sd)
         /\ net = out - back
    <2>1. rate \in Int /\ out_sd \in Int /\ in_sd \in Int
        BY <1>2
    <2>2. rate * out_sd \in Int /\ rate * in_sd \in Int /\ rate * (out_sd - in_sd) \in Int
        BY <2>1, SMT
    <2>3. rate * (out_sd - in_sd) = rate * out_sd - rate * in_sd
        BY <2>1, SMT
    <2>4. QED
        BY <2>2, <2>3
<1>6. supply - tvl = (opening + minted_ld) - net
    <2>1. CASE type = "Adapter"
        <3>1. IsAdapter
            BY <1>1, <2>1 DEF IsAdapter
        <3>2. tvl = net
            BY <1>1, <1>5, <3>1 DEF IInv, TvlIsOutstanding
        <3>3. supply = opening + minted_ld
            BY <1>3, <3>1 DEF CoveredInv
        <3>4. QED
            BY <1>2, <3>2, <3>3
    <2>2. CASE type = "Native"
        <3>1. IsNative
            BY <1>1, <2>2 DEF IsNative
        <3>2. tvl = 0
            BY <1>1, <3>1 DEF IInv, TvlIsOutstanding
        <3>3. supply + out = opening + minted_ld + back
            BY <1>1, <1>3, <1>5, <3>1 DEF IInv, SupplyAccounted
        <3>4. QED
            BY <1>2, <1>5, <3>2, <3>3, SMT
    <2>3. QED
        BY <2>1, <2>2 DEF OFTType
<1>7. QED
    BY <1>1, <1>3, <1>4, <1>5, <1>6

\* At first the users hold everything.
LEMMA CoveredInit == Init => CoveredInv
<1> SUFFICES ASSUME Init PROVE CoveredInv
    OBVIOUS
<1>1. InitialBalance \in Nat /\ IsFiniteSet(Users) /\ Cardinality(Users) \in Nat
    BY OFTAssumption, MathAssumption, FS_CardinalityType, SMT DEF U64
<1>2. \A u \in Users : balance[u] = InitialBalance
    BY DEF Init
<1>3. SumOf(balance, Users) = InitialBalance * Cardinality(Users)
    BY <1>1, <1>2, SumOfConstant
<1>4. PICK n \in Int : n = InitialBalance * Cardinality(Users)
    BY <1>1, SMT
<1>5. escrow = 0 /\ supply = n /\ ~IsAdapter
    BY <1>4 DEF Init, IsAdapter, Initialized
<1>6. QED
    BY <1>3, <1>4, <1>5 DEF CoveredInv
-----------------------------------------------------------------------------
\* The traffic of a peer.

\* What NetOut adds up: packets that no other one is the same as, from init_oft on.
TrafficInv ==
    /\ SentNonces
    /\ NonceInv
    /\ ~Initialized => sent = {} /\ received = {}

\* The sum over the packets sent.
LEMMA SentTotal ==
    ASSUME NEW S, IsFiniteSet(S), S \subseteq SentPacket
    PROVE  MapThenSumSet(LAMBDA p : p.amount_sd, S) = SumOf(SentAmounts, S)
<1> DEFINE Table(it) ==
        it = [s \in SUBSET S |->
                 IF s = {} THEN 0
                 ELSE LET x == CHOOSE x \in s : TRUE IN x.amount_sd + it[s \ {x}]]
<1>1. ASSUME NEW it PROVE SumsOver(it, S, SentAmounts) <=> Table(it)
    <2>1. ASSUME NEW s \in SUBSET S, s # {}
          PROVE  SentAmounts[CHOOSE x \in s : TRUE] = (CHOOSE x \in s : TRUE).amount_sd
        BY <2>1, ChosenFromSet DEF SentAmounts
    <2>2. QED
        BY <2>1 DEF SumsOver, NextSum
<1>2. MapThenSumSet(LAMBDA p : p.amount_sd, S) = (CHOOSE it : Table(it))[S]
    BY Zenon DEF MapThenSumSet, MapThenFoldSet
<1>3. (CHOOSE it : SumsOver(it, S, SentAmounts)) = CHOOSE it : Table(it)
    <2> HIDE DEF Table
    <2> QED
        BY <1>1, Zenon
<1>4. QED
    BY <1>2, <1>3, Zenon DEF SumOf

\* The two sums of a peer in a state.
PacketsFit(out, in) ==
    /\ IsFiniteSet(out) /\ out \subseteq SentPacket
    /\ IsFiniteSet(in) /\ in \subseteq Events

Net(rate, out, in) == rate * (SumOf(SentAmounts, out) - SumOf(PaidAmounts, in))

LEMMA NetOutValue ==
    ASSUME IInv, IInv', NEW eid \in Eids
    PROVE  /\ PacketsFit(SentTo(eid), ReceivedFrom(eid))
           /\ PacketsFit(SentTo(eid)', ReceivedFrom(eid)')
           /\ NetOut(eid) = IF Initialized
                            THEN Net(oft_store.ld2sd_rate, SentTo(eid), ReceivedFrom(eid)) ELSE 0
           /\ NetOut(eid)' = IF Initialized'
                             THEN Net(oft_store'.ld2sd_rate, SentTo(eid)', ReceivedFrom(eid)')
                             ELSE 0
<1>1. /\ sent \subseteq SentPacket /\ IsFiniteSet(sent)
      /\ received \subseteq Events /\ IsFiniteSet(received)
    BY DEF IInv, TypeOK, PacketsFinite, Events
<1>2. /\ sent' \subseteq SentPacket /\ IsFiniteSet(sent')
      /\ received' \subseteq Events /\ IsFiniteSet(received')
    BY DEF IInv, TypeOK, PacketsFinite, Events
<1>3. PacketsFit(SentTo(eid), ReceivedFrom(eid))
    BY <1>1, FS_Subset DEF PacketsFit, SentTo, ReceivedFrom
<1>4. PacketsFit(SentTo(eid)', ReceivedFrom(eid)')
    BY <1>2, FS_Subset DEF PacketsFit, SentTo, ReceivedFrom
<1>5. /\ \A S : IsFiniteSet(S) /\ S \subseteq SentPacket => SdOf(S) = SumOf(SentAmounts, S)
      /\ \A S : IsFiniteSet(S) /\ S \subseteq Events => SdPaid(S) = SumOf(PaidAmounts, S)
    BY SentTotal, PaidTotal, Zenon DEF SdOf, SdPaid
<1>6. QED
    BY <1>3, <1>4, <1>5 DEF NetOut, Net, PacketsFit

\* Both sums are naturals, and a new member adds its amount.
LEMMA NetParts ==
    ASSUME NEW out, NEW in, PacketsFit(out, in)
    PROVE  /\ SumOf(SentAmounts, out) \in Nat /\ SumOf(PaidAmounts, in) \in Nat
           /\ \A p \in SentPacket \ out :
                 SumOf(SentAmounts, out \cup {p}) = p.amount_sd + SumOf(SentAmounts, out)
           /\ \A e \in Events \ in :
                 SumOf(PaidAmounts, in \cup {e}) = e.packet.amount_sd + SumOf(PaidAmounts, in)
<1>1. \A p \in SentPacket : SentAmounts[p] = p.amount_sd /\ SentAmounts[p] \in Nat
    BY MathAssumption, SMT DEF SentAmounts, SentPacket, U64
<1>2. \A e \in Events : PaidAmounts[e] = e.packet.amount_sd /\ PaidAmounts[e] \in Nat
    BY MathAssumption, SMT DEF PaidAmounts, Events, InPacket, U64
<1>3. /\ IsFiniteSet(out) /\ \A p \in out : SentAmounts[p] \in Nat
      /\ IsFiniteSet(in) /\ \A e \in in : PaidAmounts[e] \in Nat
    BY <1>1, <1>2 DEF PacketsFit
<1>4. QED
    BY <1>1, <1>2, <1>3, SumOfType, SumOfAdd

\* No packets, no traffic.
LEMMA QuietNet ==
    ASSUME IInv, IInv', TrafficInv, UNCHANGED <<sent, received>>,
           Initialized => Initialized' /\ oft_store'.ld2sd_rate = oft_store.ld2sd_rate,
           NEW eid \in Eids
    PROVE  NetOut(eid)' = NetOut(eid)
<1>1. SentTo(eid)' = SentTo(eid) /\ ReceivedFrom(eid)' = ReceivedFrom(eid)
    BY DEF SentTo, ReceivedFrom
<1>2. CASE Initialized
    BY <1>1, <1>2, NetOutValue
<1>3. CASE ~Initialized /\ ~Initialized'
    BY <1>3, NetOutValue
<1>4. CASE ~Initialized /\ Initialized'
    <2>1. SentTo(eid) = {} /\ ReceivedFrom(eid) = {}
        BY <1>4 DEF TrafficInv, SentTo, ReceivedFrom
    <2>2. PICK rate \in Nat : rate = oft_store'.ld2sd_rate
        BY <1>4 DEF IInv, TypeOK, OFTStore, Initialized
    <2>3. Net(rate, {}, {}) = 0
        BY SumOfEmpty, SMT DEF Net
    <2>4. QED
        BY <1>1, <1>4, <2>1, <2>2, <2>3, NetOutValue
<1>5. QED
    BY <1>2, <1>3, <1>4

\* send adds the amount it charges, to the peer it sends to.
LEMMA SendNet ==
    ASSUME IInv, IInv', TrafficInv, NEW user, NEW eid \in Eids, NEW amount_ld \in U64,
           NEW min_amount_ld, NEW compose, NEW options,
           send(user, eid, amount_ld, min_amount_ld, compose, options)
    PROVE  /\ NetOut(eid)' = NetOut(eid) + Amounts(eid, amount_ld).received
           /\ \A other \in Eids \ {eid} : NetOut(other)' = NetOut(other)
<1>1. PICK r, sd :
         /\ r = Amounts(eid, amount_ld) /\ sd = ld2sd(r.received, oft_store.ld2sd_rate)
         /\ Initialized /\ peer[eid] # None /\ TakeTokens(user, r) /\ received' = received
         /\ \A p \in sent' \ sent : p.eid = eid
    BY DEF send
<1>2. Initialized' /\ oft_store'.ld2sd_rate = oft_store.ld2sd_rate
    BY <1>1, TakenFrom
<1>3. PICK p \in sent' : NewPacket(p) /\ p.amount_sd = sd
    BY <1>1, SendIsNew DEF TrafficInv, OnePacketOf
<1>4. p.eid = eid /\ p \in SentPacket
    BY <1>1, <1>3 DEF NewPacket, IInv, TypeOK
<1>5. PICK rate \in Nat : rate = oft_store.ld2sd_rate
    BY <1>1, StoreTypes DEF IInv
<1>6. r.received = rate * sd /\ sd \in Nat
    BY <1>1, <1>5, SendAmounts
<1>7. ASSUME NEW other \in Eids, other # eid PROVE NetOut(other)' = NetOut(other)
    <2>1. SentTo(other)' = SentTo(other) /\ ReceivedFrom(other)' = ReceivedFrom(other)
        BY <1>1, <1>3, <1>4, <1>7 DEF NewPacket, SentTo, ReceivedFrom
    <2>2. QED
        BY <1>1, <1>2, <2>1, NetOutValue
<1>8. NetOut(eid)' = NetOut(eid) + r.received
    <2>1. /\ SentTo(eid)' = SentTo(eid) \cup {p} /\ p \notin SentTo(eid)
          /\ ReceivedFrom(eid)' = ReceivedFrom(eid)
        BY <1>1, <1>3, <1>4 DEF NewPacket, SentTo, ReceivedFrom
    <2>2. PICK n \in Nat, m \in Nat : n = SumOf(SentAmounts, SentTo(eid))
                                      /\ m = SumOf(PaidAmounts, ReceivedFrom(eid))
        BY NetOutValue, NetParts
    <2>3. SumOf(SentAmounts, SentTo(eid)') = sd + n
        BY <1>3, <1>4, <2>1, <2>2, NetOutValue, NetParts
    <2>4. NetOut(eid) = rate * (n - m) /\ NetOut(eid)' = rate * ((sd + n) - m)
        BY <1>1, <1>2, <1>5, <2>1, <2>2, <2>3, NetOutValue DEF Net
    <2>5. rate * ((sd + n) - m) = rate * (n - m) + rate * sd
        BY <1>6, SMT
    <2>6. QED
        BY <1>6, <2>4, <2>5
<1>9. QED
    BY <1>1, <1>7, <1>8

\* lz_receive takes off the amount it charges, for the peer it comes from.
LEMMA ReceiveNet ==
    ASSUME IInv, IInv', TrafficInv, NEW packet \in inbox, lz_receive(packet)
    PROVE  /\ NetOut(packet.eid)' =
                  NetOut(packet.eid) - sd2ld(packet.amount_sd, oft_store.ld2sd_rate)
           /\ \A other \in Eids \ {packet.eid} : NetOut(other)' = NetOut(other)
<1>1. PICK amount :
         /\ Initialized /\ amount = sd2ld(packet.amount_sd, oft_store.ld2sd_rate)
         /\ GiveTokens(packet.to, amount) /\ sent' = sent
    BY DEF lz_receive, Open
<1>2. Initialized' /\ oft_store'.ld2sd_rate = oft_store.ld2sd_rate
    BY <1>1, GivenFrom
<1>3. PICK e : e.packet = packet /\ received' = received \cup {e}
    BY PacketPaid
<1>4. e \notin received /\ e \in Events
    BY <1>3 DEF TrafficInv, NonceInv, IInv, TypeOK, Events
<1>5. PICK rate \in Nat : rate = oft_store.ld2sd_rate
    BY <1>1, StoreTypes DEF IInv
<1>6. PICK sd \in Nat, eid \in Eids : sd = packet.amount_sd /\ eid = packet.eid
    BY MathAssumption, SMT DEF IInv, TypeOK, InPacket, U64
<1>7. ASSUME NEW other \in Eids, other # eid PROVE NetOut(other)' = NetOut(other)
    <2>1. SentTo(other)' = SentTo(other) /\ ReceivedFrom(other)' = ReceivedFrom(other)
        BY <1>1, <1>3, <1>6, <1>7 DEF SentTo, ReceivedFrom
    <2>2. QED
        BY <1>1, <1>2, <2>1, NetOutValue
<1>8. NetOut(eid)' = NetOut(eid) - sd2ld(sd, rate)
    <2>1. /\ SentTo(eid)' = SentTo(eid)
          /\ ReceivedFrom(eid)' = ReceivedFrom(eid) \cup {e} /\ e \notin ReceivedFrom(eid)
        BY <1>1, <1>3, <1>4, <1>6 DEF SentTo, ReceivedFrom
    <2>2. PICK n \in Nat, m \in Nat : n = SumOf(SentAmounts, SentTo(eid))
                                      /\ m = SumOf(PaidAmounts, ReceivedFrom(eid))
        BY NetOutValue, NetParts
    <2>3. SumOf(PaidAmounts, ReceivedFrom(eid)') = sd + m
        BY <1>3, <1>4, <1>6, <2>1, <2>2, NetOutValue, NetParts
    <2>4. NetOut(eid) = rate * (n - m) /\ NetOut(eid)' = rate * (n - (sd + m))
        BY <1>1, <1>2, <1>5, <2>1, <2>2, <2>3, NetOutValue DEF Net
    <2>5. rate * (n - (sd + m)) = rate * (n - m) - sd * rate
        BY SMT
    <2>6. QED
        BY <2>4, <2>5 DEF sd2ld
<1>9. QED
    BY <1>5, <1>6, <1>7, <1>8

\* send and lz_receive come after init_oft, and send gives a new nonce.
LEMMA TrafficBySend ==
    ASSUME IInv, TrafficInv, NEW user, NEW eid \in Eids, NEW amount_ld \in U64,
           NEW min_amount_ld, NEW compose, NEW options,
           send(user, eid, amount_ld, min_amount_ld, compose, options)
    PROVE  TrafficInv'
<1>1. Initialized /\ UNCHANGED <<inbox, received>> /\ \E r : TakeTokens(user, r)
    BY DEF send
<1>2. Initialized'
    BY <1>1, TakenFrom
<1>3. NonceInv'
    BY <1>1 DEF TrafficInv, NonceInv, Known
<1>4. SentNonces'
    BY SendIsNew DEF TrafficInv
<1>5. QED
    BY <1>2, <1>3, <1>4 DEF TrafficInv

LEMMA TrafficStep == IInv /\ TrafficInv /\ [Next]_vars => TrafficInv'
<1> SUFFICES ASSUME IInv, TrafficInv, [Next]_vars PROVE TrafficInv'
    OBVIOUS
<1>1. NonceInv'
    BY NonceStep DEF TrafficInv
<1>2. CASE /\ UNCHANGED <<sent, received>>
           /\ Initialized => Initialized'
    BY <1>1, <1>2 DEF TrafficInv, SentNonces, Pathway, PacketId
<1>3. ASSUME NEW user \in Users, NEW eid \in Eids, NEW amount_ld \in U64,
             NEW min_amount_ld \in MinAmounts, NEW compose \in ComposeChoices,
             NEW options \in SUBSET ExecOptions,
             send(user, eid, amount_ld, min_amount_ld, compose, options)
      PROVE  TrafficInv'
    BY <1>3, TrafficBySend
<1>4. ASSUME NEW packet \in inbox, lz_receive(packet) PROVE TrafficInv'
    <2>1. Initialized /\ sent' = sent /\ \E amount_ld : GiveTokens(packet.to, amount_ld)
        BY <1>4 DEF lz_receive, Open
    <2>2. Initialized'
        BY <2>1, GivenFrom
    <2>3. QED
        BY <1>1, <2>1, <2>2 DEF TrafficInv, SentNonces, Pathway, PacketId
<1>5. QED
    BY <1>2, <1>3, <1>4, WhoMoves
----------------------------------------------------------------------------
\* The two limiters of a peer.
Out(eid) == IF peer[eid] = None THEN None ELSE peer[eid].outbound_rate_limiter
In(eid) == IF peer[eid] = None THEN None ELSE peer[eid].inbound_rate_limiter

LimitsKept(eid) == [LimitsOf(eid)!Next]_(LimitsOf(eid)!vars)

\* Whoever leaves the clock, the limiters and the traffic of the peer alone.
LEMMA LimitsUntouched ==
    ASSUME NEW eid \in Eids, now' = now, Out(eid)' = Out(eid), In(eid)' = In(eid),
           NetOut(eid)' = NetOut(eid)
    PROVE  LimitsKept(eid)
BY DEF LimitsKept, LimitsOf!vars, Out, In

\* PeerLimits uses the same operators.
LEMMA SameLimiters ==
    ASSUME NEW eid \in Eids, NEW l, NEW x, NEW t
    PROVE  /\ LimitsOf(eid)!Admits(l, x, t) = Admits(l, x, t)
           /\ LimitsOf(eid)!Charged(l, x, t) = Charged(l, x, t)
           /\ LimitsOf(eid)!Credited(l, x, t) = Credited(l, x, t)
           /\ LimitsOf(eid)!update_rate_limiter(l, x, t) = update_rate_limiter(l, x, t)
           /\ LimitsOf(eid)!U64 = U64
<1>1. /\ LimitsOf(eid)!U64 = U64
      /\ \A a, b : LimitsOf(eid)!Least(a, b) = Least(a, b)
    BY DEF LimitsOf!U64, U64, LimitsOf!Least, Least
<1>2. \A a, b : /\ LimitsOf(eid)!saturating_add(a, b) = saturating_add(a, b)
                /\ LimitsOf(eid)!saturating_mul(a, b) = saturating_mul(a, b)
    BY <1>1 DEF LimitsOf!saturating_add, saturating_add, LimitsOf!saturating_mul, saturating_mul
<1>3. \A a, b, c : LimitsOf(eid)!NewTokens(a, b, c) = NewTokens(a, b, c)
    BY <1>2 DEF LimitsOf!NewTokens, NewTokens
<1>4. \A a, b, c : LimitsOf(eid)!refill(a, b, c) = refill(a, b, c)
    BY <1>1, <1>2, <1>3 DEF LimitsOf!refill, refill
<1>5. \A a, b, c : LimitsOf(eid)!try_consume(a, b, c) = try_consume(a, b, c)
    BY <1>4 DEF LimitsOf!try_consume, try_consume
<1>6. \A a, b, c : LimitsOf(eid)!set_rate(a, b, c) = set_rate(a, b, c)
    BY <1>4 DEF LimitsOf!set_rate, set_rate
<1>7. \A a, b, c : LimitsOf(eid)!set_capacity(a, b, c) = set_capacity(a, b, c)
    BY DEF LimitsOf!set_capacity, set_capacity
<1>8. LimitsOf(eid)!DefaultLimiter = DefaultLimiter
    BY DEF LimitsOf!DefaultLimiter, DefaultLimiter
<1>9. LimitsOf(eid)!Admits(l, x, t) = Admits(l, x, t)
    BY <1>4 DEF LimitsOf!Admits, Admits, LimitsOf!CanConsume, CanConsume
<1>10. LimitsOf(eid)!Charged(l, x, t) = Charged(l, x, t)
    BY <1>5 DEF LimitsOf!Charged, Charged
<1>11. LimitsOf(eid)!Credited(l, x, t) = Credited(l, x, t)
    BY <1>4 DEF LimitsOf!Credited, Credited
<1>12. LimitsOf(eid)!update_rate_limiter(l, x, t) = update_rate_limiter(l, x, t)
    BY <1>6, <1>7, <1>8 DEF LimitsOf!update_rate_limiter, update_rate_limiter
<1>13. QED
    BY <1>1, <1>9, <1>10, <1>11, <1>12

\* What PeerLimits' steps are for a peer of the program.
LEMMA LimitSteps ==
    ASSUME NEW eid \in Eids
    PROVE  /\ \A x \in U64 :
                 /\ now' = now
                 /\ Admits(Out(eid), x, now)
                 /\ Out(eid)' = Charged(Out(eid), x, now)
                 /\ In(eid)' = Credited(In(eid), x, now)
                 /\ NetOut(eid)' = NetOut(eid) + x
                 => LimitsKept(eid)
           /\ \A x \in U64 :
                 /\ now' = now
                 /\ Admits(In(eid), x, now)
                 /\ In(eid)' = Charged(In(eid), x, now)
                 /\ Out(eid)' = Credited(Out(eid), x, now)
                 /\ NetOut(eid)' = NetOut(eid) - x
                 => LimitsKept(eid)
           /\ \A params \in LimitChoices :
                 /\ now' = now /\ NetOut(eid)' = NetOut(eid)
                 /\ \/ /\ Out(eid)' = update_rate_limiter(Out(eid), params, now)
                       /\ In(eid)' = In(eid)
                    \/ /\ In(eid)' = update_rate_limiter(In(eid), params, now)
                       /\ Out(eid)' = Out(eid)
                 => LimitsKept(eid)
           /\ Tick /\ NetOut(eid)' = NetOut(eid) => LimitsKept(eid)
<1>1. ASSUME NEW x \in U64, now' = now, Admits(Out(eid), x, now),
             Out(eid)' = Charged(Out(eid), x, now), In(eid)' = Credited(In(eid), x, now),
             NetOut(eid)' = NetOut(eid) + x
      PROVE  LimitsKept(eid)
    <2>1. LimitsOf(eid)!Outgoing(x)
        BY <1>1, SameLimiters DEF LimitsOf!Outgoing, Out, In
    <2>2. QED
        BY <2>1, SameLimiters DEF LimitsOf!Next, LimitsKept
<1>2. ASSUME NEW x \in U64, now' = now, Admits(In(eid), x, now),
             In(eid)' = Charged(In(eid), x, now), Out(eid)' = Credited(Out(eid), x, now),
             NetOut(eid)' = NetOut(eid) - x
      PROVE  LimitsKept(eid)
    <2>1. LimitsOf(eid)!Incoming(x)
        BY <1>2, SameLimiters DEF LimitsOf!Incoming, Out, In
    <2>2. QED
        BY <2>1, SameLimiters DEF LimitsOf!Next, LimitsKept
<1>3. ASSUME NEW params \in LimitChoices, now' = now, NetOut(eid)' = NetOut(eid),
             Out(eid)' = update_rate_limiter(Out(eid), params, now), In(eid)' = In(eid)
      PROVE  LimitsKept(eid)
    <2>1. LimitsOf(eid)!OutboundRateLimit(params)
        BY <1>3, SameLimiters DEF LimitsOf!OutboundRateLimit, Out, In
    <2>2. QED
        BY <2>1 DEF LimitsOf!Next, LimitsKept
<1>4. ASSUME NEW params \in LimitChoices, now' = now, NetOut(eid)' = NetOut(eid),
             In(eid)' = update_rate_limiter(In(eid), params, now), Out(eid)' = Out(eid)
      PROVE  LimitsKept(eid)
    <2>1. LimitsOf(eid)!InboundRateLimit(params)
        BY <1>4, SameLimiters DEF LimitsOf!InboundRateLimit, Out, In
    <2>2. QED
        BY <2>1 DEF LimitsOf!Next, LimitsKept
<1>5. ASSUME Tick, NetOut(eid)' = NetOut(eid) PROVE LimitsKept(eid)
    <2>1. LimitsOf(eid)!Tick
        BY <1>5 DEF Tick, LimitsOf!Tick, programVars
    <2>2. QED
        BY <2>1 DEF LimitsOf!Next, LimitsKept
<1>6. QED
    BY <1>1, <1>2, <1>3, <1>4, <1>5

\* A peer's limiters after a peer account was written.
LEMMA PeerWritten ==
    ASSUME IInv, NEW eid \in Eids, NEW config \in PeerConfig, NEW other \in Eids,
           peer' = [peer EXCEPT ![eid] = config]
    PROVE  /\ other # eid => Out(other)' = Out(other) /\ In(other)' = In(other)
           /\ other = eid => Out(other)' = config.outbound_rate_limiter
                             /\ In(other)' = config.inbound_rate_limiter
BY OFTAssumption DEF IInv, TypeOK, Out, In

\* PeerOrDefault has the limiters of the peer, if there is one.
LEMMA DefaultHasNone ==
    ASSUME NEW eid \in Eids
    PROVE  /\ PeerOrDefault(eid).outbound_rate_limiter = Out(eid)
           /\ PeerOrDefault(eid).inbound_rate_limiter = In(eid)
BY DEF PeerOrDefault, DefaultPeer, Out, In

\* set_peer_config sets one limit of one peer, or none.
LEMMA SetPeerLimits ==
    ASSUME IInv, NEW signer \in Keys, NEW eid \in Eids, set_peer_config(signer, eid),
           NEW other \in Eids, NetOut(other)' = NetOut(other)
    PROVE  LimitsKept(other)
<1>1. PICK p \in PeerConfig :
         /\ p = PeerOrDefault(eid)
         /\ p.outbound_rate_limiter = Out(eid) /\ p.inbound_rate_limiter = In(eid)
    BY PeerTypes, DefaultHasNone DEF IInv
<1>2. ASSUME NEW config \in PeerConfig, ConfigPeer(signer, eid, config),
             \/ /\ config.outbound_rate_limiter = Out(eid)
                /\ config.inbound_rate_limiter = In(eid)
             \/ \E params \in LimitChoices :
                   \/ /\ config.outbound_rate_limiter =
                             update_rate_limiter(Out(eid), params, now)
                      /\ config.inbound_rate_limiter = In(eid)
                   \/ /\ config.inbound_rate_limiter =
                             update_rate_limiter(In(eid), params, now)
                      /\ config.outbound_rate_limiter = Out(eid)
      PROVE  LimitsKept(other)
    <2>1. peer' = [peer EXCEPT ![eid] = config] /\ now' = now
        BY <1>2 DEF ConfigPeer, chainVars
    <2>2. CASE other # eid
        BY <2>1, <2>2, PeerWritten, LimitsUntouched
    <2>3. CASE other = eid
        BY <1>2, <2>1, <2>3, PeerWritten, LimitsUntouched, LimitSteps
    <2>4. QED
        BY <2>2, <2>3
<1>3. now \in U64
    BY DEF IInv, TypeOK
<1>4. ASSUME NEW address \in PeerAddresses, SetPeerAddress(signer, eid, address)
      PROVE  LimitsKept(other)
    <2>1. PICK q : q = [p EXCEPT !.peer_address = address]
        OBVIOUS
    <2>2. /\ q \in PeerConfig /\ q.outbound_rate_limiter = Out(eid)
          /\ q.inbound_rate_limiter = In(eid)
        BY <1>1, <2>1, OFTAssumption DEF PeerConfig
    <2>3. QED
        BY <1>1, <1>2, <1>4, <2>1, <2>2 DEF SetPeerAddress
<1>5. ASSUME NEW fee_bps \in FeeChoices \cup {None}, SetPeerFee(signer, eid, fee_bps)
      PROVE  LimitsKept(other)
    <2>1. PICK q : q = [p EXCEPT !.fee_bps = fee_bps]
        OBVIOUS
    <2>2. fee_bps \in OftFeeBps \cup {None}
        BY <1>5, OFTAssumption, MathAssumption, SMT DEF SetPeerFee, OftFeeBps
    <2>3. /\ q \in PeerConfig /\ q.outbound_rate_limiter = Out(eid)
          /\ q.inbound_rate_limiter = In(eid)
        BY <1>1, <2>1, <2>2 DEF PeerConfig
    <2>4. QED
        BY <1>1, <1>2, <1>5, <2>1, <2>3 DEF SetPeerFee
<1>6. ASSUME NEW options \in EnforcedOptions, SetEnforcedOptions(signer, eid, options)
      PROVE  LimitsKept(other)
    <2>1. PICK q : q = [p EXCEPT !.enforced_options = options]
        OBVIOUS
    <2>2. /\ q \in PeerConfig /\ q.outbound_rate_limiter = Out(eid)
          /\ q.inbound_rate_limiter = In(eid)
        BY <1>1, <2>1 DEF PeerConfig
    <2>3. QED
        BY <1>1, <1>2, <1>6, <2>1, <2>2 DEF SetEnforcedOptions
<1>7. ASSUME NEW params \in LimitChoices, SetOutboundRateLimit(signer, eid, params)
      PROVE  LimitsKept(other)
    <2>1. PICK q : q = [p EXCEPT !.outbound_rate_limiter =
                           update_rate_limiter(p.outbound_rate_limiter, params, now)]
        OBVIOUS
    <2>2. update_rate_limiter(p.outbound_rate_limiter, params, now) \in Limiter \cup {None}
        BY <1>1, <1>3, UpdatedType DEF PeerConfig
    <2>3. /\ q \in PeerConfig
          /\ q.outbound_rate_limiter = update_rate_limiter(Out(eid), params, now)
          /\ q.inbound_rate_limiter = In(eid)
        BY <1>1, <2>1, <2>2 DEF PeerConfig
    <2>4. ConfigPeer(signer, eid, q)
        BY <1>1, <1>7, <2>1 DEF SetOutboundRateLimit
    <2>5. QED
        BY <1>2, <2>3, <2>4
<1>8. ASSUME NEW params \in LimitChoices, SetInboundRateLimit(signer, eid, params)
      PROVE  LimitsKept(other)
    <2>1. PICK q : q = [p EXCEPT !.inbound_rate_limiter =
                           update_rate_limiter(p.inbound_rate_limiter, params, now)]
        OBVIOUS
    <2>2. update_rate_limiter(p.inbound_rate_limiter, params, now) \in Limiter \cup {None}
        BY <1>1, <1>3, UpdatedType DEF PeerConfig
    <2>3. /\ q \in PeerConfig
          /\ q.inbound_rate_limiter = update_rate_limiter(In(eid), params, now)
          /\ q.outbound_rate_limiter = Out(eid)
        BY <1>1, <2>1, <2>2 DEF PeerConfig
    <2>4. ConfigPeer(signer, eid, q)
        BY <1>1, <1>8, <2>1 DEF SetInboundRateLimit
    <2>5. QED
        BY <1>2, <2>3, <2>4
<1>9. QED
    BY <1>4, <1>5, <1>6, <1>7, <1>8 DEF set_peer_config

\* send is charged to the outbound limiter and credited to the inbound one.
LEMMA SendLimits ==
    ASSUME IInv, IInv', TrafficInv, NEW user, NEW eid \in Eids, NEW amount_ld \in U64,
           NEW min_amount_ld, NEW compose, NEW options,
           send(user, eid, amount_ld, min_amount_ld, compose, options), NEW other \in Eids
    PROVE  LimitsKept(other)
<1>1. PICK r :
         /\ r = Amounts(eid, amount_ld) /\ Initialized /\ peer[eid] # None
         /\ Admits(peer[eid].outbound_rate_limiter, r.received, now)
         /\ peer' = [peer EXCEPT ![eid] = LimitsAfterSend(@, r.received)]
         /\ now' = now
    BY DEF send
<1>2. r.received \in U64
    BY <1>1, SendAmounts, MathAssumption, SMT DEF U64
<1>3. PICK p \in PeerConfig : p = peer[eid]
    BY <1>1, PeerTypes DEF IInv
<1>4. /\ p.outbound_rate_limiter = Out(eid) /\ p.inbound_rate_limiter = In(eid)
      /\ Out(eid) \in Limiter \cup {None} /\ In(eid) \in Limiter \cup {None}
    BY <1>1, <1>3 DEF Out, In, PeerConfig
<1>5. now \in U64 /\ r.received \in Nat
    BY <1>1, SendAmounts DEF IInv, TypeOK
<1>6. PICK c \in Limiter \cup {None}, d \in Limiter \cup {None} :
         c = Charged(Out(eid), r.received, now) /\ d = Credited(In(eid), r.received, now)
    BY <1>1, <1>3, <1>4, <1>5, ChargedType, CreditedType
<1>7. PICK q : q = [p EXCEPT !.outbound_rate_limiter = c, !.inbound_rate_limiter = d]
    OBVIOUS
<1>8. q \in PeerConfig /\ q.outbound_rate_limiter = c /\ q.inbound_rate_limiter = d
    BY <1>7 DEF PeerConfig
<1>9. peer' = [peer EXCEPT ![eid] = q]
    <2>1. LimitsAfterSend(p, r.received) = q
        BY <1>4, <1>6, <1>7 DEF LimitsAfterSend
    <2>2. LimitsAfterSend(peer[eid], r.received) = q
        BY <1>3, <2>1
    <2>3. QED
        BY <1>1, <2>2
<1>10. CASE other # eid
    <2>1. Out(other)' = Out(other) /\ In(other)' = In(other)
        BY <1>8, <1>9, <1>10, PeerWritten
    <2>2. QED
        BY <1>1, <1>10, <2>1, SendNet, LimitsUntouched
<1>11. CASE other = eid
    <2>1. Out(eid)' = c /\ In(eid)' = d
        BY <1>8, <1>9, PeerWritten
    <2>2. Admits(Out(eid), r.received, now)
        BY <1>1, <1>3, <1>4
    <2>3. NetOut(eid)' = NetOut(eid) + r.received
        BY <1>1, SendNet
    <2>4. QED
        BY <1>1, <1>2, <1>6, <1>11, <2>1, <2>2, <2>3, LimitSteps
<1>12. QED
    BY <1>10, <1>11

\* lz_receive is charged to the inbound limiter and credited to the outbound one.
LEMMA ReceiveLimits ==
    ASSUME IInv, IInv', TrafficInv, NEW packet \in inbox, lz_receive(packet), NEW other \in Eids
    PROVE  LimitsKept(other)
<1>1. PICK eid, amount :
         /\ eid = packet.eid /\ peer[eid] # None
         /\ amount = sd2ld(packet.amount_sd, oft_store.ld2sd_rate)
         /\ Fits(amount)
         /\ Admits(peer[eid].inbound_rate_limiter, amount, now)
         /\ peer' = [peer EXCEPT ![eid] = LimitsAfterReceive(@, amount)]
         /\ now' = now
    BY DEF lz_receive
<1>2. eid \in Eids /\ amount \in U64 /\ amount \in Nat
    BY <1>1, MathAssumption, SMT DEF IInv, TypeOK, InPacket, Fits, U64
<1>3. PICK p \in PeerConfig : p = peer[eid]
    BY <1>1, <1>2, PeerTypes DEF IInv
<1>4. /\ p.outbound_rate_limiter = Out(eid) /\ p.inbound_rate_limiter = In(eid)
      /\ Out(eid) \in Limiter \cup {None} /\ In(eid) \in Limiter \cup {None}
    BY <1>1, <1>3 DEF Out, In, PeerConfig
<1>5. now \in U64
    BY DEF IInv, TypeOK
<1>6. PICK c \in Limiter \cup {None}, d \in Limiter \cup {None} :
         c = Charged(In(eid), amount, now) /\ d = Credited(Out(eid), amount, now)
    BY <1>1, <1>2, <1>3, <1>4, <1>5, ChargedType, CreditedType
<1>7. PICK q : q = [p EXCEPT !.inbound_rate_limiter = c, !.outbound_rate_limiter = d]
    OBVIOUS
<1>8. q \in PeerConfig /\ q.inbound_rate_limiter = c /\ q.outbound_rate_limiter = d
    BY <1>7 DEF PeerConfig
<1>9. peer' = [peer EXCEPT ![eid] = q]
    BY <1>1, <1>2, <1>3, <1>4, <1>6, <1>7 DEF LimitsAfterReceive
<1>10. CASE other # eid
    <2>1. Out(other)' = Out(other) /\ In(other)' = In(other)
        BY <1>2, <1>8, <1>9, <1>10, PeerWritten
    <2>2. QED
        BY <1>1, <1>10, <2>1, ReceiveNet, LimitsUntouched
<1>11. CASE other = eid
    <2>1. In(eid)' = c /\ Out(eid)' = d
        BY <1>2, <1>8, <1>9, PeerWritten
    <2>2. Admits(In(eid), amount, now)
        BY <1>1, <1>3, <1>4
    <2>3. NetOut(eid)' = NetOut(eid) - amount
        BY <1>1, ReceiveNet
    <2>4. QED
        BY <1>1, <1>2, <1>6, <1>11, <2>1, <2>2, <2>3, LimitSteps
<1>12. QED
    BY <1>10, <1>11

\* Every step of the program is a step of the limits of each peer.
LEMMA LimitsStep ==
    ASSUME IInv, TrafficInv, [Next]_vars, NEW other \in Eids
    PROVE  LimitsKept(other)
<1>1. IInv'
    BY NextStep
<1>2. ASSUME NEW user \in Users, NEW eid \in Eids, NEW amount_ld \in U64,
             NEW min_amount_ld \in MinAmounts, NEW compose \in ComposeChoices,
             NEW options \in SUBSET ExecOptions,
             send(user, eid, amount_ld, min_amount_ld, compose, options)
      PROVE  LimitsKept(other)
    BY <1>1, <1>2, SendLimits
<1>3. ASSUME NEW packet \in inbox, lz_receive(packet) PROVE LimitsKept(other)
    BY <1>1, <1>3, ReceiveLimits
<1>4. CASE /\ UNCHANGED <<sent, received>>
           /\ Initialized => Initialized' /\ oft_store'.ld2sd_rate = oft_store.ld2sd_rate
    <2>1. NetOut(other)' = NetOut(other)
        BY <1>1, <1>4, QuietNet
    <2>2. CASE now' = now /\ peer' = peer
        BY <2>1, <2>2, LimitsUntouched DEF Out, In
    <2>3. CASE Admin
        <3>1. ASSUME NEW signer \in Keys, set_oft_config(signer) \/
                        \E paused \in BOOLEAN : set_pause(signer, paused)
              PROVE  now' = now /\ peer' = peer
            BY <3>1, StoreWritten
        <3>2. QED
            BY <2>1, <2>2, <2>3, <3>1, SetPeerLimits
            DEF Admin, withdraw_fee, programVars, chainVars
    <2>4. CASE Public
        BY <1>2, <1>3, <2>2, <2>4 DEF Public, init_oft
    <2>5. CASE Environment
        BY <2>1, <2>2, <2>5, LimitSteps
        DEF Environment, Verify, HandOverMint, MintByOther, Donate, NewEpoch, programVars, chainVars
    <2>6. CASE UNCHANGED vars
        BY <2>2, <2>6 DEF vars, programVars, chainVars
    <2>7. QED
        BY <2>3, <2>4, <2>5, <2>6 DEF Next
<1>5. QED
    BY <1>2, <1>3, <1>4, WhoMoves

\* In the whole program, whoever signs and whatever arrives, the limiters of
\* each peer take the steps of PeerLimits only, with the packets as their traffic,
\* and so those of LeakyBucket.
THEOREM PeersAlwaysKeepLimits == Spec => PeersKeepLimits
<1>1. Init => TrafficInv
    BY DEF Init, TrafficInv, SentNonces, NonceInv, Known
<1>2. Spec => [](IInv /\ TrafficInv)
    BY <1>1, TrafficStep, Invariant, PTL DEF Spec
<1>3. Init => \A eid \in Eids : LimitsOf(eid)!Init
    BY DEF Init, LimitsOf!Init, NetOut, Initialized
<1>4. IInv /\ TrafficInv /\ [Next]_vars => [\A eid \in Eids : LimitsKept(eid)]_vars
    BY LimitsStep
<1>5. Spec => [][\A eid \in Eids : LimitsKept(eid)]_vars
    BY <1>2, <1>4, PTL DEF Spec
<1>6. QED
    BY <1>3, <1>5 DEF PeersKeepLimits, LimitsKept, Spec
=============================================================================
