---------------------------- MODULE PeerLimits ----------------------------
(***************************************************************************)
(* The two rate limiters of one PeerConfig and the clock they are charged  *)
(* against: how send.rs, lz_receive.rs and set_peer_config.rs use the      *)
(* token buckets of state/peer_config.rs.                                  *)
(***************************************************************************)
EXTENDS RateLimiter

CONSTANTS
    MaxTime,        \* bound on the clock
    LimitChoices    \* RateLimitParams an admin may pass, None to lift a limit

ASSUME LimitsAssumption ==
    /\ MaxTime \in U64
    /\ LimitChoices \subseteq LimitParams \cup {None}

VARIABLES
    now,        \* Clock::get().unix_timestamp
    outbound,   \* PeerConfig.outbound_rate_limiter
    inbound,    \* PeerConfig.inbound_rate_limiter
    net_out     \* history: what went out to the peer so far, less what came in

vars == <<now, outbound, inbound, net_out>>

Init ==
    /\ now = 0
    /\ outbound = None
    /\ inbound = None
    /\ net_out = 0

\* The clock of the Solana runtime does not run backwards.
Tick ==
    /\ now < MaxTime
    /\ now' = now + 1
    /\ UNCHANGED <<outbound, inbound, net_out>>

\* send: the delivered amount is charged outbound and credited inbound.
Outgoing(amount) ==
    /\ Admits(outbound, amount, now)
    /\ outbound' = Charged(outbound, amount, now)
    /\ inbound' = Credited(inbound, amount, now)
    /\ net_out' = net_out + amount
    /\ UNCHANGED now

\* lz_receive: the received amount is charged inbound and credited outbound.
Incoming(amount) ==
    /\ Admits(inbound, amount, now)
    /\ inbound' = Charged(inbound, amount, now)
    /\ outbound' = Credited(outbound, amount, now)
    /\ net_out' = net_out - amount
    /\ UNCHANGED now

\* set_peer_config with OutboundRateLimit and InboundRateLimit.
OutboundRateLimit(params) ==
    /\ outbound' = update_rate_limiter(outbound, params, now)
    /\ UNCHANGED <<now, inbound, net_out>>

InboundRateLimit(params) ==
    /\ inbound' = update_rate_limiter(inbound, params, now)
    /\ UNCHANGED <<now, outbound, net_out>>

Next ==
    \/ Tick
    \/ \E amount \in U64 : Outgoing(amount) \/ Incoming(amount)
    \/ \E params \in LimitChoices : OutboundRateLimit(params) \/ InboundRateLimit(params)

Spec == Init /\ [][Next]_vars
----------------------------------------------------------------------------
\* A limiter is absent or holds no more tokens than its capacity, and was last
\* refilled in the past.
LimiterOK(limiter) ==
    limiter # None =>
        /\ limiter \in Limiter
        /\ limiter.tokens <= limiter.capacity
        /\ limiter.last_refill_time <= now

\* Both limiters are well formed at every moment: refill caps the tokens and
\* stamps the current time on every path that touches a bucket.
TypeOK ==
    /\ now \in 0 .. MaxTime /\ net_out \in Int
    /\ LimiterOK(outbound)
    /\ LimiterOK(inbound)

\* The bucket a limiter stands for: the tokens it would hold if it were
\* refilled at this very moment are the room left in the bucket.
BucketOf(limiter) ==
    IF limiter = None THEN None
    ELSE [capacity |-> limiter.capacity,
          leak     |-> limiter.refill_per_second,
          level    |-> limiter.capacity - refill(limiter, 0, now).tokens]

OutboundBucket == INSTANCE LeakyBucket
    WITH seconds <- now, net <- net_out, bucket <- BucketOf(outbound),
         MaxAmount <- MaxU64, NoLimit <- None

InboundBucket == INSTANCE LeakyBucket
    WITH seconds <- now, net <- 0 - net_out, bucket <- BucketOf(inbound),
         MaxAmount <- MaxU64, NoLimit <- None

\* A peer without a limit, or without a bucket, is told from one with.
ASSUME NoneAssumption == None \notin Limiter /\ None \notin OutboundBucket!Bucket

\* The outbound limiter implements LeakyBucket: whatever is sent is charged to the
\* last unit, whatever is received is given back and no more, and each second earns
\* its rate once, however rarely the limiter is refilled and however it is set.
OutboundPromise == OutboundBucket!Spec

\* The same of the inbound limiter: receipts are charged to it, sends are given back.
InboundPromise == InboundBucket!Spec
=============================================================================
