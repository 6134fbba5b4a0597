---------------------------- MODULE RateLimiter ----------------------------
(***************************************************************************)
(* The token bucket of programs/moroft/src/state/peer_config.rs and its    *)
(* reconfiguration in instructions/set_peer_config.rs, as operators on     *)
(* RateLimiter records.  now is Clock::get().unix_timestamp; a bucket is   *)
(* refilled lazily, whenever an instruction touches it.                    *)
(***************************************************************************)
EXTENDS OFTMath

Limiter == [capacity : U64, tokens : U64, refill_per_second : U64,
            last_refill_time : U64]

\* RateLimiter::default().
DefaultLimiter ==
    [capacity |-> 0, tokens |-> 0, refill_per_second |-> 0, last_refill_time |-> 0]

\* RateLimitParams: each of the two settings may be left as it is.
LimitParams == [refill_per_second : U64 \cup {None}, capacity : U64 \cup {None}]

saturating_add(a, b) == Least(a + b, MaxU64)
saturating_mul(a, b) == Least(a * b, MaxU64)

\* What a refill adds: the tokens earned since the last one and the extra.
NewTokens(l, extra_tokens, now) ==
    IF now > l.last_refill_time
    THEN saturating_add(extra_tokens,
             saturating_mul(now - l.last_refill_time, l.refill_per_second))
    ELSE extra_tokens

\* Mutant of refill: the bucket may overflow.
RefillUncapped(l, extra_tokens, now) ==
    [l EXCEPT !.tokens = saturating_add(l.tokens, NewTokens(l, extra_tokens, now)),
              !.last_refill_time = now]

\* Mutant of refill: the time of the refill is not recorded.
RefillForgetsTime(l, extra_tokens, now) ==
    [l EXCEPT !.tokens = Least(l.capacity,
                  saturating_add(l.tokens, NewTokens(l, extra_tokens, now)))]

refill(l, extra_tokens, now) ==
    [l EXCEPT !.tokens = Least(l.capacity,
                  saturating_add(l.tokens, NewTokens(l, extra_tokens, now))),
              !.last_refill_time = now]

\* try_consume fails, and its instruction with it, unless CanConsume.
CanConsume(l, amount, now) == refill(l, 0, now).tokens >= amount

\* Mutant of try_consume: the tokens are checked for and not taken.
ConsumeNothing(l, amount, now) == refill(l, 0, now)

try_consume(l, amount, now) ==
    LET r == refill(l, 0, now) IN [r EXCEPT !.tokens = r.tokens - amount]

set_rate(l, refill_per_second, now) ==
    [refill(l, 0, now) EXCEPT !.refill_per_second = refill_per_second]

set_capacity(l, capacity, now) ==
    [l EXCEPT !.capacity = capacity, !.tokens = capacity, !.last_refill_time = now]

\* SetPeerConfig::update_rate_limiter: the capacity is set before the rate.
update_rate_limiter(limiter, params, now) ==
    IF params = None THEN None
    ELSE LET l0 == IF limiter = None THEN DefaultLimiter ELSE limiter
             l1 == IF params.capacity = None THEN l0
                   ELSE set_capacity(l0, params.capacity, now)
         IN IF params.refill_per_second = None THEN l1
            ELSE set_rate(l1, params.refill_per_second, now)
----------------------------------------------------------------------------
\* The optional limiters of a peer, as send and lz_receive use them: an absent
\* limiter lets everything through and stays absent.

Admits(limiter, amount, now) ==
    limiter # None => CanConsume(limiter, amount, now)

Charged(limiter, amount, now) ==
    IF limiter = None THEN None ELSE try_consume(limiter, amount, now)

Credited(limiter, amount, now) ==
    IF limiter = None THEN None ELSE refill(limiter, amount, now)
=============================================================================
