------------------------ MODULE QuoteAndLimitsProofs ------------------------
(***************************************************************************)
(* The two things the program computes with an amount: what is left of it  *)
(* (OFTQuote) and whether the limits of the peer admit it (PeerLimits).    *)
(* First, the properties of a quote, for every u64, every rate, every fee. *)
(* Second, the token buckets of a peer, refilled lazily, implement         *)
(* LeakyBucket: for every capacity, rate and amount, with saturation at    *)
(* u64::MAX, under any order of sends, receipts, seconds and               *)
(* reconfigurations.                                                       *)
(***************************************************************************)
EXTENDS OFTQuote, MeteredLimits, OFTMathProofs

\* A quote belongs to its terms and its amount.
QuoteInv ==
    /\ terms \in Terms
    /\ amount_ld \in U64
    /\ quote = quote_oft(terms, amount_ld)

\* The quote shown is always the quote of the amount shown.
LEMMA QuoteInvariant == QuoteSpec => []QuoteInv
  <1> USE MathAssumption DEF U64
  <1>1. QuoteInit => QuoteInv
    BY SMT DEF QuoteInit, QuoteInv
  <1>2. QuoteInv /\ [QuoteNext]_quoteVars => QuoteInv'
    <2> SUFFICES ASSUME QuoteInv, [QuoteNext]_quoteVars PROVE QuoteInv'
      OBVIOUS
    <2>1. CASE AskForMore
      BY <2>1, SMT DEF QuoteInv, AskForMore
    <2>2. CASE UNCHANGED quoteVars
      BY <2>2 DEF QuoteInv, quoteVars
    <2> QED
      BY <2>1, <2>2 DEF QuoteNext
  <1> QED
    BY <1>1, <1>2, PTL DEF QuoteSpec

\* The parts of the terms are what the arithmetic needs.
LEMMA TermsTypes ==
    ASSUME NEW t \in Terms
    PROVE  /\ t.oft_type \in OFTType
           /\ t.ld2sd_rate \in Nat \ {0}
           /\ FinalFeeBps(t.default_fee_bps, t.fee_bps) \in OftFeeBps
           /\ t.transfer_fee \in TransferFee
  BY QuoteAssumption DEF Terms, FinalFeeBps

\* Everything the properties say of a quote, from the invariant.
LEMMA QuoteFacts ==
    QuoteInv =>
        /\ QuoteTypeOK /\ SentAtMostAsked /\ EscrowGetsQuote /\ SentIsLeast
        /\ FeeDetailsAddUp /\ NothingLostOnTheWire
  <1> SUFFICES ASSUME QuoteInv
               PROVE  /\ QuoteTypeOK /\ SentAtMostAsked /\ EscrowGetsQuote /\ SentIsLeast
                      /\ FeeDetailsAddUp /\ NothingLostOnTheWire
    OBVIOUS
  <1>1. /\ terms \in Terms /\ amount_ld \in Nat /\ amount_ld <= MaxU64
        /\ terms.oft_type \in OFTType
        /\ terms.ld2sd_rate \in Nat \ {0}
        /\ FinalFeeBps(terms.default_fee_bps, terms.fee_bps) \in OftFeeBps
        /\ terms.transfer_fee \in TransferFee
    BY TermsTypes, MathAssumption, SMT DEF QuoteInv, U64
  <1>2. PICK r : r = Amounts(terms, amount_ld)
    OBVIOUS
  <1>3. /\ r.sent \in 0 .. amount_ld /\ r.received \in Nat /\ r.fee \in Nat
        /\ r.received + r.fee <= r.sent
        /\ r.received % terms.ld2sd_rate = 0
        /\ terms.oft_type = "Adapter" =>
              /\ get_post_fee_amount_ld(terms.transfer_fee, r.sent) = r.received + r.fee
              /\ \A a \in Nat :
                     get_post_fee_amount_ld(terms.transfer_fee, a) >= r.received + r.fee =>
                         a >= r.sent
    BY <1>1, <1>2, AmountsCorrect DEF Amounts
  <1>4. /\ quote.sent = r.sent /\ quote.received = r.received
        /\ quote.transfer_fee = TransferFeeDetail(r)
        /\ quote.cross_chain_fee = CrossChainFeeDetail(r)
    BY <1>2 DEF QuoteInv, quote_oft
  <1>5. /\ quote.cross_chain_fee = r.fee
        /\ quote.transfer_fee = r.sent - r.fee - r.received
    BY <1>3, <1>4, SMT DEF TransferFeeDetail, CrossChainFeeDetail
  <1>6. QuoteTypeOK
    <2>1. /\ quote.sent \in U64 /\ quote.received \in U64
          /\ quote.transfer_fee \in U64 /\ quote.cross_chain_fee \in U64
      BY <1>1, <1>3, <1>4, <1>5, MathAssumption, SMT DEF U64
    <2>2. quote = [sent |-> quote.sent, received |-> quote.received,
                   transfer_fee |-> quote.transfer_fee,
                   cross_chain_fee |-> quote.cross_chain_fee]
      BY DEF QuoteInv, quote_oft
    <2> QED
      BY <2>1, <2>2 DEF QuoteTypeOK, QuoteInv
  <1>7. SentAtMostAsked
    BY <1>1, <1>3, <1>4, SMT DEF SentAtMostAsked
  <1>8. EscrowGetsQuote
    BY <1>3, <1>4, <1>5 DEF EscrowGetsQuote
  <1>9. SentIsLeast
    <2> SUFFICES ASSUME terms.oft_type = "Adapter", quote.sent > 0
                 PROVE  get_post_fee_amount_ld(terms.transfer_fee, quote.sent - 1)
                            < quote.received + quote.cross_chain_fee
      BY DEF SentIsLeast
    <2>1. PICK a \in Nat : a = quote.sent - 1
      BY <1>3, <1>4, SMT
    <2>2. get_post_fee_amount_ld(terms.transfer_fee, a) \in 0 .. a
      BY <1>1, PostFeeBounds
    <2>3. ~(a >= r.sent)
      BY <1>3, <1>4, <2>1, SMT
    <2>4. ~(get_post_fee_amount_ld(terms.transfer_fee, a) >= r.received + r.fee)
      BY <1>3, <2>3
    <2> QED
      BY <1>3, <1>4, <1>5, <2>1, <2>2, <2>4, SMT
  <1>10. FeeDetailsAddUp
    BY <1>3, <1>4, <1>5, SMT DEF FeeDetailsAddUp
  <1>11. NothingLostOnTheWire
    BY <1>1, <1>3, <1>4, DustFreeRoundTrip DEF NothingLostOnTheWire
  <1> QED
    BY <1>6, <1>7, <1>8, <1>9, <1>10, <1>11

\* No step of the u64 arithmetic of quote_oft leaves u64.
THEOREM QuoteTypeCorrect == QuoteSpec => []QuoteTypeOK
  BY QuoteInvariant, QuoteFacts, PTL

\* compute_fee_and_adjust_amount never takes more than it is asked to.
THEOREM QuoteSentAtMostAsked == QuoteSpec => []SentAtMostAsked
  BY QuoteInvariant, QuoteFacts, PTL

\* The transfer to the escrow brings exactly what the quote promised.
THEOREM QuoteEscrowGetsQuote == QuoteSpec => []EscrowGetsQuote
  BY QuoteInvariant, QuoteFacts, PTL

\* And no smaller transfer would.
THEOREM QuoteSentIsLeast == QuoteSpec => []SentIsLeast
  BY QuoteInvariant, QuoteFacts, PTL

\* The fees itemised by quote_oft are the difference between sent and received.
THEOREM QuoteFeeDetailsAddUp == QuoteSpec => []FeeDetailsAddUp
  BY QuoteInvariant, QuoteFacts, PTL

\* The delivered amount survives the conversion to shared decimals.
THEOREM QuoteNothingLost == QuoteSpec => []NothingLostOnTheWire
  BY QuoteInvariant, QuoteFacts, PTL

\* Asking for more delivers, and charges, at least as much.
THEOREM QuoteMonotone == QuoteSpec => MoreAskedMoreDelivered
  <1> DEFINE More == quote'.received >= quote.received /\ quote'.sent >= quote.sent
  <1>1. QuoteInv /\ [QuoteNext]_quoteVars => [More]_quoteVars
    <2> SUFFICES ASSUME QuoteInv, AskForMore PROVE More
      BY DEF QuoteNext
    <2>1. PICK a \in Nat : a = amount_ld /\ a + 1 \in Nat /\ a <= a + 1
      BY MathAssumption, SMT DEF QuoteInv, U64
    <2>2. terms \in Terms
      BY DEF QuoteInv
    <2>3. PICK r, s : /\ r = Amounts(terms, a) /\ s = Amounts(terms, a + 1)
      OBVIOUS
    <2>4. /\ r.sent \in Nat /\ r.received \in Nat /\ s.sent \in Nat /\ s.received \in Nat
          /\ r.sent <= s.sent /\ r.received <= s.received
      BY <2>1, <2>2, <2>3, TermsTypes, AmountsCorrect, AmountsMonotone, SMT DEF Amounts
    <2>5. /\ quote.sent = r.sent /\ quote.received = r.received
          /\ quote'.sent = s.sent /\ quote'.received = s.received
      BY <2>1, <2>3 DEF QuoteInv, AskForMore, quote_oft
    <2> QED
      BY <2>4, <2>5, SMT
  <1>2. QuoteSpec => [][More]_quoteVars
    BY <1>1, QuoteInvariant, PTL DEF QuoteSpec
  <1> QED
    BY <1>2 DEF MoreAskedMoreDelivered
-----------------------------------------------------------------------------
\* What a limiter has earned since its last refill.
Earned(l, t) ==
    IF t > l.last_refill_time THEN (t - l.last_refill_time) * l.refill_per_second ELSE 0

\* The fields of a limiter are u64s.
LEMMA LimiterFields ==
    ASSUME NEW l \in Limiter
    PROVE  /\ l.capacity \in Nat /\ l.capacity <= MaxU64
           /\ l.tokens \in Nat /\ l.tokens <= MaxU64
           /\ l.refill_per_second \in Nat /\ l.refill_per_second <= MaxU64
           /\ l.last_refill_time \in Nat /\ l.last_refill_time <= MaxU64
BY MathAssumption, SMT DEF Limiter, U64

\* What is earned is a natural.
LEMMA EarnedNat ==
    ASSUME NEW l \in Limiter, NEW t \in Nat
    PROVE  Earned(l, t) \in Nat
<1>1. CASE t > l.last_refill_time
    <2>1. PICK d \in Nat : d = t - l.last_refill_time
        BY <1>1, LimiterFields, SMT
    <2>2. d * l.refill_per_second \in Nat
        BY LimiterFields, SMT
    <2>3. QED
        BY <1>1, <2>1, <2>2 DEF Earned
<1>2. CASE ~(t > l.last_refill_time)
    BY <1>2 DEF Earned
<1>3. QED
    BY <1>1, <1>2

\* A second earns one rate more.
LEMMA EarnedTick ==
    ASSUME NEW l \in Limiter, NEW t \in Nat, l.last_refill_time <= t
    PROVE  Earned(l, t + 1) = Earned(l, t) + l.refill_per_second
<1>1. PICK d \in Nat : d = t - l.last_refill_time
    BY LimiterFields, SMT
<1>2. PICK r \in Nat : r = l.refill_per_second
    BY LimiterFields
<1>3. (d + 1) * r = d * r + r
    BY SMT
<1>4. Earned(l, t + 1) = (d + 1) * r
    BY <1>1, <1>2, LimiterFields, SMT DEF Earned
<1>5. Earned(l, t) = d * r
    <2>1. CASE d = 0
        <3>1. ~(t > l.last_refill_time)
            BY <2>1, <1>1, LimiterFields, SMT
        <3>2. QED
            BY <2>1, <3>1, SMT DEF Earned
    <2>2. CASE d # 0
        <3>1. t > l.last_refill_time
            BY <2>2, <1>1, LimiterFields, SMT
        <3>2. QED
            BY <1>1, <1>2, <3>1 DEF Earned
    <2>3. QED
        BY <2>1, <2>2
<1>6. QED
    BY <1>2, <1>3, <1>4, <1>5

\* Saturation is hidden by the capacity: a refill is a sum that is capped once.
LEMMA RefillValue ==
    ASSUME NEW l \in Limiter, NEW extra \in Nat, NEW t \in U64
    PROVE  /\ refill(l, extra, t) \in Limiter
           /\ refill(l, extra, t).tokens = Least(l.capacity, l.tokens + extra + Earned(l, t))
           /\ refill(l, extra, t).capacity = l.capacity
           /\ refill(l, extra, t).refill_per_second = l.refill_per_second
           /\ refill(l, extra, t).last_refill_time = t
<1> USE MathAssumption
<1>1. t \in Nat /\ Earned(l, t) \in Nat
    BY EarnedNat, SMT DEF U64
<1>2. PICK e \in Nat : e = Earned(l, t)
    BY <1>1
<1>3. NewTokens(l, extra, t) = extra + e \/
        (NewTokens(l, extra, t) \in Nat /\ NewTokens(l, extra, t) >= MaxU64
            /\ extra + e >= MaxU64)
    <2>1. CASE t > l.last_refill_time
        <3>1. NewTokens(l, extra, t) = Least(extra + Least(e, MaxU64), MaxU64)
            BY <2>1, <1>2 DEF NewTokens, Earned, saturating_add, saturating_mul
        <3>2. QED
            BY <3>1, SMT DEF Least
    <2>2. CASE ~(t > l.last_refill_time)
        BY <2>2, <1>2, SMT DEF NewTokens, Earned
    <2>3. QED
        BY <2>1, <2>2
<1>4. PICK n \in Nat : n = NewTokens(l, extra, t)
    BY <1>3, SMT
<1>5. Least(l.capacity, saturating_add(l.tokens, n)) = Least(l.capacity, l.tokens + extra + e)
    BY <1>3, <1>4, LimiterFields, SMT DEF Least, saturating_add
<1>6. Least(l.capacity, l.tokens + extra + e) \in U64
    BY LimiterFields, SMT DEF Least, U64
<1>7. PICK k \in U64 : k = Least(l.capacity, l.tokens + extra + e)
    BY <1>6
<1>8. refill(l, extra, t) = [l EXCEPT !.tokens = k, !.last_refill_time = t]
    BY <1>4, <1>5, <1>7 DEF refill
<1>9. QED
    BY <1>2, <1>7, <1>8 DEF Limiter

\* A refilled limiter is a limiter.
LEMMA RefillType ==
    ASSUME NEW l \in Limiter, NEW extra \in Nat, NEW t \in U64
    PROVE  refill(l, extra, t) \in Limiter
BY RefillValue

\* A refill with nothing extra adds what the seconds have earned.
LEMMA RefillNothing ==
    ASSUME NEW l \in Limiter, NEW t \in U64
    PROVE  /\ refill(l, 0, t) \in Limiter
           /\ refill(l, 0, t).tokens = Least(l.capacity, l.tokens + Earned(l, t))
           /\ refill(l, 0, t).capacity = l.capacity
           /\ refill(l, 0, t).refill_per_second = l.refill_per_second
           /\ refill(l, 0, t).last_refill_time = t
<1>1. t \in Nat /\ 0 \in Nat
    BY MathAssumption, SMT DEF U64
<1>2. PICK e \in Nat : e = Earned(l, t)
    BY <1>1, EarnedNat
<1>3. PICK n \in Nat : n = l.tokens + 0 + e
    BY LimiterFields, SMT
<1>4. n = l.tokens + e
    BY <1>3, LimiterFields, SMT
<1>5. refill(l, 0, t).tokens = Least(l.capacity, n)
    BY <1>1, <1>2, <1>3, RefillValue
<1>6. QED
    BY <1>1, <1>2, <1>4, <1>5, RefillValue
----------------------------------------------------------------------------
\* The bucket of a limiter at a time.

BucketAt(l, t) ==
    IF l = None THEN None
    ELSE [capacity |-> l.capacity, leak |-> l.refill_per_second,
          level |-> l.capacity - refill(l, 0, t).tokens]

Buckets == [capacity : 0 .. MaxU64, leak : 0 .. MaxU64, level : 0 .. MaxU64]

LoweredBy(level, amount) == IF level <= amount THEN 0 ELSE level - amount

LimiterAt(l, t) ==
    l # None => l \in Limiter /\ l.tokens <= l.capacity /\ l.last_refill_time <= t

\* What a limiter holds, and its bucket lacks.
LEMMA BucketValue ==
    ASSUME NEW l \in Limiter, l # None, NEW t \in U64
    PROVE  /\ BucketAt(l, t) =
                 [capacity |-> l.capacity, leak |-> l.refill_per_second,
                  level |-> l.capacity - Least(l.capacity, l.tokens + Earned(l, t))]
           /\ BucketAt(l, t) \in Buckets
<1>1. 0 \in Nat /\ t \in Nat
    BY MathAssumption, SMT DEF U64
<1>2. Earned(l, t) \in Nat
    BY <1>1, EarnedNat
<1>3. refill(l, 0, t).tokens = Least(l.capacity, l.tokens + Earned(l, t))
    BY RefillNothing
<1>4. l.capacity - Least(l.capacity, l.tokens + Earned(l, t)) \in 0 .. MaxU64
    BY <1>2, LimiterFields, MathAssumption, SMT DEF Least
<1>5. l.capacity \in 0 .. MaxU64 /\ l.refill_per_second \in 0 .. MaxU64
    BY LimiterFields, MathAssumption, SMT
<1>6. QED
    BY <1>3, <1>4, <1>5 DEF BucketAt, Buckets

\* A second drains the bucket, although nothing touches the limiter.
LEMMA SecondDrains ==
    ASSUME NEW l \in Limiter, l # None, NEW t \in U64, t + 1 \in U64,
           l.last_refill_time <= t
    PROVE  BucketAt(l, t + 1) =
               [BucketAt(l, t) EXCEPT !.level = LoweredBy(@, BucketAt(l, t).leak)]
<1>1. t \in Nat
    BY MathAssumption, SMT DEF U64
<1>2. Earned(l, t) \in Nat /\ Earned(l, t + 1) = Earned(l, t) + l.refill_per_second
    BY <1>1, EarnedNat, EarnedTick
<1>3. PICK e \in Nat : e = Earned(l, t)
    BY <1>2
<1>4. l.capacity - Least(l.capacity, l.tokens + (e + l.refill_per_second))
        = LoweredBy(l.capacity - Least(l.capacity, l.tokens + e), l.refill_per_second)
    BY LimiterFields, SMT DEF Least, LoweredBy
<1>5. QED
    BY <1>2, <1>3, <1>4, BucketValue

\* try_consume pours, and only what there is room for.
LEMMA ConsumePours ==
    ASSUME NEW l \in Limiter, l # None, NEW t \in U64, NEW amount \in U64,
           CanConsume(l, amount, t)
    PROVE  /\ LimiterAt(try_consume(l, amount, t), t) /\ try_consume(l, amount, t) \in Limiter
           /\ try_consume(l, amount, t) # None =>
                /\ BucketAt(l, t).level + amount <= BucketAt(l, t).capacity
                /\ BucketAt(try_consume(l, amount, t), t) =
                       [BucketAt(l, t) EXCEPT !.level = @ + amount]
<1> USE MathAssumption
<1>1. t \in Nat /\ amount \in Nat /\ 0 \in Nat
    BY SMT DEF U64
<1>2. PICK e \in Nat : e = Earned(l, t)
    BY <1>1, EarnedNat
<1>3. PICK r \in Limiter : r = refill(l, 0, t)
    BY <1>1, RefillValue
<1>4. /\ r.tokens = Least(l.capacity, l.tokens + e) /\ r.capacity = l.capacity
      /\ r.refill_per_second = l.refill_per_second /\ r.last_refill_time = t
    BY <1>2, <1>3, RefillNothing
<1>5. r.tokens >= amount
    BY <1>3 DEF CanConsume
<1>6. PICK k \in U64 : k = r.tokens - amount
    BY <1>1, <1>5, LimiterFields, SMT DEF U64
<1>7. PICK c \in Limiter : c = try_consume(l, amount, t) /\ c = [r EXCEPT !.tokens = k]
    BY <1>3, <1>6 DEF try_consume, Limiter
<1>8. /\ c.tokens = k /\ c.capacity = l.capacity
      /\ c.refill_per_second = l.refill_per_second /\ c.last_refill_time = t
    BY <1>4, <1>7 DEF Limiter
<1>9. c.tokens <= c.capacity
    BY <1>1, <1>2, <1>4, <1>6, <1>8, LimiterFields, SMT DEF Least
<1>10. Earned(c, t) = 0
    BY <1>1, <1>8, SMT DEF Earned
<1>11. l.capacity - Least(c.capacity, c.tokens + 0) =
           l.capacity - Least(l.capacity, l.tokens + e) + amount
    BY <1>1, <1>2, <1>4, <1>6, <1>8, LimiterFields, SMT DEF Least
<1>12. l.capacity - Least(l.capacity, l.tokens + e) + amount <= l.capacity
    BY <1>1, <1>2, <1>4, <1>5, LimiterFields, SMT DEF Least
<1>13. BucketAt(l, t).level + amount <= BucketAt(l, t).capacity
    BY <1>2, <1>12, BucketValue
<1>14. c # None => BucketAt(c, t) = [BucketAt(l, t) EXCEPT !.level = @ + amount]
    BY <1>2, <1>8, <1>10, <1>11, BucketValue
<1>15. t <= t
    BY <1>1, SMT
<1>16. QED
    BY <1>7, <1>8, <1>9, <1>13, <1>14, <1>15 DEF LimiterAt

\* A refill with what comes back scoops it out.
LEMMA RefillScoops ==
    ASSUME NEW l \in Limiter, l # None, NEW t \in U64, NEW amount \in U64
    PROVE  /\ LimiterAt(refill(l, amount, t), t) /\ refill(l, amount, t) \in Limiter
           /\ refill(l, amount, t) # None =>
                BucketAt(refill(l, amount, t), t) =
                    [BucketAt(l, t) EXCEPT !.level = LoweredBy(@, amount)]
<1> USE MathAssumption
<1>1. t \in Nat /\ amount \in Nat
    BY SMT DEF U64
<1>2. PICK e \in Nat : e = Earned(l, t)
    BY <1>1, EarnedNat
<1>3. PICK c \in Limiter : c = refill(l, amount, t)
    BY <1>1, RefillType
<1>4. /\ c.tokens = Least(l.capacity, l.tokens + amount + e) /\ c.capacity = l.capacity
      /\ c.refill_per_second = l.refill_per_second /\ c.last_refill_time = t
    <2>1. /\ c.tokens = Least(l.capacity, l.tokens + amount + Earned(l, t))
          /\ c.capacity = l.capacity
          /\ c.refill_per_second = l.refill_per_second /\ c.last_refill_time = t
        BY <1>1, <1>3, RefillValue
    <2>2. QED
        BY <1>2, <2>1
<1>5. c.tokens <= c.capacity
    BY <1>1, <1>2, <1>4, LimiterFields, SMT DEF Least
<1>6. Earned(c, t) = 0
    BY <1>1, <1>4, SMT DEF Earned
<1>7. l.capacity - Least(c.capacity, c.tokens + 0) =
          LoweredBy(l.capacity - Least(l.capacity, l.tokens + e), amount)
    BY <1>1, <1>2, <1>4, LimiterFields, SMT DEF Least, LoweredBy
<1>8. c # None => BucketAt(c, t) = [BucketAt(l, t) EXCEPT !.level = LoweredBy(@, amount)]
    BY <1>2, <1>4, <1>6, <1>7, BucketValue
<1>9. t <= t
    BY <1>1, SMT
<1>10. QED
    BY <1>3, <1>4, <1>5, <1>8, <1>9 DEF LimiterAt

\* A reconfiguration installs an empty bucket, changes the leak of the one there
\* is, or leaves it as it is.
LEMMA UpdateInstalls ==
    ASSUME NEW l, NEW t \in U64, LimiterAt(l, t), NEW params \in LimitChoices, params # None,
           NEW u, u = update_rate_limiter(l, params, t), u # None
    PROVE  /\ LimiterAt(u, t)
           /\ \/ /\ l = None \/ params.capacity # None
                 /\ \E capacity, leak \in 0 .. MaxU64 :
                        BucketAt(u, t) = [capacity |-> capacity, leak |-> leak, level |-> 0]
              \/ /\ l # None
                 /\ \E leak \in 0 .. MaxU64 :
                        BucketAt(u, t) = [BucketAt(l, t) EXCEPT !.leak = leak]
              \/ u = l
<1> USE MathAssumption
<1> DEFINE Empty(x) == x \in Limiter /\ x.tokens = x.capacity /\ x.last_refill_time <= t
<1> DEFINE Filled == l = None \/ params.capacity # None
<1>1. t \in Nat /\ 0 \in U64 /\ 0 \in Nat /\ 0 <= t
    BY SMT DEF U64
<1>2. params.capacity \in U64 \cup {None} /\ params.refill_per_second \in U64 \cup {None}
    BY LimitsAssumption DEF LimitParams
<1>3. PICK l0 : l0 = IF l = None THEN DefaultLimiter ELSE l
    OBVIOUS
<1>4. DefaultLimiter \in Limiter /\ DefaultLimiter.tokens = 0 /\ DefaultLimiter.capacity = 0
      /\ DefaultLimiter.last_refill_time = 0
    BY <1>1 DEF DefaultLimiter, Limiter
<1>5. /\ l0 \in Limiter /\ l0.tokens <= l0.capacity /\ l0.last_refill_time <= t
      /\ l = None => Empty(l0)
    BY <1>1, <1>3, <1>4, SMT DEF LimiterAt
<1>6. PICK l1 : l1 = IF params.capacity = None THEN l0 ELSE set_capacity(l0, params.capacity, t)
    OBVIOUS
<1>7. params.capacity # None => Empty(set_capacity(l0, params.capacity, t))
    <2> SUFFICES ASSUME params.capacity # None
                 PROVE  Empty(set_capacity(l0, params.capacity, t))
        OBVIOUS
    <2>1. PICK s : s = set_capacity(l0, params.capacity, t)
        OBVIOUS
    <2>2. s \in Limiter /\ s.tokens = s.capacity /\ s.last_refill_time = t
        BY <2>1, <1>2, <1>5 DEF set_capacity, Limiter
    <2>3. t <= t
        BY <1>1, SMT
    <2>4. QED
        BY <2>1, <2>2, <2>3
<1>8. /\ l1 \in Limiter /\ l1.tokens <= l1.capacity /\ l1.last_refill_time <= t
      /\ (Empty(l1) /\ Filled) \/ (l1 = l /\ l # None)
    <2>1. Empty(l1) => l1.tokens <= l1.capacity
        BY LimiterFields, SMT
    <2>2. QED
        BY <2>1, <1>3, <1>5, <1>6, <1>7
<1>9. CASE params.refill_per_second = None
    <2>1. u = l1
        BY <1>3, <1>6, <1>9 DEF update_rate_limiter
    <2>2. CASE Empty(l1) /\ Filled
        <3>1. Earned(l1, t) \in Nat
            BY <1>1, <1>8, EarnedNat
        <3>2. l1.capacity - Least(l1.capacity, l1.tokens + Earned(l1, t)) = 0
            BY <3>1, <2>2, LimiterFields, SMT DEF Least
        <3>3. QED
            BY <2>1, <3>2, <1>8, BucketValue, LimiterFields, SMT DEF LimiterAt
    <2>3. QED
        BY <2>1, <2>2, <1>8 DEF LimiterAt
<1>10. CASE params.refill_per_second # None
    <2>1. PICK rate \in U64 : rate = params.refill_per_second
        BY <1>2, <1>10
    <2>2. PICK e \in Nat : e = Earned(l1, t)
        BY <1>1, <1>8, EarnedNat
    <2>3. PICK r \in Limiter : r = refill(l1, 0, t)
        BY <1>1, <1>8, RefillValue
    <2>4. /\ r.tokens = Least(l1.capacity, l1.tokens + e) /\ r.capacity = l1.capacity
          /\ r.last_refill_time = t
        BY <1>8, <2>2, <2>3, RefillNothing
    <2>5. u = [r EXCEPT !.refill_per_second = rate]
        BY <1>3, <1>6, <1>10, <2>1, <2>3 DEF update_rate_limiter, set_rate
    <2>6. /\ u \in Limiter /\ u.tokens = r.tokens /\ u.capacity = l1.capacity
          /\ u.refill_per_second = rate /\ u.last_refill_time = t
        BY <2>4, <2>5 DEF Limiter
    <2>7. Earned(u, t) = 0
        BY <1>1, <2>6, SMT DEF Earned
    <2>8. u.capacity - Least(u.capacity, u.tokens + 0) =
              l1.capacity - Least(l1.capacity, l1.tokens + e)
        BY <1>8, <2>2, <2>4, <2>6, LimiterFields, SMT DEF Least
    <2>9. BucketAt(u, t) = [capacity |-> l1.capacity, leak |-> rate,
                            level |-> l1.capacity - Least(l1.capacity, l1.tokens + e)]
        BY <2>6, <2>7, <2>8, BucketValue
    <2>10. LimiterAt(u, t)
        BY <1>1, <1>8, <2>2, <2>4, <2>6, LimiterFields, SMT DEF LimiterAt, Least
    <2>11. CASE Empty(l1) /\ Filled
        <3>1. l1.capacity - Least(l1.capacity, l1.tokens + e) = 0
            BY <2>2, <2>11, LimiterFields, SMT DEF Least
        <3>2. l1.capacity \in 0 .. MaxU64 /\ rate \in 0 .. MaxU64
            BY <1>8, LimiterFields, SMT DEF U64
        <3>3. BucketAt(u, t) = [capacity |-> l1.capacity, leak |-> rate, level |-> 0]
            BY <2>9, <3>1, Zenon
        <3>4. l = None \/ params.capacity # None
            BY <2>11
        <3>5. QED
            BY <2>10, <3>2, <3>3, <3>4
    <2>12. CASE l1 = l /\ l # None
        <3>1. BucketAt(u, t) = [BucketAt(l, t) EXCEPT !.leak = rate]
            BY <1>8, <2>2, <2>9, <2>12, BucketValue
        <3>2. QED
            BY <2>10, <2>12, <3>1 DEF U64
    <2>13. QED
        BY <1>8, <2>11, <2>12
<1>11. QED
    BY <1>9, <1>10
----------------------------------------------------------------------------
\* The steps, as they look from one of the two limiters: l before and u after.

Pours(l, u, t, amount) ==
    /\ BucketAt(l, t) \in Buckets
    /\ BucketAt(l, t).level + amount <= BucketAt(l, t).capacity
    /\ BucketAt(u, t) = [BucketAt(l, t) EXCEPT !.level = @ + amount]

Scoops(l, u, t, amount) ==
    /\ BucketAt(l, t) \in Buckets
    /\ BucketAt(u, t) = [BucketAt(l, t) EXCEPT !.level = LoweredBy(@, amount)]

Installs(u, t) ==
    \E capacity, leak \in 0 .. MaxU64 :
        BucketAt(u, t) = [capacity |-> capacity, leak |-> leak, level |-> 0]

ChangesLeak(l, u, t) ==
    \E leak \in 0 .. MaxU64 :
        /\ BucketAt(l, t) \in Buckets
        /\ BucketAt(u, t) = [BucketAt(l, t) EXCEPT !.leak = leak]

Drains(l, t) ==
    /\ BucketAt(l, t) \in Buckets
    /\ BucketAt(l, t + 1) = [BucketAt(l, t) EXCEPT !.level = LoweredBy(@, BucketAt(l, t).leak)]

\* What a send or a receipt takes is poured into the bucket.
LEMMA ChargedPours ==
    ASSUME NEW l, NEW t \in U64, LimiterAt(l, t), NEW amount \in U64, Admits(l, amount, t),
           NEW u, u = Charged(l, amount, t)
    PROVE  LimiterAt(u, t) /\ ((l = None /\ u = None) \/ Pours(l, u, t, amount))
<1>1. CASE l = None
    BY <1>1 DEF Charged, LimiterAt
<1>2. CASE l # None
    <2>1. l \in Limiter /\ CanConsume(l, amount, t) /\ u = try_consume(l, amount, t)
        BY <1>2 DEF LimiterAt, Admits, Charged
    <2>2. QED
        BY <1>2, <2>1, ConsumePours, BucketValue, NoneAssumption DEF Pours
<1>3. QED
    BY <1>1, <1>2

\* What it gives back is scooped out of the bucket.
LEMMA CreditedScoops ==
    ASSUME NEW l, NEW t \in U64, LimiterAt(l, t), NEW amount \in U64,
           NEW u, u = Credited(l, amount, t)
    PROVE  LimiterAt(u, t) /\ ((l = None /\ u = None) \/ Scoops(l, u, t, amount))
<1>1. CASE l = None
    BY <1>1 DEF Credited, LimiterAt
<1>2. CASE l # None
    <2>1. l \in Limiter /\ u = refill(l, amount, t)
        BY <1>2 DEF LimiterAt, Credited
    <2>2. QED
        BY <1>2, <2>1, RefillScoops, BucketValue, NoneAssumption DEF Scoops
<1>3. QED
    BY <1>1, <1>2

\* A reconfiguration installs a bucket, changes its leak, or does nothing.
LEMMA UpdatedInstalls ==
    ASSUME NEW l, NEW t \in U64, LimiterAt(l, t), NEW params \in LimitChoices,
           NEW u, u = update_rate_limiter(l, params, t)
    PROVE  /\ LimiterAt(u, t)
           /\ u = None \/ Installs(u, t) \/ ChangesLeak(l, u, t) \/ u = l
<1>1. CASE u = None
    BY <1>1 DEF LimiterAt
<1>2. CASE u # None
    <2>1. params # None
        BY <1>2 DEF update_rate_limiter
    <2>2. l # None => BucketAt(l, t) \in Buckets
        BY BucketValue DEF LimiterAt
    <2>3. QED
        BY <1>2, <2>1, <2>2, UpdateInstalls DEF Installs, ChangesLeak
<1>3. QED
    BY <1>1, <1>2

\* A second drains the bucket.
LEMMA TickDrains ==
    ASSUME NEW l, NEW t \in U64, t + 1 \in U64, LimiterAt(l, t)
    PROVE  LimiterAt(l, t + 1) /\ (l = None \/ Drains(l, t))
<1>1. CASE l = None
    BY <1>1 DEF LimiterAt
<1>2. CASE l # None
    <2>1. l \in Limiter /\ l.tokens <= l.capacity /\ l.last_refill_time <= t
        BY <1>2 DEF LimiterAt
    <2>2. l.last_refill_time <= t + 1
        BY <2>1, LimiterFields, MathAssumption, SMT DEF U64
    <2>3. QED
        BY <1>2, <2>1, <2>2, SecondDrains, BucketValue DEF LimiterAt, Drains
<1>3. QED
    BY <1>1, <1>2
----------------------------------------------------------------------------
\* The types of both limiters, one by one.
LEMMA TypeOKAt ==
    /\ TypeOK <=> /\ now \in 0 .. MaxTime /\ net_out \in Int
                  /\ LimiterAt(outbound, now) /\ LimiterAt(inbound, now)
    /\ TypeOK' <=> /\ now' \in 0 .. MaxTime /\ net_out' \in Int
                   /\ LimiterAt(outbound', now') /\ LimiterAt(inbound', now')
BY DEF TypeOK, LimiterOK, LimiterAt

\* The clock is a u64.
LEMMA TimeFits == 0 .. MaxTime \subseteq U64
BY MathAssumption, LimitsAssumption, SMT DEF U64

\* A step in the eyes of one limiter, with the traffic n that it lets through: what
\* becomes of it, and of its bucket.
Lets(l, u, n, m) ==
    \E amount \in U64 :
        m = n + amount /\ ((l = None /\ u = None) \/ Pours(l, u, now, amount))

GetsBack(l, u, n, m) ==
    \E amount \in U64 :
        m = n - amount /\ ((l = None /\ u = None) \/ Scoops(l, u, now, amount))

IsSet(l, u) == u = None \/ Installs(u, now) \/ ChangesLeak(l, u, now) \/ u = l

Step(l, u, n, m) ==
    \/ now' = now /\ Lets(l, u, n, m)
    \/ now' = now /\ GetsBack(l, u, n, m)
    \/ now' = now /\ m = n /\ IsSet(l, u)
    \/ now' = now + 1 /\ m = n /\ u = l /\ (l = None \/ Drains(l, now))

\* Every action keeps the types, and is a step for either limiter.
LEMMA StepOfBoth ==
    ASSUME TypeOK, [Next]_vars
    PROVE  /\ TypeOK'
           /\ Step(outbound, outbound', net_out, net_out')
           /\ Step(inbound, inbound', 0 - net_out, 0 - net_out')
<1> USE TimeFits
<1> DEFINE Good == /\ TypeOK'
                   /\ Step(outbound, outbound', net_out, net_out')
                   /\ Step(inbound, inbound', 0 - net_out, 0 - net_out')
<1>1. /\ now \in 0 .. MaxTime /\ LimiterAt(outbound, now) /\ LimiterAt(inbound, now)
      /\ now \in U64 /\ net_out \in Int
    BY TypeOKAt
<1>2. CASE UNCHANGED vars
    BY <1>1, <1>2, TypeOKAt DEF vars, Step, IsSet
<1>3. CASE Tick
    <2>1. /\ now' = now + 1 /\ outbound' = outbound /\ inbound' = inbound /\ now < MaxTime
          /\ net_out' = net_out
        BY <1>3 DEF Tick
    <2>2. now + 1 \in 0 .. MaxTime
        BY <1>1, <2>1, LimitsAssumption, MathAssumption, SMT DEF U64
    <2>3. /\ LimiterAt(outbound, now + 1) /\ (outbound = None \/ Drains(outbound, now))
          /\ LimiterAt(inbound, now + 1) /\ (inbound = None \/ Drains(inbound, now))
        BY <1>1, <2>2, TickDrains
    <2>4. QED
        BY <1>1, <2>1, <2>2, <2>3, TypeOKAt DEF Step
<1>4. ASSUME NEW amount \in U64, Outgoing(amount)
      PROVE  Good
    <2>1. /\ LimiterAt(outbound', now)
          /\ (outbound = None /\ outbound' = None) \/ Pours(outbound, outbound', now, amount)
          /\ LimiterAt(inbound', now)
          /\ (inbound = None /\ inbound' = None) \/ Scoops(inbound, inbound', now, amount)
        BY <1>1, <1>4, ChargedPours, CreditedScoops DEF Outgoing
    <2>2. /\ now' = now /\ net_out' = net_out + amount
          /\ net_out' \in Int /\ 0 - net_out' = (0 - net_out) - amount
        BY <1>1, <1>4, MathAssumption, SMT DEF Outgoing, U64
    <2>3. Lets(outbound, outbound', net_out, net_out')
          /\ GetsBack(inbound, inbound', 0 - net_out, 0 - net_out')
        BY <2>1, <2>2 DEF Lets, GetsBack
    <2>4. QED
        BY <1>1, <2>1, <2>2, <2>3, TypeOKAt DEF Step
<1>5. ASSUME NEW amount \in U64, Incoming(amount)
      PROVE  Good
    <2>1. /\ LimiterAt(inbound', now)
          /\ (inbound = None /\ inbound' = None) \/ Pours(inbound, inbound', now, amount)
          /\ LimiterAt(outbound', now)
          /\ (outbound = None /\ outbound' = None) \/ Scoops(outbound, outbound', now, amount)
        BY <1>1, <1>5, ChargedPours, CreditedScoops DEF Incoming
    <2>2. /\ now' = now /\ net_out' = net_out - amount
          /\ net_out' \in Int /\ 0 - net_out' = (0 - net_out) + amount
        BY <1>1, <1>5, MathAssumption, SMT DEF Incoming, U64
    <2>3. GetsBack(outbound, outbound', net_out, net_out')
          /\ Lets(inbound, inbound', 0 - net_out, 0 - net_out')
        BY <2>1, <2>2 DEF Lets, GetsBack
    <2>4. QED
        BY <1>1, <2>1, <2>2, <2>3, TypeOKAt DEF Step
<1>6. ASSUME NEW params \in LimitChoices, OutboundRateLimit(params)
      PROVE  Good
    <2>1. LimiterAt(outbound', now) /\ IsSet(outbound, outbound')
        BY <1>1, <1>6, UpdatedInstalls DEF OutboundRateLimit, IsSet
    <2>2. now' = now /\ net_out' = net_out /\ inbound' = inbound
        BY <1>6 DEF OutboundRateLimit
    <2>3. IsSet(inbound, inbound')
        BY <2>2 DEF IsSet
    <2>4. QED
        BY <1>1, <2>1, <2>2, <2>3, TypeOKAt DEF Step
<1>7. ASSUME NEW params \in LimitChoices, InboundRateLimit(params)
      PROVE  Good
    <2>1. LimiterAt(inbound', now) /\ IsSet(inbound, inbound')
        BY <1>1, <1>7, UpdatedInstalls DEF InboundRateLimit, IsSet
    <2>2. now' = now /\ net_out' = net_out /\ outbound' = outbound
        BY <1>7 DEF InboundRateLimit
    <2>3. IsSet(outbound, outbound')
        BY <2>2 DEF IsSet
    <2>4. QED
        BY <1>1, <2>1, <2>2, <2>3, TypeOKAt DEF Step
<1>8. QED
    BY <1>2, <1>3, <1>4, <1>5, <1>6, <1>7 DEF Next

\* The limiters of a peer hold what their type says, and no more tokens than
\* their capacity, whatever their settings and the amounts.
THEOREM LimitsTypeCorrect == Spec => []TypeOK
<1>1. Init => TypeOK
    BY MathAssumption, LimitsAssumption, SMT DEF Init, TypeOK, LimiterOK, U64
<1>2. TypeOK /\ [Next]_vars => TypeOK'
    BY StepOfBoth
<1>3. QED
    BY <1>1, <1>2, PTL DEF Spec

\* A bucket is told from no bucket.
LEMMA BucketIsThere ==
    /\ Buckets = OutboundBucket!Bucket /\ Buckets = InboundBucket!Bucket
    /\ None \notin Buckets
BY NoneAssumption DEF Buckets, OutboundBucket!Bucket, InboundBucket!Bucket

\* The bucket of the outbound limiter takes a step of LeakyBucket, or none.
LEMMA OutboundStep ==
    ASSUME TypeOK, [Next]_vars
    PROVE  [OutboundBucket!Next]_(OutboundBucket!vars)
<1> USE BucketIsThere DEF OutboundBucket!Limited
<1>1. Step(outbound, outbound', net_out, net_out')
    BY StepOfBoth
<1>2. BucketOf(outbound) = BucketAt(outbound, now)
      /\ BucketOf(outbound)' = BucketAt(outbound', now')
    BY DEF BucketOf, BucketAt
<1>3. outbound = None => BucketOf(outbound) = None
    BY DEF BucketOf
<1>4. outbound' = None => BucketOf(outbound)' = None
    BY DEF BucketOf
<1>5. U64 = 0 .. MaxU64
    BY DEF U64
<1>6. CASE now' = now /\ Lets(outbound, outbound', net_out, net_out')
    <2>1. PICK amount \in U64 :
              /\ net_out' = net_out + amount
              /\ (outbound = None /\ outbound' = None) \/ Pours(outbound, outbound', now, amount)
        BY <1>6 DEF Lets
    <2>2. OutboundBucket!Pour(amount)
        BY <1>2, <1>3, <1>4, <1>6, <2>1 DEF Pours, OutboundBucket!Pour, OutboundBucket!More
    <2>3. QED
        BY <1>5, <2>2 DEF OutboundBucket!Next
<1>7. CASE now' = now /\ GetsBack(outbound, outbound', net_out, net_out')
    <2>1. PICK amount \in U64 :
              /\ net_out' = net_out - amount
              /\ (outbound = None /\ outbound' = None) \/ Scoops(outbound, outbound', now, amount)
        BY <1>7 DEF GetsBack
    <2>2. OutboundBucket!Scoop(amount)
        BY <1>2, <1>3, <1>4, <1>7, <2>1 DEF Scoops, LoweredBy, OutboundBucket!Scoop,
           OutboundBucket!Less, OutboundBucket!Lowered
    <2>3. QED
        BY <1>5, <2>2 DEF OutboundBucket!Next
<1>8. CASE now' = now /\ net_out' = net_out /\ IsSet(outbound, outbound')
    <2>1. CASE outbound' = None
        BY <1>4, <1>8, <2>1 DEF OutboundBucket!Next, OutboundBucket!Set, OutboundBucket!Lift
    <2>2. CASE Installs(outbound', now)
        BY <1>2, <1>8, <2>2 DEF Installs, OutboundBucket!Next, OutboundBucket!Set,
           OutboundBucket!Install
    <2>3. CASE ChangesLeak(outbound, outbound', now)
        BY <1>2, <1>8, <2>3 DEF ChangesLeak, OutboundBucket!Next, OutboundBucket!Set,
           OutboundBucket!ChangeLeak
    <2>4. CASE outbound' = outbound
        BY <1>2, <1>8, <2>4 DEF OutboundBucket!vars
    <2>5. QED
        BY <1>8, <2>1, <2>2, <2>3, <2>4 DEF IsSet
<1>9. CASE /\ now' = now + 1 /\ net_out' = net_out /\ outbound' = outbound
           /\ outbound = None \/ Drains(outbound, now)
    <2>1. OutboundBucket!Drain
        BY <1>2, <1>3, <1>4, <1>9 DEF Drains, LoweredBy, OutboundBucket!Drain,
           OutboundBucket!Less, OutboundBucket!Leak, OutboundBucket!Lowered
    <2>2. QED
        BY <2>1 DEF OutboundBucket!Next
<1>10. QED
    BY <1>1, <1>6, <1>7, <1>8, <1>9 DEF Step

\* And so does that of the inbound limiter.
LEMMA InboundStep ==
    ASSUME TypeOK, [Next]_vars
    PROVE  [InboundBucket!Next]_(InboundBucket!vars)
<1> USE BucketIsThere DEF InboundBucket!Limited
<1>1. Step(inbound, inbound', 0 - net_out, 0 - net_out')
    BY StepOfBoth
<1>2. BucketOf(inbound) = BucketAt(inbound, now)
      /\ BucketOf(inbound)' = BucketAt(inbound', now')
    BY DEF BucketOf, BucketAt
<1>3. inbound = None => BucketOf(inbound) = None
    BY DEF BucketOf
<1>4. inbound' = None => BucketOf(inbound)' = None
    BY DEF BucketOf
<1>5. U64 = 0 .. MaxU64
    BY DEF U64
<1>6. CASE now' = now /\ Lets(inbound, inbound', 0 - net_out, 0 - net_out')
    <2>1. PICK amount \in U64 :
              /\ 0 - net_out' = (0 - net_out) + amount
              /\ (inbound = None /\ inbound' = None) \/ Pours(inbound, inbound', now, amount)
        BY <1>6 DEF Lets
    <2>2. InboundBucket!Pour(amount)
        BY <1>2, <1>3, <1>4, <1>6, <2>1 DEF Pours, InboundBucket!Pour, InboundBucket!More
    <2>3. QED
        BY <1>5, <2>2 DEF InboundBucket!Next
<1>7. CASE now' = now /\ GetsBack(inbound, inbound', 0 - net_out, 0 - net_out')
    <2>1. PICK amount \in U64 :
              /\ 0 - net_out' = (0 - net_out) - amount
              /\ (inbound = None /\ inbound' = None) \/ Scoops(inbound, inbound', now, amount)
        BY <1>7 DEF GetsBack
    <2>2. InboundBucket!Scoop(amount)
        BY <1>2, <1>3, <1>4, <1>7, <2>1 DEF Scoops, LoweredBy, InboundBucket!Scoop,
           InboundBucket!Less, InboundBucket!Lowered
    <2>3. QED
        BY <1>5, <2>2 DEF InboundBucket!Next
<1>8. CASE now' = now /\ 0 - net_out' = 0 - net_out /\ IsSet(inbound, inbound')
    <2>1. CASE inbound' = None
        BY <1>4, <1>8, <2>1 DEF InboundBucket!Next, InboundBucket!Set, InboundBucket!Lift
    <2>2. CASE Installs(inbound', now)
        BY <1>2, <1>8, <2>2 DEF Installs, InboundBucket!Next, InboundBucket!Set,
           InboundBucket!Install
    <2>3. CASE ChangesLeak(inbound, inbound', now)
        BY <1>2, <1>8, <2>3 DEF ChangesLeak, InboundBucket!Next, InboundBucket!Set,
           InboundBucket!ChangeLeak
    <2>4. CASE inbound' = inbound
        BY <1>2, <1>8, <2>4 DEF InboundBucket!vars
    <2>5. QED
        BY <1>8, <2>1, <2>2, <2>3, <2>4 DEF IsSet
<1>9. CASE /\ now' = now + 1 /\ 0 - net_out' = 0 - net_out /\ inbound' = inbound
           /\ inbound = None \/ Drains(inbound, now)
    <2>1. InboundBucket!Drain
        BY <1>2, <1>3, <1>4, <1>9 DEF Drains, LoweredBy, InboundBucket!Drain,
           InboundBucket!Less, InboundBucket!Leak, InboundBucket!Lowered
    <2>2. QED
        BY <2>1 DEF InboundBucket!Next
<1>10. QED
    BY <1>1, <1>6, <1>7, <1>8, <1>9 DEF Step

\* What send lets out, through a limiter that is refilled only when it is used,
\* keeps the promise of a leaky bucket: every second drains it by the rate, every
\* amount sent is poured in whole, every amount received is scooped out.
THEOREM OutboundKeepsPromise == Spec => OutboundPromise
<1>1. Init => OutboundBucket!Init
    BY DEF Init, BucketOf, OutboundBucket!Init
<1>2. TypeOK /\ [Next]_vars => [OutboundBucket!Next]_(OutboundBucket!vars)
    BY OutboundStep
<1>3. QED
    BY <1>1, <1>2, LimitsTypeCorrect, PTL DEF Spec, OutboundPromise, OutboundBucket!Spec

\* And so does what lz_receive lets in.
THEOREM InboundKeepsPromise == Spec => InboundPromise
<1>1. Init => InboundBucket!Init
    <2>1. \A n \in Int : n = 0 => 0 - n = 0
        BY SMT
    <2>2. QED
        BY <2>1 DEF Init, BucketOf, InboundBucket!Init
<1>2. TypeOK /\ [Next]_vars => [InboundBucket!Next]_(InboundBucket!vars)
    BY InboundStep
<1>3. QED
    BY <1>1, <1>2, LimitsTypeCorrect, PTL DEF Spec, InboundPromise, InboundBucket!Spec
----------------------------------------------------------------------------
\* The meter: what it reads never exceeds what the bucket of the limiter holds.

\* The reading e of a limiter l at time t.
MeterAt(l, t, e) == e \in Int /\ (l # None => e <= BucketAt(l, t).level)

\* The next reading after something was counted at l, or a new stretch.
Counted(l, e, change, next) == next = 0 \/ (l # None /\ next = e + change)

\* A new stretch may start with any bucket.
LEMMA MeterRestarts ==
    ASSUME NEW u, NEW t \in U64, LimiterAt(u, t)
    PROVE  MeterAt(u, t, 0)
<1>1. u # None => BucketAt(u, t) \in Buckets
    BY BucketValue DEF LimiterAt
<1>2. u # None => BucketAt(u, t).level \in 0 .. MaxU64
    BY <1>1 DEF Buckets
<1>3. QED
    BY <1>2, MathAssumption, SMT DEF MeterAt

\* The level of a bucket, and what is left when it is lowered.
LEMMA LevelLowered ==
    ASSUME NEW b \in Buckets, NEW amount \in Nat, NEW c,
           c = [b EXCEPT !.level = LoweredBy(@, amount)], NEW e \in Int, e <= b.level
    PROVE  e - amount <= c.level
<1>1. b.level \in Nat
    BY MathAssumption, SMT DEF Buckets
<1>2. c.level = LoweredBy(b.level, amount)
    BY DEF Buckets
<1>3. QED
    BY <1>1, <1>2, SMT DEF LoweredBy

\* What is let through raises the reading and the bucket alike.
LEMMA MeterCharged ==
    ASSUME NEW l, NEW t \in U64, LimiterAt(l, t), NEW amount \in U64, Admits(l, amount, t),
           NEW u, u = Charged(l, amount, t),
           NEW e, MeterAt(l, t, e), NEW next, Counted(l, e, amount, next)
    PROVE  MeterAt(u, t, next)
<1>1. CASE next = 0
    BY <1>1, ChargedPours, MeterRestarts
<1>2. CASE l # None /\ next = e + amount
    <2>1. l \in Limiter /\ CanConsume(l, amount, t) /\ u = try_consume(l, amount, t)
        BY <1>2 DEF LimiterAt, Admits, Charged
    <2>2. /\ BucketAt(l, t) \in Buckets
          /\ u # None => BucketAt(u, t) = [BucketAt(l, t) EXCEPT !.level = @ + amount]
        BY <1>2, <2>1, ConsumePours, BucketValue
    <2>3. BucketAt(l, t).level \in Nat /\ amount \in Nat
        BY <2>2, MathAssumption, SMT DEF Buckets, U64
    <2>4. u # None => BucketAt(u, t).level = BucketAt(l, t).level + amount
        BY <2>2 DEF Buckets
    <2>5. e \in Int /\ e <= BucketAt(l, t).level
        BY <1>2 DEF MeterAt
    <2>6. QED
        BY <1>2, <2>3, <2>4, <2>5 DEF MeterAt
<1>3. QED
    BY <1>1, <1>2 DEF Counted

\* What comes back lowers both, the bucket no further than to nothing.
LEMMA MeterCredited ==
    ASSUME NEW l, NEW t \in U64, LimiterAt(l, t), NEW amount \in U64,
           NEW u, u = Credited(l, amount, t),
           NEW e, MeterAt(l, t, e), NEW next, Counted(l, e, -amount, next)
    PROVE  MeterAt(u, t, next)
<1>1. CASE next = 0
    BY <1>1, CreditedScoops, MeterRestarts
<1>2. CASE l # None /\ next = e + (-amount)
    <2>1. l \in Limiter /\ u = refill(l, amount, t)
        BY <1>2 DEF LimiterAt, Credited
    <2>2. /\ BucketAt(l, t) \in Buckets
          /\ u # None => BucketAt(u, t) = [BucketAt(l, t) EXCEPT !.level = LoweredBy(@, amount)]
        BY <1>2, <2>1, RefillScoops, BucketValue
    <2>3. e \in Int /\ e <= BucketAt(l, t).level /\ amount \in Nat
        BY <1>2, MathAssumption, SMT DEF MeterAt, U64
    <2>4. u # None => e - amount <= BucketAt(u, t).level
        BY <2>2, <2>3, LevelLowered
    <2>5. next = e - amount /\ next \in Int
        BY <1>2, <2>3
    <2>6. QED
        BY <2>4, <2>5 DEF MeterAt
<1>3. QED
    BY <1>1, <1>2 DEF Counted

\* So does a second, by the rate of the limiter.
LEMMA MeterTicks ==
    ASSUME NEW l, NEW t \in U64, t + 1 \in U64, LimiterAt(l, t),
           NEW e, MeterAt(l, t, e),
           NEW next, Counted(l, e, IF l = None THEN 0 ELSE -l.refill_per_second, next)
    PROVE  MeterAt(l, t + 1, next)
<1>1. CASE next = 0
    BY <1>1, TickDrains, MeterRestarts
<1>2. CASE l # None /\ next = e + (-l.refill_per_second)
    <2>1. l \in Limiter
        BY <1>2 DEF LimiterAt
    <2>2. l.refill_per_second \in Nat /\ e \in Int /\ e <= BucketAt(l, t).level
        BY <1>2, <2>1, LimiterFields DEF MeterAt
    <2>3. /\ BucketAt(l, t) \in Buckets /\ BucketAt(l, t).leak = l.refill_per_second
          /\ BucketAt(l, t + 1) = [BucketAt(l, t) EXCEPT !.level = LoweredBy(@, BucketAt(l, t).leak)]
        BY <1>2, <2>1, TickDrains, BucketValue DEF Drains
    <2>4. e - l.refill_per_second <= BucketAt(l, t + 1).level
        BY <2>2, <2>3, LevelLowered
    <2>5. next = e - l.refill_per_second /\ next \in Int
        BY <1>2, <2>2
    <2>6. QED
        BY <2>4, <2>5 DEF MeterAt
<1>3. QED
    BY <1>1, <1>2 DEF Counted

\* A setting leaves the reading, and the level of the bucket, unless it fills it.
LEMMA MeterSet ==
    ASSUME NEW l, NEW t \in U64, LimiterAt(l, t), NEW params \in LimitChoices,
           NEW u, u = update_rate_limiter(l, params, t),
           NEW e, MeterAt(l, t, e), NEW next,
           \/ next = 0
           \/ params # None /\ params.capacity = None /\ Counted(l, e, 0, next)
    PROVE  MeterAt(u, t, next)
<1>1. CASE next = 0
    BY <1>1, UpdatedInstalls, MeterRestarts
<1>2. CASE params # None /\ params.capacity = None /\ l # None /\ next = e + 0
    <2>1. e \in Int /\ next = e /\ e <= BucketAt(l, t).level
        BY <1>2 DEF MeterAt
    <2>2. CASE u # None
        <3>1. \/ \E leak \in 0 .. MaxU64 : BucketAt(u, t) = [BucketAt(l, t) EXCEPT !.leak = leak]
              \/ u = l
            BY <1>2, <2>2, UpdateInstalls
        <3>2. BucketAt(l, t) \in Buckets
            BY <1>2, BucketValue DEF LimiterAt
        <3>3. BucketAt(u, t).level = BucketAt(l, t).level
            BY <3>1, <3>2 DEF Buckets
        <3>4. QED
            BY <2>1, <3>3 DEF MeterAt
    <2>3. CASE u = None
        BY <2>1, <2>3 DEF MeterAt
    <2>4. QED
        BY <2>2, <2>3
<1>3. QED
    BY <1>1, <1>2 DEF Counted

\* The reading of the watched limiter.
MeterInv == watched \in {"outbound", "inbound"} /\ MeterAt(Watched, now, excess)

\* Every step counts at the watched limiter what it does to it.
LEMMA MeterStep ==
    ASSUME TypeOK, MeterInv, [MeteredNext]_meteredVars
    PROVE  MeterInv'
<1> USE TimeFits
<1>1. /\ now \in U64 /\ LimiterAt(outbound, now) /\ LimiterAt(inbound, now)
      /\ LimiterAt(Watched, now) /\ watched \in {"outbound", "inbound"}
      /\ MeterAt(Watched, now, excess)
    BY TypeOKAt DEF MeterInv, Watched
<1>2. ASSUME NEW change, Count(change)
      PROVE  Counted(Watched, excess, change, excess') /\ watched' = watched
    BY <1>2 DEF Count, NewStretch, Counted
<1>3. CASE UNCHANGED meteredVars
    BY <1>1, <1>3 DEF meteredVars, meterVars, vars, MeterInv, Watched
<1>4. CASE Tick /\ Count(IF Watched = None THEN 0 ELSE -Watched.refill_per_second)
    <2>1. now' = now + 1 /\ Watched' = Watched /\ watched' = watched /\ now < MaxTime
        BY <1>2, <1>4 DEF Tick, Watched
    <2>2. now + 1 \in U64
        <3>1. now + 1 \in 0 .. MaxTime
            BY <2>1, TypeOKAt, LimitsAssumption, MathAssumption, SMT DEF U64
        <3>2. QED
            BY <3>1
    <2>3. MeterAt(Watched, now + 1, excess')
        BY <1>1, <1>2, <1>4, <2>2, MeterTicks
    <2>4. QED
        BY <1>1, <2>1, <2>3 DEF MeterInv
<1>5. ASSUME NEW amount \in U64, Outgoing(amount),
             Count(IF watched = "outbound" THEN amount ELSE -amount)
      PROVE  MeterInv'
    <2>1. now' = now /\ watched' = watched
        BY <1>2, <1>5 DEF Outgoing
    <2>2. CASE watched = "outbound"
        <3>1. /\ Watched = outbound /\ Watched' = outbound' /\ Admits(outbound, amount, now)
              /\ outbound' = Charged(outbound, amount, now)
            BY <1>5, <2>1, <2>2 DEF Watched, Outgoing
        <3>2. Counted(outbound, excess, amount, excess')
            BY <1>2, <1>5, <2>2, <3>1
        <3>3. MeterAt(outbound', now, excess')
            BY <1>1, <3>1, <3>2, MeterCharged
        <3>4. QED
            BY <1>1, <2>1, <3>1, <3>3 DEF MeterInv
    <2>3. CASE watched = "inbound"
        <3>1. /\ Watched = inbound /\ Watched' = inbound'
              /\ inbound' = Credited(inbound, amount, now)
            BY <1>5, <2>1, <2>3 DEF Watched, Outgoing
        <3>2. Counted(inbound, excess, -amount, excess')
            BY <1>2, <1>5, <2>3, <3>1
        <3>3. MeterAt(inbound', now, excess')
            BY <1>1, <3>1, <3>2, MeterCredited
        <3>4. QED
            BY <1>1, <2>1, <3>1, <3>3 DEF MeterInv
    <2>4. QED
        BY <1>1, <2>2, <2>3
<1>6. ASSUME NEW amount \in U64, Incoming(amount),
             Count(IF watched = "inbound" THEN amount ELSE -amount)
      PROVE  MeterInv'
    <2>1. now' = now /\ watched' = watched
        BY <1>2, <1>6 DEF Incoming
    <2>2. CASE watched = "inbound"
        <3>1. /\ Watched = inbound /\ Watched' = inbound' /\ Admits(inbound, amount, now)
              /\ inbound' = Charged(inbound, amount, now)
            BY <1>6, <2>1, <2>2 DEF Watched, Incoming
        <3>2. Counted(inbound, excess, amount, excess')
            BY <1>2, <1>6, <2>2, <3>1
        <3>3. MeterAt(inbound', now, excess')
            BY <1>1, <3>1, <3>2, MeterCharged
        <3>4. QED
            BY <1>1, <2>1, <3>1, <3>3 DEF MeterInv
    <2>3. CASE watched = "outbound"
        <3>1. /\ Watched = outbound /\ Watched' = outbound'
              /\ outbound' = Credited(outbound, amount, now)
            BY <1>6, <2>1, <2>3 DEF Watched, Incoming
        <3>2. Counted(outbound, excess, -amount, excess')
            BY <1>2, <1>6, <2>3, <3>1
        <3>3. MeterAt(outbound', now, excess')
            BY <1>1, <3>1, <3>2, MeterCredited
        <3>4. QED
            BY <1>1, <2>1, <3>1, <3>3 DEF MeterInv
    <2>4. QED
        BY <1>1, <2>2, <2>3
<1>7. ASSUME NEW direction, NEW params \in LimitChoices, CountSetting(direction, params),
             now' = now,
             watched = direction => Watched' = update_rate_limiter(Watched, params, now),
             watched # direction => Watched' = Watched
      PROVE  MeterInv'
    <2>1. watched' = watched /\ (excess' = 0 \/ Counted(Watched, excess, 0, excess'))
        BY <1>2, <1>7 DEF CountSetting, NewStretch
    <2>2. CASE watched = direction
        <3>1. Watched' = update_rate_limiter(Watched, params, now)
            BY <1>7, <2>1, <2>2
        <3>2. \/ excess' = 0
              \/ params # None /\ params.capacity = None /\ Counted(Watched, excess, 0, excess')
            BY <1>2, <1>7, <2>2 DEF CountSetting, NewStretch
        <3>3. MeterAt(Watched', now, excess')
            BY <1>1, <3>1, <3>2, MeterSet
        <3>4. QED
            BY <1>1, <1>7, <2>1, <3>3 DEF MeterInv
    <2>3. CASE watched # direction
        <3>1. Watched' = Watched
            BY <1>7, <2>1, <2>3
        <3>2. CASE excess' = 0
            BY <1>1, <1>7, <2>1, <3>1, <3>2, MeterRestarts DEF MeterInv
        <3>3. CASE Watched # None /\ excess' = excess + 0
            <4>1. excess \in Int
                BY <1>1 DEF MeterAt
            <4>2. excess' = excess
                BY <3>3, <4>1
            <4>3. QED
                BY <1>1, <1>7, <2>1, <3>1, <4>2 DEF MeterInv
        <3>4. QED
            BY <2>1, <3>2, <3>3 DEF Counted
    <2>4. QED
        BY <2>2, <2>3
<1>8. ASSUME NEW params \in LimitChoices, OutboundRateLimit(params),
             CountSetting("outbound", params)
      PROVE  MeterInv'
    <2>1. watched' = watched
        BY <1>2, <1>8 DEF CountSetting, NewStretch
    <2>2. /\ now' = now
          /\ watched = "outbound" => Watched' = update_rate_limiter(Watched, params, now)
          /\ watched # "outbound" => Watched' = Watched
        BY <1>8, <2>1 DEF OutboundRateLimit, Watched
    <2>3. QED
        BY <1>7, <1>8, <2>2
<1>9. ASSUME NEW params \in LimitChoices, InboundRateLimit(params),
             CountSetting("inbound", params)
      PROVE  MeterInv'
    <2>1. watched' = watched
        BY <1>2, <1>9 DEF CountSetting, NewStretch
    <2>2. /\ now' = now
          /\ watched = "inbound" => Watched' = update_rate_limiter(Watched, params, now)
          /\ watched # "inbound" => Watched' = Watched
        BY <1>1, <1>9, <2>1 DEF InboundRateLimit, Watched
    <2>3. QED
        BY <1>7, <1>9, <2>2
<1>10. QED
    BY <1>3, <1>4, <1>5, <1>6, <1>8, <1>9 DEF MeteredNext

\* The meter only looks on: with it, the limits take the same steps.
LEMMA MeterLooksOn == [MeteredNext]_meteredVars => [Next]_vars
BY DEF MeteredNext, Next, meteredVars

\* Over every stretch of time, what a limiter lets through exceeds what comes back
\* and what it earns by the second by no more than its capacity: for all capacities,
\* amounts and rates, however rarely it is refilled and whenever its rate changes.
THEOREM WindowAlwaysKept == MeteredSpec => []WindowKept
<1>1. MeteredInit => TypeOK /\ MeterInv
    <2>1. Init => TypeOK
        BY MathAssumption, LimitsAssumption, SMT DEF Init, TypeOK, LimiterOK, U64
    <2>2. MeteredInit => MeterInv
        BY DEF MeteredInit, Init, MeterInv, MeterAt, Watched
    <2>3. QED
        BY <2>1, <2>2 DEF MeteredInit
<1>2. TypeOK /\ MeterInv /\ [MeteredNext]_meteredVars => TypeOK' /\ MeterInv'
    BY MeterLooksOn, StepOfBoth, MeterStep
<1>3. TypeOK /\ MeterInv => WindowKept
    <2> SUFFICES ASSUME TypeOK, MeterInv, Watched # None PROVE excess <= Watched.capacity
        BY DEF WindowKept
    <2>1. LimiterAt(Watched, now) /\ now \in U64
        BY TypeOKAt, TimeFits DEF MeterInv, Watched
    <2>2. PICK l \in Limiter : l = Watched /\ l # None
        BY <2>1 DEF LimiterAt
    <2>3. Earned(l, now) \in Nat /\ l.capacity \in Nat /\ l.tokens \in Nat
        BY <2>1, EarnedNat, LimiterFields, MathAssumption, SMT DEF U64
    <2>4. BucketAt(l, now).level = l.capacity - Least(l.capacity, l.tokens + Earned(l, now))
        BY <2>1, <2>2, BucketValue
    <2>5. excess \in Int /\ excess <= BucketAt(l, now).level
        BY <2>2 DEF MeterInv, MeterAt
    <2>6. QED
        BY <2>2, <2>3, <2>4, <2>5, SMT DEF Least
<1>4. QED
    BY <1>1, <1>2, <1>3, PTL DEF MeteredSpec

\* No amount above 0 passes, at any time.
Closed(limiter) == \A t, amount \in U64 : Admits(limiter, amount, t) => amount = 0

\* A limiter without capacity is closed, whatever its rate earns.
LEMMA ZeroIsClosed ==
    ASSUME NEW l \in Limiter, l.capacity = 0, l # None
    PROVE  Closed(l)
<1> SUFFICES ASSUME NEW t \in U64, NEW amount \in U64, Admits(l, amount, t) PROVE amount = 0
    BY DEF Closed
<1>1. t \in Nat /\ amount \in Nat
    BY MathAssumption, SMT DEF U64
<1>2. refill(l, 0, t).tokens = Least(0, l.tokens + Earned(l, t)) /\ Earned(l, t) \in Nat
    BY <1>1, RefillNothing, EarnedNat
<1>3. refill(l, 0, t).tokens \in Int /\ refill(l, 0, t).tokens <= 0
    BY <1>2, LimiterFields, SMT DEF Least
<1>4. refill(l, 0, t).tokens >= amount
    BY DEF Admits, CanConsume
<1>5. QED
    BY <1>1, <1>3, <1>4, SMT

\* A first rate without a capacity makes such a limiter.
LEMMA RateAlone ==
    ASSUME NEW params \in LimitChoices, params # None, params.capacity = None,
           NEW s \in U64, NEW u, u = update_rate_limiter(None, params, s), u # None
    PROVE  u \in Limiter /\ u.capacity = 0
<1>1. 0 \in U64 /\ 0 \in Nat /\ LimiterAt(None, s)
    BY MathAssumption, SMT DEF U64, LimiterAt
<1>2. u \in Limiter
    BY <1>1, UpdateInstalls DEF LimiterAt
<1>3. DefaultLimiter \in Limiter /\ DefaultLimiter.capacity = 0
    BY <1>1 DEF DefaultLimiter, Limiter
<1>4. CASE params.refill_per_second = None
    BY <1>2, <1>3, <1>4 DEF update_rate_limiter
<1>5. CASE params.refill_per_second # None
    <2>1. PICK r \in Limiter : r = refill(DefaultLimiter, 0, s) /\ r.capacity = 0
        BY <1>1, <1>3, RefillValue
    <2>2. u = [r EXCEPT !.refill_per_second = params.refill_per_second]
        BY <1>5, <2>1 DEF update_rate_limiter, set_rate
    <2>3. QED
        BY <1>2, <2>1, <2>2 DEF Limiter
<1>6. QED
    BY <1>4, <1>5

\* What an admin who sets a rate where there is no limit, and forgets the capacity,
\* does: the direction is stopped, not limited.
FirstRateCloses ==
    \A params \in LimitChoices :
        params # None /\ params.capacity = None =>
            /\ outbound = None /\ OutboundRateLimit(params) /\ outbound' # None
                   => outbound'.capacity = 0 /\ Closed(outbound')
            /\ inbound = None /\ InboundRateLimit(params) /\ inbound' # None
                   => inbound'.capacity = 0 /\ Closed(inbound')

\* A rate without a capacity closes its direction, and every limiter of capacity 0
\* stays closed whatever it earns: for all rates, amounts and times.
THEOREM RateAloneCloses ==
    Spec => /\ [][FirstRateCloses]_vars
            /\ [](/\ outbound # None /\ outbound.capacity = 0 => Closed(outbound)
                  /\ inbound # None /\ inbound.capacity = 0 => Closed(inbound))
<1>1. ASSUME TypeOK PROVE FirstRateCloses
    <2>1. now \in U64
        BY <1>1, TimeFits DEF TypeOK
    <2>2. ASSUME NEW params \in LimitChoices, params # None, params.capacity = None,
                 NEW l, NEW u, l = None, u = update_rate_limiter(l, params, now), u # None
          PROVE  u.capacity = 0 /\ Closed(u)
        BY <2>1, <2>2, RateAlone, ZeroIsClosed
    <2>3. QED
        BY <2>2 DEF FirstRateCloses, OutboundRateLimit, InboundRateLimit
<1>2. TypeOK => /\ outbound # None /\ outbound.capacity = 0 => Closed(outbound)
                /\ inbound # None /\ inbound.capacity = 0 => Closed(inbound)
    BY ZeroIsClosed DEF TypeOK, LimiterOK
<1>3. TypeOK /\ [Next]_vars => [FirstRateCloses]_vars
    BY <1>1
<1>4. QED
    BY <1>2, <1>3, LimitsTypeCorrect, PTL DEF Spec
=============================================================================
