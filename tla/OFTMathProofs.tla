--------------------------- MODULE OFTMathProofs ---------------------------
(***************************************************************************)
(* What the amount arithmetic of OFTMath computes, for every rate, every   *)
(* fee and every amount, and what a sum over a finite set is.              *)
(***************************************************************************)
EXTENDS OFTMath, FiniteSetsExt, FiniteSetTheorems, TLAPS

\* Division and remainder by a positive divisor.
LEMMA DivMod ==
    ASSUME NEW a \in Int, NEW d \in Nat \ {0}
    PROVE  /\ a \div d \in Int
           /\ a % d \in 0 .. (d - 1)
           /\ a = d * (a \div d) + (a % d)
  BY SMT

\* Quotient and remainder are determined by that equation.
LEMMA DivUnique ==
    ASSUME NEW q \in Int, NEW d \in Nat \ {0}, NEW r \in 0 .. (d - 1)
    PROVE  (d * q + r) \div d = q /\ (d * q + r) % d = r
  BY SMT

\* Multiples of d are at least d apart.
LEMMA MultipleGap ==
    ASSUME NEW q \in Int, NEW k \in Int, NEW d \in Nat \ {0}, q >= k + 1
    PROVE  d * q >= d * k + d
  <1>1. d * (q - k - 1) >= 0
    BY SMT
  <1>2. d * q = d * (q - k - 1) + d * k + d
    BY SMT
  <1> QED
    BY <1>1, <1>2, SMT

\* A quotient is bounded as the number it divides is.
LEMMA DivBounds ==
    ASSUME NEW a \in Int, NEW d \in Nat \ {0}, NEW k \in Int
    PROVE  /\ a <= d * k => a \div d <= k
           /\ a >= d * k => a \div d >= k
           /\ a < d * k  => a \div d < k
  <1>1. PICK q \in Int : q = a \div d
    BY DivMod
  <1>2. PICK r \in 0 .. (d - 1) : a = d * q + r
    BY <1>1, DivMod
  <1>3. PICK dq \in Int : dq = d * q
    BY SMT
  <1>4. PICK dk \in Int : dk = d * k
    BY SMT
  <1>5. q >= k + 1 => dq >= dk + d
    BY <1>3, <1>4, MultipleGap
  <1>6. k >= q + 1 => dk >= dq + d
    BY <1>3, <1>4, MultipleGap
  <1>7. q = k => dq = dk
    BY <1>3, <1>4
  <1>8. /\ a <= dk => q <= k
        /\ a >= dk => q >= k
        /\ a < dk  => q < k
    <2>1. a = dq + r
      BY <1>2, <1>3
    <2> QED
      BY <2>1, <1>5, <1>6, <1>7, SMT
  <1> QED
    BY <1>1, <1>4, <1>8

\* remove_dust returns the largest multiple of the rate within the amount.
LEMMA RemoveDust ==
    ASSUME NEW amount \in Nat, NEW rate \in Nat \ {0}
    PROVE  /\ remove_dust(amount, rate) \in 0 .. amount
           /\ remove_dust(amount, rate) = rate * (amount \div rate)
           /\ remove_dust(amount, rate) % rate = 0
  <1>1. /\ amount \div rate \in Int
        /\ amount % rate \in 0 .. (rate - 1)
        /\ amount = rate * (amount \div rate) + (amount % rate)
    BY DivMod
  <1>2. remove_dust(amount, rate) = rate * (amount \div rate)
    BY <1>1, SMT DEF remove_dust
  <1>3. amount \div rate >= 0
    BY DivBounds, SMT
  <1>4. rate * (amount \div rate) >= 0
    BY <1>1, <1>3, SMT
  <1>5. (rate * (amount \div rate) + 0) % rate = 0
    BY <1>1, DivUnique
  <1>6. rate * (amount \div rate) + 0 = rate * (amount \div rate)
    BY <1>1, SMT
  <1> QED
    BY <1>1, <1>2, <1>4, <1>5, <1>6, SMT

\* A multiple of the rate survives the conversion to shared decimals.
LEMMA DustFreeRoundTrip ==
    ASSUME NEW amount \in Nat, NEW rate \in Nat \ {0}, amount % rate = 0
    PROVE  /\ ld2sd(amount, rate) \in Nat
           /\ sd2ld(ld2sd(amount, rate), rate) = amount
           /\ ld2sd(amount, rate) <= amount
  <1>1. /\ amount \div rate \in Int
        /\ amount = rate * (amount \div rate) + (amount % rate)
    BY DivMod
  <1>2. amount \div rate >= 0
    BY DivBounds, SMT
  <1>3. (amount \div rate) * rate = amount
    BY <1>1, SMT
  <1>4. amount \div rate <= amount
    BY <1>1, <1>2, <1>3, SMT
  <1> QED
    BY <1>1, <1>2, <1>3, <1>4, SMT DEF ld2sd, sd2ld
----------------------------------------------------------------------------
\* The fees: rounding up, and a fee that is part of the amount.

\* ceil_div rounds up.
LEMMA CeilBounds ==
    ASSUME NEW n \in Nat, NEW d \in Nat \ {0}, NEW k \in Int
    PROVE  /\ ceil_div(n, d) \in Nat
           /\ n <= d * k => ceil_div(n, d) <= k
           /\ n >= d * k => ceil_div(n, d) >= k
           /\ n > d * k  => ceil_div(n, d) > k
  <1>1. PICK q \in Int : q = ceil_div(n, d)
    BY DivMod, SMT DEF ceil_div
  <1>2. PICK a \in Int : a = n + d - 1
    BY SMT
  <1>3. q = a \div d
    BY <1>1, <1>2, SMT DEF ceil_div
  <1>4. q >= 0
    BY <1>2, <1>3, DivBounds, SMT
  <1>5. PICK dk \in Int : dk = d * k
    BY SMT
  <1>6. d * (k + 1) = dk + d
    BY <1>5, SMT
  <1>7. n <= dk => q <= k
    <2>1. a < d * (k + 1) => q < k + 1
      BY <1>2, <1>3, DivBounds
    <2> QED
      BY <1>1, <1>2, <1>5, <1>6, <2>1, SMT
  <1>8. n >= dk => q >= k
    <2>1. a >= d * k => q >= k
      BY <1>2, <1>3, DivBounds
    <2> QED
      BY <1>1, <1>2, <1>5, <2>1, SMT
  <1>9. n > dk => q > k
    <2>1. a >= d * (k + 1) => q >= k + 1
      BY <1>2, <1>3, DivBounds
    <2> QED
      BY <1>1, <1>2, <1>5, <1>6, <2>1, SMT
  <1> QED
    BY <1>1, <1>4, <1>5, <1>7, <1>8, <1>9, SMT

\* The cross-chain fee is a part of the amount: calculate_fee never exceeds it.
LEMMA FeeWithinAmount ==
    ASSUME NEW amount \in Nat, NEW bps \in OftFeeBps
    PROVE  calculate_fee(amount, bps) \in 0 .. amount
  <1> USE MathAssumption
  <1>1. amount * bps \in Nat /\ amount * bps <= MAX_FEE_BASIS_POINTS * amount
    BY SMT DEF OftFeeBps
  <1>2. (amount * bps) \div MAX_FEE_BASIS_POINTS <= amount
    BY <1>1, DivBounds, SMT
  <1>3. (amount * bps) \div MAX_FEE_BASIS_POINTS >= 0
    BY <1>1, DivBounds, SMT
  <1>4. (amount * bps) \div MAX_FEE_BASIS_POINTS \in Int
    BY <1>1, DivMod, SMT
  <1> QED
    BY <1>2, <1>3, <1>4, SMT DEF calculate_fee
----------------------------------------------------------------------------
\* The transfer fee without its maximum.  One whole is M basis points, the
\* rate is b < M.

\* The amounts of which at least y is left are those from ceil(yM / (M - b)) on.
LEMMA KeptIff ==
    ASSUME NEW M \in Nat \ {0}, NEW b \in 0 .. (M - 1), NEW y \in Nat, NEW a \in Nat
    PROVE  a - ceil_div(a * b, M) >= y <=> a >= ceil_div(y * M, M - b)
  <1>1. PICK ab \in Nat : ab = a * b
    BY SMT
  <1>2. PICK aM \in Nat : aM = M * a
    BY SMT
  <1>3. PICK yM \in Nat : yM = y * M
    BY SMT
  <1>4. M * (a - y) = aM - yM
    BY <1>2, <1>3, SMT
  <1>5. (M - b) * a = aM - ab
    BY <1>1, <1>2, SMT
  <1>6. M - b \in Nat \ {0}
    BY SMT
  <1>7. ceil_div(ab, M) <= a - y <=> ab <= aM - yM
    <2>1. PICK c \in Nat : c = ceil_div(ab, M)
      BY CeilBounds, SMT
    <2>2. a - y \in Int
      BY SMT
    <2>3. (ab <= aM - yM => c <= a - y) /\ (ab > aM - yM => c > a - y)
      BY <2>1, <2>2, <1>4, CeilBounds
    <2> QED
      BY <2>1, <2>3, SMT
  <1>8. ceil_div(yM, M - b) <= a <=> yM <= aM - ab
    <2>1. PICK x \in Nat : x = ceil_div(yM, M - b)
      BY <1>6, CeilBounds, SMT
    <2>2. (yM <= aM - ab => x <= a) /\ (yM > aM - ab => x > a)
      BY <2>1, <1>5, <1>6, CeilBounds, SMT
    <2> QED
      BY <2>1, <2>2, SMT
  <1>9. ceil_div(ab, M) \in Nat /\ ceil_div(yM, M - b) \in Nat
    BY <1>6, CeilBounds, SMT
  <1> QED
    BY <1>1, <1>3, <1>7, <1>8, <1>9, SMT

\* And of the first of them exactly y is left.
LEMMA KeptExact ==
    ASSUME NEW M \in Nat \ {0}, NEW b \in 0 .. (M - 1), NEW y \in Nat
    PROVE  LET x == ceil_div(y * M, M - b)
           IN x \in Nat /\ x - ceil_div(x * b, M) = y
  <1>1. M - b \in Nat \ {0} /\ y * M \in Nat
    BY SMT
  <1>2. PICK x \in Nat : x = ceil_div(y * M, M - b)
    BY <1>1, CeilBounds, SMT
  <1>3. PICK xb \in Nat : xb = x * b
    BY SMT
  <1>4. PICK c \in Nat : c = ceil_div(xb, M)
    BY CeilBounds, SMT
  <1>5. x - c >= y
    <2>1. x - ceil_div(x * b, M) >= y <=> x >= ceil_div(y * M, M - b)
      BY KeptIff
    <2>2. x >= x
      BY SMT
    <2> QED
      BY <1>2, <1>3, <1>4, <2>1, <2>2
  <1>6. x - c <= y
    <2>1. PICK xM \in Nat : xM = M * x
      BY SMT
    <2>2. PICK yM \in Nat : yM = y * M
      BY SMT
    <2>3. (M - b) * (x - 1) = xM - xb - M + b
      BY <2>1, <1>3, SMT
    <2>4. yM > xM - xb - M + b
      <3>1. yM <= (M - b) * (x - 1) => x <= x - 1
        BY <1>1, <1>2, <2>2, CeilBounds, SMT
      <3> QED
        BY <3>1, <2>3, SMT
    <2>5. M * (x - y - 1) = xM - yM - M
      BY <2>1, <2>2, SMT
    <2>6. xb > M * (x - y - 1)
      BY <2>4, <2>5, SMT
    <2>7. c > x - y - 1
      <3>1. x - y - 1 \in Int
        BY SMT
      <3> QED
        BY <1>4, <2>6, <3>1, CeilBounds
    <2> QED
      BY <2>7, SMT
  <1> QED
    BY <1>2, <1>3, <1>4, <1>5, <1>6, SMT
----------------------------------------------------------------------------
\* The transfer fee with its maximum.

\* The token program never withholds more than the amount.
LEMMA PostFeeBounds ==
    ASSUME NEW tf \in TransferFee, NEW a \in Nat
    PROVE  get_post_fee_amount_ld(tf, a) \in 0 .. a
  <1> USE MathAssumption
  <1>1. tf.bps \in 0 .. MAX_FEE_BASIS_POINTS /\ tf.max \in Nat
    BY SMT DEF TransferFee, U64
  <1>2. PICK ab \in Nat : ab = a * tf.bps
    BY <1>1, SMT
  <1>3. ab <= MAX_FEE_BASIS_POINTS * a
    BY <1>1, <1>2, SMT
  <1>4. PICK c \in Nat : c = ceil_div(ab, MAX_FEE_BASIS_POINTS)
    BY CeilBounds, SMT
  <1>5. c <= a
    BY <1>3, <1>4, CeilBounds, SMT
  <1> QED
    BY <1>1, <1>2, <1>4, <1>5, SMT DEF get_post_fee_amount_ld, TransferFeeOf, Least

\* calculate_pre_fee_amount inverts the transfer fee exactly, and returns the
\* least amount that does.
LEMMA PreFeeInverts ==
    ASSUME NEW tf \in TransferFee, NEW y \in Nat
    PROVE  /\ calculate_pre_fee_amount(tf, y) \in Nat
           /\ get_post_fee_amount_ld(tf, calculate_pre_fee_amount(tf, y)) = y
           /\ \A a \in Nat : get_post_fee_amount_ld(tf, a) >= y =>
                               a >= calculate_pre_fee_amount(tf, y)
  <1> DEFINE M == MAX_FEE_BASIS_POINTS
             C(a) == ceil_div(a * tf.bps, M)
             Post(a) == get_post_fee_amount_ld(tf, a)
             Pre == calculate_pre_fee_amount(tf, y)
  <1>1. M \in Nat \ {0} /\ tf.bps \in 0 .. M /\ tf.max \in Nat
    BY MathAssumption, SMT DEF TransferFee, U64
  <1>2. \A a \in Nat : /\ C(a) \in Nat
                       /\ Post(a) = IF tf.max <= C(a) THEN a - tf.max ELSE a - C(a)
    <2> TAKE a \in Nat
    <2>1. a * tf.bps \in Nat
      BY <1>1, SMT
    <2>2. C(a) \in Nat
      BY <1>1, <2>1, CeilBounds
    <2> QED
      BY <1>1, <2>2, SMT DEF get_post_fee_amount_ld, TransferFeeOf, Least
  <1>3. CASE tf.bps = 0
    <2>1. \A a \in Nat : C(a) = 0
      <3> TAKE a \in Nat
      <3>1. a * tf.bps = 0 /\ M * 0 = 0
        BY <1>1, <1>3, SMT
      <3>2. ceil_div(0, M) <= 0
        BY <1>1, <3>1, CeilBounds, SMT
      <3> QED
        BY <1>2, <3>1, <3>2, SMT
    <2>2. Pre = y
      BY <1>3 DEF calculate_pre_fee_amount
    <2> HIDE DEF C, Post, Pre, M
    <2>3. Pre \in Nat /\ Post(Pre) = y /\ \A a \in Nat : Post(a) >= y => a >= Pre
      BY <1>1, <1>2, <2>1, <2>2, SMT
    <2> QED
      BY <2>3 DEF Post, Pre
  <1>4. CASE y = 0
    <2>1. Pre = 0
      BY <1>4, SMT DEF calculate_pre_fee_amount
    <2>2. Post(0) = 0
      BY PostFeeBounds, SMT
    <2> QED
      BY <1>4, <2>1, <2>2, SMT
  <1>5. CASE y # 0 /\ tf.bps # 0 /\ tf.bps = M
    <2>1. \A a \in Nat : C(a) = a
      <3> TAKE a \in Nat
      <3>1. PICK n \in Nat : n = a * tf.bps /\ n = M * a
        BY <1>1, <1>5, SMT
      <3>2. n <= M * a /\ n >= M * a
        BY <3>1, SMT
      <3>3. ceil_div(n, M) <= a /\ ceil_div(n, M) >= a
        BY <1>1, <3>2, CeilBounds
      <3> QED
        BY <1>2, <3>1, <3>3, SMT
    <2>2. Pre = tf.max + y
      BY <1>5 DEF calculate_pre_fee_amount
    <2> HIDE DEF C, Post, Pre, M
    <2>3. Pre \in Nat /\ Post(Pre) = y /\ \A a \in Nat : Post(a) >= y => a >= Pre
      BY <1>1, <1>2, <1>5, <2>1, <2>2, SMT
    <2> QED
      BY <2>3 DEF Post, Pre
  <1>6. CASE y # 0 /\ tf.bps # 0 /\ tf.bps # M
    <2>1. tf.bps \in 0 .. (M - 1)
      BY <1>1, <1>6, SMT
    <2>2. PICK x \in Nat : x = ceil_div(y * M, M - tf.bps) /\ x - C(x) = y
      BY <1>1, <2>1, KeptExact
    <2>3. \A a \in Nat : a - C(a) >= y <=> a >= x
      BY <1>1, <2>1, <2>2, KeptIff
    <2>4. Pre = IF x - y >= tf.max THEN y + tf.max ELSE x
      BY <1>6, <2>2 DEF calculate_pre_fee_amount
    <2> HIDE DEF C, Post, Pre, M
    <2>5. CASE x - y >= tf.max
      <3>1. Pre = y + tf.max /\ Pre \in Nat
        BY <1>1, <2>4, <2>5, SMT
      <3>2. C(Pre) >= tf.max
        BY <1>1, <1>2, <2>2, <2>3, <2>5, <3>1, SMT
      <3>3. Post(Pre) = y
        BY <1>1, <1>2, <3>1, <3>2, SMT
      <3>4. \A a \in Nat : Post(a) >= y => a >= Pre
        BY <1>1, <1>2, <2>3, <2>5, <3>1, SMT
      <3> QED
        BY <3>1, <3>3, <3>4 DEF Post, Pre
    <2>6. CASE ~(x - y >= tf.max)
      <3>1. Pre = x /\ Pre \in Nat
        BY <2>4, <2>6
      <3>2. Post(Pre) = y
        BY <1>1, <1>2, <2>2, <2>6, <3>1, SMT
      <3>3. \A a \in Nat : Post(a) >= y => a >= Pre
        BY <1>1, <1>2, <2>2, <2>3, <2>6, <3>1, SMT
      <3> QED
        BY <3>1, <3>2, <3>3 DEF Post, Pre
    <2> QED
      BY <2>5, <2>6
  <1> QED
    BY <1>3, <1>4, <1>5, <1>6
----------------------------------------------------------------------------
(***************************************************************************)
(* compute_fee_and_adjust_amount, whatever the rate, the fees and the      *)
(* amount: it delivers and retains whole units of shared decimals, takes   *)
(* no more than was asked, and for an Adapter puts exactly the delivered   *)
(* amount and the retained fee in the escrow.                              *)
(***************************************************************************)

\* What is left of a multiple of the rate when the dust-free fee is taken off
\* is a multiple of the rate.
LEMMA DustFreeDifference ==
    ASSUME NEW gross \in Nat, NEW fee \in 0 .. gross, NEW rate \in Nat \ {0},
           gross % rate = 0, fee % rate = 0
    PROVE  gross - fee \in Nat /\ (gross - fee) % rate = 0
  <1>0. \A n \in Int : n % rate = 0 => \E q \in Int : n = rate * q
    <2> TAKE n \in Int
    <2> HAVE n % rate = 0
    <2>1. n \div rate \in Int /\ n = rate * (n \div rate) + (n % rate)
      BY DivMod
    <2>2. n = rate * (n \div rate)
      BY <2>1, SMT
    <2> QED
      BY <2>1, <2>2
  <1>1. gross \in Int /\ fee \in Int
    BY SMT
  <1>2. PICK g \in Int, f \in Int : gross = rate * g /\ fee = rate * f
    BY <1>0, <1>1
  <1>3. gross - fee = rate * (g - f) + 0
    BY <1>2, SMT
  <1>4. 0 \in 0 .. (rate - 1) /\ g - f \in Int
    BY SMT
  <1>5. (rate * (g - f) + 0) % rate = 0
    BY <1>4, DivUnique
  <1> QED
    BY <1>3, <1>5, SMT

\* The Adapter branch of compute_fee_and_adjust_amount: it never asks the
\* sender for more than amount_ld, delivers whole shared-decimal units, and the
\* transfer it asks for is the least that brings received + fee to the escrow.
THEOREM AdapterAmountsCorrect ==
    ASSUME NEW rate \in Nat \ {0}, NEW bps \in OftFeeBps, NEW tf \in TransferFee,
           NEW amount \in Nat
    PROVE  LET r == AdapterAmounts(rate, bps, tf, amount)
           IN /\ r.sent \in 0 .. amount /\ r.received \in Nat /\ r.fee \in Nat
              /\ r.received + r.fee <= r.sent
              /\ r.received % rate = 0
              /\ get_post_fee_amount_ld(tf, r.sent) = r.received + r.fee
              /\ \A a \in Nat : get_post_fee_amount_ld(tf, a) >= r.received + r.fee =>
                                  a >= r.sent
  <1> DEFINE r == AdapterAmounts(rate, bps, tf, amount)
  <1>1. PICK post \in 0 .. amount : post = get_post_fee_amount_ld(tf, amount)
    BY PostFeeBounds
  <1>2. PICK gross \in 0 .. post : gross = remove_dust(post, rate) /\ gross % rate = 0
    BY RemoveDust, SMT
  <1>3. PICK cut \in 0 .. gross : cut = calculate_fee(gross, bps)
    BY FeeWithinAmount, SMT
  <1>4. PICK fee \in 0 .. cut : fee = remove_dust(cut, rate) /\ fee % rate = 0
    BY RemoveDust, SMT
  <1>5. gross \in Nat /\ fee \in 0 .. gross
    BY SMT
  <1>6. PICK pre \in Nat :
           /\ pre = calculate_pre_fee_amount(tf, gross)
           /\ get_post_fee_amount_ld(tf, pre) = gross
           /\ amount >= pre
           /\ \A a \in Nat : get_post_fee_amount_ld(tf, a) >= gross => a >= pre
    <2>1. get_post_fee_amount_ld(tf, amount) >= gross
      BY <1>1, SMT
    <2> QED
      BY <1>5, <2>1, PreFeeInverts
  <1>7. gross <= pre
    BY <1>6, PostFeeBounds, SMT
  <1>8. gross - fee \in Nat /\ (gross - fee) % rate = 0
    BY <1>2, <1>4, <1>5, DustFreeDifference
  <1>9. r = [sent |-> pre, received |-> gross - fee, fee |-> fee]
    BY <1>1, <1>2, <1>3, <1>4, <1>6 DEF AdapterAmounts
  <1>10. r.sent = pre /\ r.received = gross - fee /\ r.fee = fee
    BY <1>9
  <1> HIDE DEF r
  <1>11. /\ r.sent \in 0 .. amount /\ r.received \in Nat /\ r.fee \in Nat
         /\ r.received + r.fee <= r.sent
         /\ r.received + r.fee = gross
    BY <1>5, <1>6, <1>7, <1>8, <1>10, SMT
  <1>12. /\ r.received % rate = 0
         /\ get_post_fee_amount_ld(tf, r.sent) = r.received + r.fee
         /\ \A a \in Nat : get_post_fee_amount_ld(tf, a) >= r.received + r.fee => a >= r.sent
    BY <1>6, <1>8, <1>10, <1>11
  <1> QED
    BY <1>11, <1>12 DEF r

\* The Native branch of compute_fee_and_adjust_amount: what is burnt and what
\* is kept as fee make up what the sender gives, in whole shared-decimal units.
THEOREM NativeAmountsCorrect ==
    ASSUME NEW rate \in Nat \ {0}, NEW bps \in OftFeeBps, NEW amount \in Nat
    PROVE  LET r == NativeAmounts(rate, bps, amount)
           IN /\ r.sent \in 0 .. amount /\ r.received \in Nat /\ r.fee \in Nat
              /\ r.received + r.fee = r.sent
              /\ r.received % rate = 0
  <1> DEFINE r == NativeAmounts(rate, bps, amount)
  <1>1. PICK sent \in 0 .. amount : sent = remove_dust(amount, rate) /\ sent % rate = 0
    BY RemoveDust
  <1>2. PICK cut \in 0 .. sent : cut = calculate_fee(sent, bps)
    BY FeeWithinAmount, SMT
  <1>3. PICK fee \in 0 .. cut : fee = remove_dust(cut, rate) /\ fee % rate = 0
    BY RemoveDust, SMT
  <1>4. sent - fee \in Nat /\ (sent - fee) % rate = 0
    BY <1>1, <1>3, DustFreeDifference, SMT
  <1>5. r = [sent |-> sent, received |-> sent - fee, fee |-> fee]
    BY <1>1, <1>2, <1>3 DEF NativeAmounts
  <1>6. r.sent = sent /\ r.received = sent - fee /\ r.fee = fee
    BY <1>5
  <1> HIDE DEF r
  <1>7. /\ r.sent \in 0 .. amount /\ r.received \in Nat /\ r.fee \in Nat
        /\ r.received + r.fee = r.sent
    BY <1>4, <1>6, SMT
  <1> QED
    BY <1>4, <1>6, <1>7 DEF r

\* Both OFT types at once.
THEOREM AmountsCorrect ==
    ASSUME NEW type \in OFTType, NEW rate \in Nat \ {0}, NEW bps \in OftFeeBps,
           NEW tf \in TransferFee, NEW amount \in Nat
    PROVE  LET r == compute_fee_and_adjust_amount(type, rate, bps, tf, amount)
           IN /\ r.sent \in 0 .. amount /\ r.received \in Nat /\ r.fee \in Nat
              /\ r.received + r.fee <= r.sent
              /\ r.received % rate = 0
              /\ type = "Native" => r.received + r.fee = r.sent
              /\ type = "Adapter" =>
                    /\ get_post_fee_amount_ld(tf, r.sent) = r.received + r.fee
                    /\ \A a \in Nat : get_post_fee_amount_ld(tf, a) >= r.received + r.fee =>
                                        a >= r.sent
  <1>1. CASE type = "Adapter"
    BY <1>1, AdapterAmountsCorrect DEF compute_fee_and_adjust_amount
  <1>2. CASE type = "Native"
    <2> DEFINE r == NativeAmounts(rate, bps, amount)
    <2>1. /\ r.sent \in 0 .. amount /\ r.received \in Nat /\ r.fee \in Nat
          /\ r.received + r.fee = r.sent
          /\ r.received % rate = 0
      BY NativeAmountsCorrect
    <2>2. r = compute_fee_and_adjust_amount(type, rate, bps, tf, amount)
      BY <1>2 DEF compute_fee_and_adjust_amount
    <2> HIDE DEF r
    <2>3. r.received + r.fee <= r.sent
      BY <2>1, SMT
    <2> QED
      BY <1>2, <2>1, <2>2, <2>3
  <1> QED
    BY <1>1, <1>2 DEF OFTType
----------------------------------------------------------------------------
\* Monotonicity.

\* A quotient grows with the number divided.
LEMMA DivMonotone ==
    ASSUME NEW a \in Nat, NEW b \in Nat, a <= b, NEW d \in Nat \ {0}
    PROVE  a \div d \in Nat /\ b \div d \in Nat /\ a \div d <= b \div d
  <1>1. PICK k \in Int : k = b \div d
    BY DivMod
  <1>2. PICK q \in Int : q = a \div d
    BY DivMod
  <1>3. b < d * (k + 1)
    <2>1. b = d * k + (b % d) /\ b % d \in 0 .. (d - 1)
      BY <1>1, DivMod
    <2>2. d * (k + 1) = d * k + d
      BY SMT
    <2> QED
      BY <2>1, <2>2, SMT
  <1>4. q < k + 1
    <2>1. k + 1 \in Int /\ a < d * (k + 1)
      BY <1>3, SMT
    <2>2. a \div d < k + 1
      BY <2>1, DivBounds
    <2> QED
      BY <1>2, <2>2
  <1>5. q >= 0 /\ k >= 0
    <2>1. a >= d * 0 /\ b >= d * 0
      BY SMT
    <2>2. a \div d >= 0 /\ b \div d >= 0
      BY <2>1, DivBounds, SMT
    <2> QED
      BY <1>1, <1>2, <2>2
  <1> QED
    BY <1>1, <1>2, <1>4, <1>5, SMT

\* So does an amount without its dust.
LEMMA DustMonotone ==
    ASSUME NEW a \in Nat, NEW b \in Nat, a <= b, NEW rate \in Nat \ {0}
    PROVE  remove_dust(a, rate) <= remove_dust(b, rate)
  <1>1. PICK q \in Nat, k \in Nat : q = a \div rate /\ k = b \div rate /\ q <= k
    BY DivMonotone
  <1>2. rate * q <= rate * k
    BY <1>1, SMT
  <1> QED
    BY <1>1, <1>2, RemoveDust

\* A transfer fee never grows by more than the amount does.
LEMMA PostFeeMonotone ==
    ASSUME NEW tf \in TransferFee, NEW a \in Nat, NEW b \in Nat, a <= b
    PROVE  get_post_fee_amount_ld(tf, a) <= get_post_fee_amount_ld(tf, b)
  <1> DEFINE M == MAX_FEE_BASIS_POINTS
  <1>1. M \in Nat \ {0} /\ tf.bps \in Nat /\ tf.bps <= M /\ tf.max \in Nat
    BY MathAssumption, SMT DEF TransferFee, U64
  <1> HIDE DEF M
  <1>2. PICK d \in Nat : d = b - a
    BY SMT
  <1>3. PICK ab \in Nat, bb \in Nat, db \in Nat :
           ab = a * tf.bps /\ bb = b * tf.bps /\ db = d * tf.bps
    BY <1>1, SMT
  <1>4. bb = ab + db /\ db <= M * d
    <2>1. b = a + d
      BY <1>2, SMT
    <2>2. b * tf.bps = a * tf.bps + d * tf.bps
      BY <1>1, <2>1, SMT
    <2>3. d * tf.bps <= M * d
      BY <1>1, SMT
    <2> QED
      BY <1>3, <2>2, <2>3
  <1>5. PICK ca \in Nat, cb \in Nat : ca = ceil_div(ab, M) /\ cb = ceil_div(bb, M)
    <2>1. PICK z \in Int : z = 0
      OBVIOUS
    <2>2. ceil_div(ab, M) \in Nat
      BY <1>1, <2>1, CeilBounds
    <2>3. ceil_div(bb, M) \in Nat
      BY <1>1, <2>1, CeilBounds
    <2> QED
      BY <2>2, <2>3
  <1>6. ab <= M * ca
    <2>1. ab > M * ca => ceil_div(ab, M) > ca
      BY <1>1, CeilBounds
    <2>2. M * ca \in Nat
      BY <1>1, SMT
    <2> QED
      BY <1>5, <2>1, <2>2, SMT
  <1>7. cb <= ca + d
    <2>1. M * (ca + d) = M * ca + M * d
      BY <1>1, SMT
    <2>2. M * ca \in Nat /\ M * d \in Nat
      BY <1>1, SMT
    <2>3. bb <= M * (ca + d) /\ ca + d \in Int
      BY <1>4, <1>6, <2>1, <2>2, SMT
    <2> QED
      BY <1>1, <1>5, <2>3, CeilBounds
  <1>8. a - Least(tf.max, ca) <= b - Least(tf.max, cb)
    BY <1>1, <1>2, <1>7, SMT DEF Least
  <1> QED
    BY <1>3, <1>5, <1>8 DEF get_post_fee_amount_ld, TransferFeeOf, M

\* Of a larger amount free of dust, at least as much is left by the cross-chain
\* fee, although the fee loses its dust.
LEMMA AfterFeeMonotone ==
    ASSUME NEW g \in Nat, NEW h \in Nat, g <= h, NEW rate \in Nat \ {0},
           g % rate = 0, h % rate = 0, NEW bps \in OftFeeBps
    PROVE  g - remove_dust(calculate_fee(g, bps), rate)
               <= h - remove_dust(calculate_fee(h, bps), rate)
  <1> DEFINE M == MAX_FEE_BASIS_POINTS
  <1>1. M \in Nat \ {0} /\ bps \in Nat /\ bps <= M
    BY MathAssumption, SMT DEF OftFeeBps
  <1>2. PICK fg \in Nat, fh \in Nat : fg = calculate_fee(g, bps) /\ fh = calculate_fee(h, bps)
    BY FeeWithinAmount, SMT
  <1> HIDE DEF M
  <1>3. PICK n \in Nat : h - g = rate * n
    <2>1. g = rate * (g \div rate) /\ h = rate * (h \div rate)
      BY DivMod, SMT
    <2>2. PICK q \in Nat, k \in Nat : q = g \div rate /\ k = h \div rate /\ q <= k
      BY DivMonotone
    <2>3. PICK m \in Nat : m = k - q
      <3>1. k - q \in Nat
        BY <2>2, SMT
      <3> QED
        BY <3>1
    <2>4. rate * k = rate * q + rate * m
      BY <2>3, SMT
    <2>5. h - g = rate * m
      BY <2>1, <2>2, <2>4, SMT
    <2> QED
      BY <2>5
  <1>4. fh <= fg + rate * n
    <2>1. PICK d \in Nat : d = rate * n
      BY SMT
    <2>2. h = g + d
      BY <1>3, <2>1, SMT
    <2>3. PICK gb \in Nat, hb \in Nat, db \in Nat :
             gb = g * bps /\ hb = h * bps /\ db = d * bps
      BY <1>1, SMT
    <2>4. hb = gb + db /\ db <= M * d
      <3>1. h * bps = g * bps + d * bps
        BY <1>1, <2>2, SMT
      <3>2. d * bps <= M * d
        BY <1>1, SMT
      <3> QED
        BY <2>3, <3>1, <3>2
    <2>5. fg = gb \div M /\ fh = hb \div M
      BY <1>2, <2>3 DEF calculate_fee, M
    <2>6. gb < M * (fg + 1)
      <3>1. gb = M * fg + (gb % M) /\ gb % M \in 0 .. (M - 1)
        BY <1>1, <2>5, DivMod
      <3>2. M * (fg + 1) = M * fg + M
        BY <1>1, SMT
      <3> QED
        BY <1>1, <3>1, <3>2, SMT
    <2>7. M * (fg + 1 + d) = M * (fg + 1) + M * d
      BY <1>1, SMT
    <2>8. hb < M * (fg + 1 + d)
      BY <1>1, <2>4, <2>6, <2>7, SMT
    <2>9. hb \div M < fg + 1 + d
      <3>1. fg + 1 + d \in Int
        BY SMT
      <3> QED
        BY <1>1, <2>8, <3>1, DivBounds
    <2> QED
      BY <2>1, <2>5, <2>9, SMT
  <1>5. remove_dust(fh, rate) <= remove_dust(fg, rate) + rate * n
    <2>1. PICK q \in Nat, r \in 0 .. (rate - 1) : fg = rate * q + r /\ q = fg \div rate
      <3>1. fg <= fg /\ fg \in Int
        BY SMT
      <3>2. fg \div rate \in Nat
        BY <3>1, DivMonotone
      <3>3. fg % rate \in 0 .. (rate - 1) /\ fg = rate * (fg \div rate) + (fg % rate)
        BY <3>1, DivMod
      <3> QED
        BY <3>2, <3>3
    <2>2. PICK s \in Nat : s = fg + rate * n
      BY SMT
    <2>3. rate * (q + n) = rate * q + rate * n
      BY SMT
    <2>4. s = rate * (q + n) + r
      <3>1. PICK rq \in Nat : rq = rate * q
        BY SMT
      <3>2. PICK rn \in Nat : rn = rate * n
        BY SMT
      <3>3. s = rq + rn + r
        BY <2>1, <2>2, <3>1, <3>2, SMT
      <3> QED
        BY <2>3, <3>1, <3>2, <3>3
    <2>5. s \div rate = q + n
      <3>1. q + n \in Int
        BY SMT
      <3> QED
        BY <2>4, <3>1, DivUnique
    <2>6. remove_dust(s, rate) = rate * q + rate * n
      BY <2>3, <2>5, RemoveDust
    <2>7. remove_dust(fh, rate) <= remove_dust(s, rate)
      BY <1>4, <2>2, DustMonotone
    <2>8. remove_dust(fg, rate) = rate * q
      BY <2>1, RemoveDust
    <2> QED
      BY <2>6, <2>7, <2>8
  <1>6. remove_dust(fg, rate) \in Nat /\ remove_dust(fh, rate) \in Nat /\ rate * n \in Nat
    <2>1. remove_dust(fg, rate) \in 0 .. fg
      BY RemoveDust
    <2>2. remove_dust(fh, rate) \in 0 .. fh
      BY RemoveDust
    <2>3. rate * n \in Nat
      BY SMT
    <2> QED
      BY <2>1, <2>2, <2>3, SMT
  <1>7. g - remove_dust(fg, rate) <= h - remove_dust(fh, rate)
    BY <1>3, <1>5, <1>6, SMT
  <1> QED
    BY <1>2, <1>7

\* Of two amounts, the larger one sends and delivers at least as much.
THEOREM AmountsMonotone ==
    ASSUME NEW type \in OFTType, NEW rate \in Nat \ {0}, NEW bps \in OftFeeBps,
           NEW tf \in TransferFee, NEW a \in Nat, NEW b \in Nat, a <= b
    PROVE  LET r == compute_fee_and_adjust_amount(type, rate, bps, tf, a)
               s == compute_fee_and_adjust_amount(type, rate, bps, tf, b)
           IN r.sent <= s.sent /\ r.received <= s.received
  <1>1. ASSUME NEW g \in Nat, NEW h \in Nat, g <= h
        PROVE  /\ remove_dust(g, rate) \in Nat /\ remove_dust(h, rate) \in Nat
               /\ remove_dust(g, rate) <= remove_dust(h, rate)
               /\ remove_dust(g, rate) % rate = 0 /\ remove_dust(h, rate) % rate = 0
    <2>1. remove_dust(g, rate) \in 0 .. g /\ remove_dust(g, rate) % rate = 0
      BY RemoveDust
    <2>2. remove_dust(h, rate) \in 0 .. h /\ remove_dust(h, rate) % rate = 0
      BY RemoveDust
    <2>3. remove_dust(g, rate) <= remove_dust(h, rate)
      BY <1>1, DustMonotone
    <2>4. remove_dust(g, rate) \in Nat /\ remove_dust(h, rate) \in Nat
      BY <2>1, <2>2, SMT
    <2> QED
      BY <2>1, <2>2, <2>3, <2>4
  <1>2. CASE type = "Native"
    BY <1>1, <1>2, AfterFeeMonotone DEF compute_fee_and_adjust_amount, NativeAmounts
  <1>3. CASE type = "Adapter"
    <2>1. PICK p \in Nat, q \in Nat :
             p = get_post_fee_amount_ld(tf, a) /\ q = get_post_fee_amount_ld(tf, b) /\ p <= q
      BY PostFeeBounds, PostFeeMonotone, SMT
    <2>2. PICK g \in Nat, h \in Nat :
             /\ g = remove_dust(p, rate) /\ h = remove_dust(q, rate) /\ g <= h
             /\ g % rate = 0 /\ h % rate = 0
      BY <1>1, <2>1
    <2>3. calculate_pre_fee_amount(tf, g) <= calculate_pre_fee_amount(tf, h)
      <3>1. PICK x \in Nat : x = calculate_pre_fee_amount(tf, h)
                             /\ get_post_fee_amount_ld(tf, x) = h
        BY PreFeeInverts
      <3>2. get_post_fee_amount_ld(tf, x) >= g
        BY <2>2, <3>1
      <3>3. x >= calculate_pre_fee_amount(tf, g) /\ calculate_pre_fee_amount(tf, g) \in Nat
        BY <3>2, PreFeeInverts
      <3> QED
        BY <3>1, <3>3, SMT
    <2> QED
      BY <1>3, <2>1, <2>2, <2>3, AfterFeeMonotone DEF compute_fee_and_adjust_amount, AdapterAmounts
  <1> QED
    BY <1>2, <1>3 DEF OFTType
----------------------------------------------------------------------------
\* Sums over finite sets.  MapThenSumSet is a recursion over the subsets of its
\* set; what it computes follows from the well-founded order of those subsets.

\* The element that a sum takes out of a set next.
LEMMA ChosenFromSet ==
    ASSUME NEW T, T # {}
    PROVE  (CHOOSE x \in T : TRUE) \in T
<1>1. PICK y : y \in T
    OBVIOUS
<1>2. QED
    BY <1>1

\* A non-empty set of finite sets has one none of whose subsets is in it.
LEMMA LeastSubset ==
    ASSUME NEW S, IsFiniteSet(S), NEW Bad, Bad \subseteq SUBSET S, Bad # {}
    PROVE  \E T \in Bad : \A U \in SUBSET T : U # T => U \notin Bad
<1>1. IsWellFoundedOn(StrictSubsetOrdering(S), SUBSET S)
    BY FS_StrictSubsetOrderingWellFounded, FS_FiniteSubsetsOfFinite
<1>2. PICK T \in Bad : \A U \in Bad : ~(<<U, T>> \in StrictSubsetOrdering(S))
    BY <1>1, WFMin
<1>3. ASSUME NEW U \in SUBSET T, U # T, U \in Bad
      PROVE  FALSE
    <2>1. <<U, T>> \in StrictSubsetOrdering(S)
        BY <1>3 DEF StrictSubsetOrdering
    <2>2. QED
        BY <1>2, <1>3, <2>1
<1>4. QED
    BY <1>3

\* The recursion of MapThenSumSet over the subsets of S, for the numbers f.
NextSum(it, f, s) ==
    IF s = {} THEN 0
    ELSE f[CHOOSE x \in s : TRUE] + it[s \ {CHOOSE x \in s : TRUE}]

\* it is the table of the sums of f over the subsets of S.
SumsTo(it, S, f) == \A s \in SUBSET S : it[s] = NextSum(it, f, s)

\* The equations have one solution: numbers that agree have the same sums.
LEMMA SumsUnique ==
    ASSUME NEW S, IsFiniteSet(S), NEW f, NEW g, \A x \in S : f[x] = g[x],
           NEW it, SumsTo(it, S, f), NEW ju, SumsTo(ju, S, g)
    PROVE  \A s \in SUBSET S : it[s] = ju[s]
<1> DEFINE Bad == {s \in SUBSET S : it[s] # ju[s]}
<1>1. SUFFICES ASSUME Bad # {} PROVE FALSE
    OBVIOUS
<1>2. PICK T \in Bad : \A U \in SUBSET T : U # T => U \notin Bad
    <2>1. PICK B : B = Bad
        OBVIOUS
    <2>2. B \subseteq SUBSET S /\ B # {}
        BY <1>1, <2>1
    <2>3. \E T \in B : \A U \in SUBSET T : U # T => U \notin B
        BY <2>2, LeastSubset
    <2>4. QED
        BY <2>1, <2>3
<1>3. CASE T = {}
    BY <1>3 DEF SumsTo, NextSum
<1>4. CASE T # {}
    <2>1. PICK c \in T : c = CHOOSE x \in T : TRUE
        BY <1>4, ChosenFromSet
    <2>2. it[T \ {c}] = ju[T \ {c}]
        BY <1>2, <2>1
    <2>3. it[T] = f[c] + it[T \ {c}] /\ ju[T] = g[c] + ju[T \ {c}]
        BY <1>4, <2>1 DEF SumsTo, NextSum
    <2>4. QED
        BY <2>1, <2>2, <2>3
<1>5. QED
    BY <1>3, <1>4

\* And they have a solution: a smallest set without one would have one.
LEMMA SumsExist ==
    ASSUME NEW S, IsFiniteSet(S), NEW f, \A x \in S : f[x] \in Nat
    PROVE  \E it : SumsTo(it, S, f)
<1> DEFINE Bad == {s \in SUBSET S : ~\E it : SumsTo(it, s, f)}
<1>1. SUFFICES ASSUME Bad # {} PROVE FALSE
    OBVIOUS
<1>2. PICK T \in Bad : \A U \in SUBSET T : U # T => U \notin Bad
    <2>1. PICK B : B = Bad
        OBVIOUS
    <2>2. B \subseteq SUBSET S /\ B # {}
        BY <1>1, <2>1
    <2>3. \E T \in B : \A U \in SUBSET T : U # T => U \notin B
        BY <2>2, LeastSubset
    <2>4. QED
        BY <2>1, <2>3
<1>3. PICK val : val = [s \in SUBSET S |-> (CHOOSE it : SumsTo(it, s, f))[s]]
    OBVIOUS
<1>4. ASSUME NEW s \in SUBSET T, s # T
      PROVE  val[s] = NextSum(val, f, s)
    <2>1. PICK it : it = CHOOSE i : SumsTo(i, s, f)
        OBVIOUS
    <2>2. SumsTo(it, s, f)
        BY <1>2, <1>4, <2>1
    <2>3. val[s] = it[s]
        BY <1>3, <1>4, <2>1
    <2>4. CASE s = {}
        BY <2>2, <2>3, <2>4 DEF SumsTo, NextSum
    <2>5. CASE s # {}
        <3>1. PICK c \in s : c = CHOOSE x \in s : TRUE
            BY <2>5, ChosenFromSet
        <3>2. PICK r \in SUBSET s : r = s \ {c}
            OBVIOUS
        <3>3. r # T /\ r \in SUBSET T
            BY <1>4, <3>1, <3>2
        <3>4. PICK ju : ju = CHOOSE i : SumsTo(i, r, f)
            OBVIOUS
        <3>5. SumsTo(ju, r, f)
            BY <1>2, <3>3, <3>4
        <3>6. SumsTo(it, r, f)
            BY <2>2, <3>2 DEF SumsTo
        <3>7. IsFiniteSet(r) /\ r \in SUBSET S
            BY <3>2, FS_Subset
        <3>8. ju[r] = it[r]
            BY <3>5, <3>6, <3>7, SumsUnique
        <3>9. val[r] = it[r]
            BY <1>3, <3>4, <3>7, <3>8
        <3>10. it[s] = f[c] + it[r]
            BY <2>2, <2>5, <3>1, <3>2 DEF SumsTo, NextSum
        <3>11. QED
            BY <2>3, <2>5, <3>1, <3>2, <3>9, <3>10 DEF NextSum
    <2>6. QED
        BY <2>4, <2>5
<1>5. PICK all : all = [s \in SUBSET S |-> IF s = T THEN NextSum(val, f, T) ELSE val[s]]
    OBVIOUS
<1>6. ASSUME NEW s \in SUBSET T
      PROVE  all[s] = NextSum(all, f, s)
    <2>1. CASE s = {}
        BY <1>4, <1>5, <2>1 DEF NextSum
    <2>2. CASE s # {}
        <3>1. PICK c \in s : c = CHOOSE x \in s : TRUE
            BY <2>2, ChosenFromSet
        <3>2. all[s \ {c}] = val[s \ {c}]
            BY <1>5, <1>6, <3>1
        <3>3. NextSum(all, f, s) = NextSum(val, f, s)
            BY <2>2, <3>1, <3>2 DEF NextSum
        <3>4. QED
            BY <1>4, <1>5, <1>6, <3>3
    <2>3. QED
        BY <2>1, <2>2
<1>7. QED
    BY <1>2, <1>6 DEF SumsTo

\* The same table as the function that MapThenSumSet chooses, and its sum.
SumsOver(it, S, f) == it = [s \in SUBSET S |-> NextSum(it, f, s)]

SumOf(f, S) == (CHOOSE it : SumsOver(it, S, f))[S]

\* Such a function exists.
LEMMA SumsFunction ==
    ASSUME NEW S, IsFiniteSet(S), NEW f, \A x \in S : f[x] \in Nat
    PROVE  \E it : SumsOver(it, S, f)
<1>1. PICK it : SumsTo(it, S, f)
    BY SumsExist
<1>2. PICK ju : ju = [s \in SUBSET S |-> it[s]]
    OBVIOUS
<1>3. ASSUME NEW s \in SUBSET S
      PROVE  NextSum(it, f, s) = NextSum(ju, f, s)
    <2>1. \A T \in SUBSET S : it[T] = ju[T]
        BY <1>2
    <2>2. QED
        BY <2>1 DEF NextSum
<1>4. QED
    BY <1>1, <1>2, <1>3 DEF SumsOver, SumsTo

\* Any table gives the sum.
LEMMA SumOfIs ==
    ASSUME NEW S, IsFiniteSet(S), NEW f, \A x \in S : f[x] \in Nat,
           NEW it, SumsTo(it, S, f)
    PROVE  SumOf(f, S) = it[S]
<1>1. PICK ju : ju = CHOOSE i : SumsOver(i, S, f)
    OBVIOUS
<1>2. SumsOver(ju, S, f)
    BY <1>1, SumsFunction
<1>3. SumsTo(ju, S, f)
    BY <1>2 DEF SumsOver, SumsTo
<1>4. ju[S] = it[S]
    BY <1>3, SumsUnique
<1>5. QED
    BY <1>1, <1>4 DEF SumOf

\* Whatever the order in which the numbers are added.
LEMMA SumsAnyOrder ==
    ASSUME NEW S, IsFiniteSet(S), NEW f, \A x \in S : f[x] \in Nat,
           NEW it, SumsTo(it, S, f)
    PROVE  \A T \in SUBSET S :
               it[T] \in Nat /\ \A x \in T : it[T] = f[x] + it[T \ {x}]
<1> DEFINE Good(T) == it[T] \in Nat /\ \A x \in T : it[T] = f[x] + it[T \ {x}]
           Bad == {T \in SUBSET S : ~Good(T)}
<1>1. SUFFICES ASSUME Bad # {} PROVE FALSE
    OBVIOUS
<1>2. PICK T \in SUBSET S : ~Good(T) /\ \A U \in SUBSET T : U # T => Good(U)
    <2>1. PICK B : B = Bad
        OBVIOUS
    <2>2. B \subseteq SUBSET S /\ B # {}
        BY <1>1, <2>1
    <2>3. PICK T \in B : \A U \in SUBSET T : U # T => U \notin B
        BY <2>2, LeastSubset
    <2>4. T \in SUBSET S /\ ~Good(T)
        BY <2>1
    <2>5. ASSUME NEW U \in SUBSET T, U # T PROVE Good(U)
        <3>1. U \notin Bad /\ U \in SUBSET S
            BY <2>1, <2>3, <2>4, <2>5
        <3>2. QED
            BY <3>1
    <2>6. QED
        BY <2>4, <2>5
<1> HIDE DEF Good
<1>3. CASE T = {}
    <2>1. it[T] = 0
        BY <1>3 DEF SumsTo, NextSum
    <2>2. QED
        BY <1>2, <1>3, <2>1 DEF Good
<1>4. CASE T # {}
    <2>1. PICK c \in T : c = CHOOSE x \in T : TRUE
        BY <1>4, ChosenFromSet
    <2>2. it[T] = f[c] + it[T \ {c}]
        BY <1>4, <2>1 DEF SumsTo, NextSum
    <2>3. Good(T \ {c}) /\ f[c] \in Nat
        BY <1>2, <2>1
    <2>4. ASSUME NEW x \in T
          PROVE  it[T] = f[x] + it[T \ {x}]
        <3>1. CASE x = c
            BY <2>2, <3>1
        <3>2. CASE x # c
            <4>1. PICK r : r = (T \ {c}) \ {x}
                OBVIOUS
            <4>2. Good(T \ {x}) /\ Good(r) /\ f[x] \in Nat
                BY <1>2, <2>4, <2>1, <4>1
            <4>3. it[T \ {c}] = f[x] + it[r]
                BY <2>3, <3>2, <2>4, <4>1 DEF Good
            <4>4. (T \ {x}) \ {c} = r
                BY <4>1
            <4>5. it[T \ {x}] = f[c] + it[r]
                BY <2>1, <3>2, <4>2, <4>4 DEF Good
            <4>6. it[r] \in Nat
                BY <4>2 DEF Good
            <4>7. QED
                BY <2>2, <2>3, <4>2, <4>3, <4>5, <4>6, SMT
        <3>3. QED
            BY <3>1, <3>2
    <2>5. it[T] \in Nat
        <3>1. it[T \ {c}] \in Nat
            BY <2>3 DEF Good
        <3>2. QED
            BY <2>2, <2>3, <3>1, SMT
    <2>6. QED
        BY <1>2, <2>4, <2>5 DEF Good
<1>5. QED
    BY <1>3, <1>4

\* The sum over nothing.
LEMMA SumOfEmpty == ASSUME NEW f PROVE SumOf(f, {}) = 0
<1>1. IsFiniteSet({})
    BY FS_EmptySet
<1>2. PICK it : SumsTo(it, {}, f)
    BY <1>1, SumsExist
<1>3. it[{}] = 0
    BY <1>2 DEF SumsTo, NextSum
<1>4. QED
    BY <1>1, <1>2, <1>3, SumOfIs

\* A sum of naturals is a natural.
LEMMA SumOfType ==
    ASSUME NEW S, IsFiniteSet(S), NEW f, \A x \in S : f[x] \in Nat
    PROVE  SumOf(f, S) \in Nat
<1>1. PICK it : SumsTo(it, S, f)
    BY SumsExist
<1>2. QED
    BY <1>1, SumsAnyOrder, SumOfIs

\* A member's number comes out of the sum.
LEMMA SumOfRemove ==
    ASSUME NEW S, IsFiniteSet(S), NEW f, \A x \in S : f[x] \in Nat, NEW x \in S
    PROVE  SumOf(f, S) = f[x] + SumOf(f, S \ {x})
<1>1. PICK it : SumsTo(it, S, f)
    BY SumsExist
<1>2. PICK r \in SUBSET S : r = S \ {x}
    OBVIOUS
<1>3. IsFiniteSet(r) /\ \A y \in r : f[y] \in Nat
    BY FS_Subset
<1>4. SumsTo(it, r, f)
    BY <1>1, <1>2 DEF SumsTo
<1>5. SumOf(f, S) = it[S] /\ SumOf(f, r) = it[r]
    BY <1>1, <1>3, <1>4, SumOfIs
<1>6. it[S] = f[x] + it[r]
    BY <1>1, <1>2, SumsAnyOrder
<1>7. QED
    BY <1>2, <1>5, <1>6

\* A new member adds its number.
LEMMA SumOfAdd ==
    ASSUME NEW S, IsFiniteSet(S), NEW f, \A y \in S : f[y] \in Nat,
           NEW x, x \notin S, f[x] \in Nat
    PROVE  SumOf(f, S \cup {x}) = f[x] + SumOf(f, S)
<1>1. PICK T : T = S \cup {x}
    OBVIOUS
<1>2. IsFiniteSet(T) /\ x \in T /\ T \ {x} = S /\ \A y \in T : f[y] \in Nat
    BY <1>1, FS_AddElement
<1>3. QED
    BY <1>1, <1>2, SumOfRemove

\* Numbers that agree on the set have the same sum.
LEMMA SumOfSame ==
    ASSUME NEW S, IsFiniteSet(S), NEW f, NEW g, \A x \in S : f[x] \in Nat /\ f[x] = g[x]
    PROVE  SumOf(f, S) = SumOf(g, S)
<1>1. PICK it, ju : SumsTo(it, S, f) /\ SumsTo(ju, S, g)
    BY SumsExist
<1>2. it[S] = ju[S]
    BY <1>1, SumsUnique
<1>3. QED
    BY <1>1, <1>2, SumOfIs

\* Two ways to number a set, the same but for one member.
SameBut(f, g, S, x) ==
    /\ \A y \in S : f[y] \in Nat /\ g[y] \in Nat
    /\ \A y \in S \ {x} : f[y] = g[y]

\* One number changes: the sum changes by as much.
LEMMA SumOfChange ==
    ASSUME NEW S, IsFiniteSet(S), NEW f, NEW g, NEW x \in S, SameBut(f, g, S, x)
    PROVE  /\ SumOf(f, S) \in Nat /\ SumOf(g, S) \in Nat
           /\ SumOf(g, S) + f[x] = SumOf(f, S) + g[x]
           /\ f[x] <= SumOf(f, S)
<1>1. PICK r \in SUBSET S : r = S \ {x}
    OBVIOUS
<1>2. IsFiniteSet(r)
    BY <1>1, FS_Subset
<1>3. \A y \in S : f[y] \in Nat /\ g[y] \in Nat
    BY DEF SameBut
<1>4. \A y \in r : f[y] \in Nat /\ f[y] = g[y]
    BY <1>1 DEF SameBut
<1>5. SumOf(f, S) = f[x] + SumOf(f, r) /\ SumOf(g, S) = g[x] + SumOf(g, r)
    BY <1>1, <1>3, SumOfRemove
<1>6. SumOf(f, r) \in Nat /\ SumOf(f, r) = SumOf(g, r)
    BY <1>2, <1>4, SumOfType, SumOfSame
<1>7. QED
    BY <1>3, <1>5, <1>6

\* Numbers that are others, each taken c times.
Scaled(f, g, S, c) == \A x \in S : f[x] \in Nat /\ g[x] = c * f[x]

\* Every number is worth c: so is the sum.
LEMMA SumOfScaled ==
    ASSUME NEW S, IsFiniteSet(S), NEW c \in Nat, NEW f, NEW g, Scaled(f, g, S, c)
    PROVE  SumOf(g, S) = c * SumOf(f, S)
<1>0. \A x \in S : f[x] \in Nat /\ g[x] = c * f[x]
    BY DEF Scaled
<1> DEFINE Bad == {T \in SUBSET S : SumOf(g, T) # c * SumOf(f, T)}
<1>1. SUFFICES ASSUME Bad # {} PROVE FALSE
    OBVIOUS
<1>2. PICK T \in Bad : \A U \in SUBSET T : U # T => U \notin Bad
    <2>1. Bad \subseteq SUBSET S
        OBVIOUS
    <2> HIDE DEF Bad
    <2>2. QED
        BY <1>1, <2>1, LeastSubset
<1>3. CASE T = {}
    BY <1>3, SumOfEmpty
<1>4. ASSUME NEW x \in T PROVE FALSE
    <2>1. PICK r \in SUBSET T : r = T \ {x}
        OBVIOUS
    <2>2. r # T /\ r \in SUBSET S /\ IsFiniteSet(r) /\ IsFiniteSet(T)
        BY <1>4, <2>1, FS_Subset
    <2>3. SumOf(g, r) = c * SumOf(f, r)
        BY <1>2, <2>2
    <2>4. SumOf(f, r) \in Nat /\ f[x] \in Nat /\ g[x] = c * f[x]
        BY <1>0, <1>4, <2>2, SumOfType
    <2>5. SumOf(f, T) = f[x] + SumOf(f, r)
        BY <1>0, <1>4, <2>1, <2>2, SumOfRemove
    <2>6. SumOf(g, T) = g[x] + SumOf(g, r)
        <3>1. ASSUME NEW y \in T PROVE g[y] \in Nat
            <4>1. PICK n \in Nat : n = f[y]
                BY <1>0
            <4>2. g[y] = c * n
                BY <1>0, <4>1
            <4>3. QED
                BY <4>2, SMT
        <3>2. QED
            BY <1>4, <2>1, <2>2, <3>1, SumOfRemove
    <2>7. c * (f[x] + SumOf(f, r)) = c * f[x] + c * SumOf(f, r)
        BY <2>4, SMT
    <2>8. QED
        BY <1>2, <2>3, <2>4, <2>5, <2>6, <2>7
<1>5. QED
    BY <1>3, <1>4

\* A part and the rest sum up to the whole.
LEMMA SumOfSplit ==
    ASSUME NEW S, IsFiniteSet(S), NEW f, \A x \in S : f[x] \in Nat, NEW T \in SUBSET S
    PROVE  /\ SumOf(f, T) \in Nat /\ SumOf(f, S \ T) \in Nat
           /\ SumOf(f, S) = SumOf(f, T) + SumOf(f, S \ T)
<1> DEFINE Rest == S \ T
           Bad == {U \in SUBSET Rest : SumOf(f, T \cup U) # SumOf(f, T) + SumOf(f, U)}
<1>1. PICK t \in Nat : t = SumOf(f, T)
    BY FS_Subset, SumOfType
<1>2. IsFiniteSet(Rest) /\ T \cup Rest = S
    BY FS_Subset
<1>3. SUFFICES ASSUME Bad # {} PROVE FALSE
    <2>1. Rest \notin Bad => SumOf(f, T \cup Rest) = SumOf(f, T) + SumOf(f, Rest)
        OBVIOUS
    <2>2. SumOf(f, Rest) \in Nat
        BY <1>2, SumOfType
    <2>3. QED
        BY <1>1, <1>2, <1>3, <2>1, <2>2
<1>4. PICK U \in Bad : \A V \in SUBSET U : V # U => V \notin Bad
    <2>1. Bad \subseteq SUBSET Rest
        OBVIOUS
    <2> HIDE DEF Bad, Rest
    <2>2. QED
        BY <1>2, <1>3, <2>1, LeastSubset
<1>5. PICK total : total = SumOf(f, T \cup U) /\ total # t + SumOf(f, U)
    BY <1>1, <1>4
<1>6. CASE U = {}
    <2>1. T \cup U = T /\ SumOf(f, U) = 0
        BY <1>6, SumOfEmpty
    <2>2. QED
        BY <1>1, <1>5, <2>1
<1>7. ASSUME NEW x \in U PROVE FALSE
    <2>1. PICK V \in SUBSET U : V = U \ {x}
        OBVIOUS
    <2>2. PICK W \in SUBSET S : W = T \cup V
        OBVIOUS
    <2>3. /\ V # U /\ V \in SUBSET Rest /\ x \notin W /\ x \notin V
          /\ IsFiniteSet(W) /\ IsFiniteSet(V)
          /\ U = V \cup {x} /\ T \cup U = W \cup {x}
        BY <1>7, <2>1, <2>2, FS_Subset
    <2>4. SumOf(f, W) = t + SumOf(f, V)
        BY <1>1, <1>4, <2>2, <2>3
    <2>5. PICK a \in Nat : a = f[x]
        BY <1>7
    <2>6. SumOf(f, V) \in Nat /\ SumOf(f, W) \in Nat
        BY <2>3, SumOfType
    <2>7. SumOf(f, U) = a + SumOf(f, V)
        <3>1. \A y \in V : f[y] \in Nat
            BY <2>3
        <3>2. SumOf(f, V \cup {x}) = f[x] + SumOf(f, V)
            BY <2>3, <2>5, <3>1, SumOfAdd
        <3>3. QED
            BY <2>3, <2>5, <3>2
    <2>8. total = a + SumOf(f, W)
        <3>1. \A y \in W : f[y] \in Nat
            OBVIOUS
        <3>2. SumOf(f, W \cup {x}) = f[x] + SumOf(f, W)
            BY <2>3, <2>5, <3>1, SumOfAdd
        <3>3. QED
            BY <1>5, <2>3, <2>5, <3>2
    <2>9. QED
        BY <1>5, <2>4, <2>6, <2>7, <2>8
<1>8. QED
    BY <1>6, <1>7

\* So a part does not sum up to more than the whole.
LEMMA SumOfPart ==
    ASSUME NEW S, IsFiniteSet(S), NEW f, \A x \in S : f[x] \in Nat, NEW T \in SUBSET S
    PROVE  SumOf(f, T) <= SumOf(f, S)
<1>1. PICK r : r = SumOf(f, S \ T)
    OBVIOUS
<1>2. SumOf(f, T) \in Nat /\ r \in Nat /\ SumOf(f, S) = SumOf(f, T) + r
    BY <1>1, SumOfSplit, Zenon
<1>3. QED
    BY <1>2

\* The same number for everyone.
LEMMA SumOfConstant ==
    ASSUME NEW S, IsFiniteSet(S), NEW c \in Nat, NEW f, \A x \in S : f[x] = c
    PROVE  SumOf(f, S) = c * Cardinality(S)
<1> DEFINE Bad == {T \in SUBSET S : SumOf(f, T) # c * Cardinality(T)}
<1>1. SUFFICES ASSUME Bad # {} PROVE FALSE
    OBVIOUS
<1>2. PICK T \in Bad : \A U \in SUBSET T : U # T => U \notin Bad
    <2>1. Bad \subseteq SUBSET S
        OBVIOUS
    <2> HIDE DEF Bad
    <2>2. QED
        BY <1>1, <2>1, LeastSubset
<1>3. CASE T = {}
    <2>1. Cardinality({}) = 0
        BY FS_EmptySet
    <2>2. QED
        BY <1>2, <1>3, <2>1, SumOfEmpty
<1>4. ASSUME NEW x \in T PROVE FALSE
    <2>1. PICK r \in SUBSET T : r = T \ {x}
        OBVIOUS
    <2>2. r # T /\ r \in SUBSET S /\ IsFiniteSet(r) /\ IsFiniteSet(T) /\ x \notin r
        BY <1>4, <2>1, FS_Subset
    <2>3. PICK n \in Nat : n = Cardinality(r)
        BY <2>2, FS_CardinalityType
    <2>4. SumOf(f, r) = c * n
        BY <1>2, <2>2, <2>3
    <2>5. Cardinality(T) = n + 1
        <3>1. T = r \cup {x}
            BY <1>4, <2>1
        <3>2. QED
            BY <2>2, <2>3, <3>1, FS_AddElement
    <2>6. SumOf(f, T) = c + SumOf(f, r)
        <3>1. \A y \in T : f[y] \in Nat
            OBVIOUS
        <3>2. f[x] = c
            BY <1>4
        <3>3. QED
            BY <1>4, <2>1, <2>2, <3>1, <3>2, SumOfRemove
    <2>7. c * (n + 1) = c + c * n
        BY <2>3, SMT
    <2>8. QED
        BY <1>2, <2>4, <2>5, <2>6, <2>7
<1>5. QED
    BY <1>3, <1>4

\* Numbers none of which is greater than its counterpart.
Below(f, g, S) == \A x \in S : f[x] \in Nat /\ g[x] \in Nat /\ f[x] <= g[x]

\* Nor is their sum.
LEMMA SumOfBelow ==
    ASSUME NEW S, IsFiniteSet(S), NEW f, NEW g, Below(f, g, S)
    PROVE  SumOf(f, S) <= SumOf(g, S)
<1>0. \A x \in S : f[x] \in Nat /\ g[x] \in Nat /\ f[x] <= g[x]
    BY DEF Below
<1> DEFINE Bad == {T \in SUBSET S : ~(SumOf(f, T) <= SumOf(g, T))}
<1>1. SUFFICES ASSUME Bad # {} PROVE FALSE
    OBVIOUS
<1>2. PICK T \in Bad : \A U \in SUBSET T : U # T => U \notin Bad
    <2>1. Bad \subseteq SUBSET S
        OBVIOUS
    <2> HIDE DEF Bad
    <2>2. QED
        BY <1>1, <2>1, LeastSubset
<1>3. CASE T = {}
    BY <1>2, <1>3, SumOfEmpty
<1>4. ASSUME NEW x \in T PROVE FALSE
    <2>1. PICK r \in SUBSET T : r = T \ {x}
        OBVIOUS
    <2>2. r # T /\ r \in SUBSET S /\ IsFiniteSet(r) /\ IsFiniteSet(T)
        BY <1>4, <2>1, FS_Subset
    <2>3. SumOf(f, r) <= SumOf(g, r)
        BY <1>2, <2>2
    <2>4. SumOf(f, r) \in Nat /\ SumOf(g, r) \in Nat /\ f[x] \in Nat /\ g[x] \in Nat /\ f[x] <= g[x]
        BY <1>0, <1>4, <2>2, SumOfType
    <2>5. SumOf(f, T) = f[x] + SumOf(f, r) /\ SumOf(g, T) = g[x] + SumOf(g, r)
        BY <1>0, <1>4, <2>1, <2>2, SumOfRemove
    <2>6. ~(SumOf(f, T) <= SumOf(g, T))
        BY <1>2
    <2>7. QED
        BY <2>3, <2>4, <2>5, <2>6
<1>5. QED
    BY <1>3, <1>4

\* Some number is not above the mean, and some is not below it.
LEMMA MeanIsBetween ==
    ASSUME NEW S, IsFiniteSet(S), S # {}, NEW f, \A x \in S : f[x] \in Nat
    PROVE  LET mean == SumOf(f, S) \div Cardinality(S)
           IN /\ mean \in Nat
              /\ \E x \in S : f[x] <= mean
              /\ \E x \in S : mean <= f[x]
<1>1. PICK n \in Nat : n = Cardinality(S) /\ n # 0
    BY FS_CardinalityType, FS_EmptySet
<1>2. PICK total \in Nat : total = SumOf(f, S)
    BY SumOfType
<1>3. PICK mean : mean = total \div n
    OBVIOUS
<1>4. mean \in Nat /\ n * mean <= total /\ total < n * (mean + 1)
    BY <1>1, <1>2, <1>3, DivBounds
<1>5. ASSUME \A x \in S : ~(f[x] <= mean) PROVE FALSE
    <2>1. PICK g : g = [x \in S |-> mean + 1]
        OBVIOUS
    <2>2. Below(g, f, S)
        BY <1>4, <1>5, <2>1, SMT DEF Below
    <2>3. mean + 1 \in Nat /\ \A x \in S : g[x] = mean + 1
        BY <1>4, <2>1
    <2>4. SumOf(g, S) = (mean + 1) * n
        BY <1>1, <2>3, SumOfConstant
    <2>5. SumOf(g, S) <= total
        BY <1>2, <2>2, SumOfBelow
    <2>6. (mean + 1) * n = n * (mean + 1)
        BY <1>1, <1>4, SMT
    <2>7. QED
        BY <1>1, <1>2, <1>4, <2>4, <2>5, <2>6, SMT
<1>6. ASSUME \A x \in S : ~(mean <= f[x]) PROVE FALSE
    <2>1. PICK x0 \in S : TRUE
        OBVIOUS
    <2>2. PICK k \in Nat : mean = k + 1
        <3>1. f[x0] \in Nat /\ f[x0] < mean
            BY <1>4, <1>6, <2>1, SMT
        <3>2. mean - 1 \in Nat /\ mean = (mean - 1) + 1
            BY <1>4, <3>1, SMT
        <3>3. QED
            BY <3>2
    <2>3. PICK g : g = [x \in S |-> k]
        OBVIOUS
    <2>4. Below(f, g, S)
        BY <1>4, <1>6, <2>2, <2>3, SMT DEF Below
    <2>5. SumOf(g, S) = k * n
        BY <1>1, <2>3, SumOfConstant
    <2>6. total <= k * n
        BY <1>2, <2>4, <2>5, SumOfBelow
    <2>7. n * (k + 1) = k * n + n
        BY <1>1, SMT
    <2>8. k * n \in Nat
        BY <1>1, SMT
    <2>9. QED
        BY <1>1, <1>2, <1>4, <2>2, <2>6, <2>7, <2>8, SMT
<1>7. QED
    BY <1>1, <1>2, <1>3, <1>4, <1>5, <1>6
=============================================================================
