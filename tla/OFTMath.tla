------------------------------ MODULE OFTMath ------------------------------
(***************************************************************************)
(* The amount arithmetic of the moroft program: local and shared decimals, *)
(* the cross-chain fee and the Token-2022 transfer fee.                    *)
(*   programs/moroft/src/state/oft.rs                                      *)
(*   programs/moroft/src/instructions/quote_send.rs                        *)
(*                                                                         *)
(* u64 values are integers in U64 == 0..MaxU64; the program is built with  *)
(* overflow-checks = true, so a u64 operation whose result leaves U64      *)
(* aborts the instruction: callers guard it with Fits.  The u128           *)
(* intermediates of the code (a u64 times at most 10_000) never overflow.  *)
(***************************************************************************)
EXTENDS Integers

CONSTANTS
    MaxU64,                 \* u64::MAX, scaled down by the configurations
    MAX_FEE_BASIS_POINTS,   \* 10_000 in the code: one whole, in basis points
    None                    \* an Option that is absent

ASSUME MathAssumption ==
    /\ MaxU64 \in Nat
    /\ MAX_FEE_BASIS_POINTS \in Nat \ {0}
    /\ None \notin Int

U64 == 0 .. MaxU64

\* The result of a u64 computation is representable.
Fits(n) == n \in U64

\* Fee rates an OFTStore or a PeerConfig can hold: set_oft_config and
\* set_peer_config both require fee_bps < MAX_FEE_BASIS_POINTS.
OftFeeBps == 0 .. (MAX_FEE_BASIS_POINTS - 1)

\* A Token-2022 TransferFee.  A mint without the TransferFeeConfig extension
\* behaves as one whose rate is zero.
TransferFee == [bps : 0 .. MAX_FEE_BASIS_POINTS, max : U64]

OFTType == {"Native", "Adapter"}
----------------------------------------------------------------------------
\* OFTStore::ld2sd, sd2ld and remove_dust.

ld2sd(amount_ld, rate) == amount_ld \div rate
sd2ld(amount_sd, rate) == amount_sd * rate
remove_dust(amount_ld, rate) == amount_ld - (amount_ld % rate)
----------------------------------------------------------------------------
\* The cross-chain fee: the peer's own rate if it has one, else the default.

FinalFeeBps(default_fee_bps, fee_bps) ==
    IF fee_bps = None THEN default_fee_bps ELSE fee_bps

calculate_fee(pre_fee_amount, bps) ==
    (pre_fee_amount * bps) \div MAX_FEE_BASIS_POINTS
----------------------------------------------------------------------------
\* The Token-2022 transfer fee.

ceil_div(numerator, denominator) ==
    (numerator + denominator - 1) \div denominator

Least(a, b) == IF a <= b THEN a ELSE b

\* What the token program withholds from a transfer of amount.
TransferFeeOf(tf, amount) ==
    Least(tf.max, ceil_div(amount * tf.bps, MAX_FEE_BASIS_POINTS))

\* What reaches the destination of a transfer of amount.
get_post_fee_amount_ld(tf, amount) == amount - TransferFeeOf(tf, amount)

\* Mutant of calculate_pre_fee_amount: the maximum fee is not considered.
PreFeeUncapped(tf, post_fee_amount) ==
    IF tf.bps \in {0, MAX_FEE_BASIS_POINTS} THEN post_fee_amount
    ELSE ceil_div(post_fee_amount * MAX_FEE_BASIS_POINTS, MAX_FEE_BASIS_POINTS - tf.bps)

\* Mutant of calculate_pre_fee_amount: one too many in the uncapped case.
PreFeeRoundedTwice(tf, post_fee_amount) ==
    IF tf.bps = 0 \/ post_fee_amount = 0 THEN post_fee_amount
    ELSE Least(post_fee_amount + tf.max,
               IF tf.bps = MAX_FEE_BASIS_POINTS THEN post_fee_amount + tf.max
               ELSE 1 + (post_fee_amount * MAX_FEE_BASIS_POINTS)
                          \div (MAX_FEE_BASIS_POINTS - tf.bps))

\* Mutant of calculate_pre_fee_amount: nothing is charged at the full rate.
PreFeeZeroAtFullRate(tf, post_fee_amount) ==
    IF tf.bps = 0 THEN post_fee_amount
    ELSE IF tf.bps = MAX_FEE_BASIS_POINTS THEN 0
    ELSE Least(post_fee_amount + tf.max,
               ceil_div(post_fee_amount * MAX_FEE_BASIS_POINTS,
                        MAX_FEE_BASIS_POINTS - tf.bps))

\* The amount to transfer for post_fee_amount to arrive.  The code returns
\* None exactly when this value exceeds u64: the caller guards with Fits.
calculate_pre_fee_amount(tf, post_fee_amount) ==
    IF tf.bps = 0 \/ post_fee_amount = 0 THEN post_fee_amount
    ELSE IF tf.bps = MAX_FEE_BASIS_POINTS THEN tf.max + post_fee_amount
    ELSE LET raw == ceil_div(post_fee_amount * MAX_FEE_BASIS_POINTS,
                             MAX_FEE_BASIS_POINTS - tf.bps)
         IN IF raw - post_fee_amount >= tf.max
              THEN post_fee_amount + tf.max
              ELSE raw
----------------------------------------------------------------------------
\* What a send of amount_ld takes from the sender, what it delivers on the
\* other chain and what it leaves behind as fee, all in local decimals.

\* Mutant of AdapterAmounts: the fee keeps its dust.
AdapterDustyFee(rate, bps, tf, amount_ld) ==
    LET gross == remove_dust(get_post_fee_amount_ld(tf, amount_ld), rate)
        fee   == calculate_fee(gross, bps)
    IN [sent     |-> calculate_pre_fee_amount(tf, gross),
        received |-> gross - fee,
        fee      |-> fee]

\* Mutant of AdapterAmounts: the amount keeps its dust.
AdapterDustyAmount(rate, bps, tf, amount_ld) ==
    LET gross == get_post_fee_amount_ld(tf, amount_ld)
        fee   == remove_dust(calculate_fee(gross, bps), rate)
    IN [sent     |-> calculate_pre_fee_amount(tf, gross),
        received |-> gross - fee,
        fee      |-> fee]

AdapterAmounts(rate, bps, tf, amount_ld) ==
    LET gross == remove_dust(get_post_fee_amount_ld(tf, amount_ld), rate)
        fee   == remove_dust(calculate_fee(gross, bps), rate)
    IN [sent     |-> calculate_pre_fee_amount(tf, gross),
        received |-> gross - fee,
        fee      |-> fee]

NativeAmounts(rate, bps, amount_ld) ==
    LET sent == remove_dust(amount_ld, rate)
        fee  == remove_dust(calculate_fee(sent, bps), rate)
    IN [sent |-> sent, received |-> sent - fee, fee |-> fee]

compute_fee_and_adjust_amount(type, rate, bps, tf, amount_ld) ==
    IF type = "Adapter" THEN AdapterAmounts(rate, bps, tf, amount_ld)
                        ELSE NativeAmounts(rate, bps, amount_ld)
=============================================================================
