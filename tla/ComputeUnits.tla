---------------------------- MODULE ComputeUnits ----------------------------
(***************************************************************************)
(* What a transaction of the scripts offers for its compute units:         *)
(* utils/solana/infrastructure/getFee.ts and addComputeUnitInstructions of *)
(* helpers.ts.  Samples are the prioritization fees of recent slots, empty *)
(* if the RPC has none or fails; a scale factor is a number of quarters.   *)
(***************************************************************************)
EXTENDS Integers, Sequences, FiniteSets, Functions
LOCAL INSTANCE TLC

\* Of fees by slot, not necessarily of every slot.
Average(fees) ==
    IF DOMAIN fees = {} THEN 0 ELSE SumFunction(fees) \div Cardinality(DOMAIN fees)

\* Of an even number of fees the mean of the middle two, rounded down.
Median(fees) ==
    LET sorted == SortSeq(fees, LAMBDA a, b : a < b)
        mid == Len(fees) \div 2
    IN IF fees = <<>> THEN 0
       ELSE IF Len(fees) % 2 = 1 THEN sorted[mid + 1]
       ELSE (sorted[mid] + sorted[mid + 1]) \div 2

\* filter((fee) => fee !== 0), the slots kept.
Chargeable(fee) == fee # 0
NonZero(samples) == RestrictValues(samples, Chargeable)

getPrioritizationFees(samples) ==
    [averageFeeIncludingZeros |-> Average(samples),
     averageFeeExcludingZeros |-> Average(NonZero(samples)),
     medianFee |-> Median(SelectSeq(samples, Chargeable))]

\* Mutant of ComputeUnitPrice: the wrong one of the two averages.
PriceWithZeros(samples, quarters) ==
    getPrioritizationFees(samples).averageFeeIncludingZeros * (quarters \div 4)

\* Math.floor(computeUnitPriceScaleFactor): a factor below 1 makes it 0.
ComputeUnitPrice(samples, quarters) ==
    getPrioritizationFees(samples).averageFeeExcludingZeros * (quarters \div 4)
=============================================================================
