---------------------------- MODULE LeakyBucket ----------------------------
(***************************************************************************)
(* What a rate limit promises, with no timestamps and no lazy refills.     *)
(* level is the amount let through and not yet forgiven.  It moves with    *)
(* the clock and the traffic and with nothing else: each second drains it  *)
(* by leak, an amount let through raises it by that amount, and only as    *)
(* far as capacity, and an amount that comes back lowers it by that        *)
(* amount.  So over any stretch of time the amount let through exceeds the *)
(* amount that came back by no more than capacity plus leak times the      *)
(* length of the stretch.                                                  *)
(***************************************************************************)
EXTENDS Integers

CONSTANTS MaxAmount,    \* the largest amount
          NoLimit       \* the value of bucket when there is no limit

VARIABLES
    seconds,    \* that have passed
    net,        \* the amount let through so far, less the amount that came back
    bucket

vars == <<seconds, net, bucket>>

Bucket == [capacity : 0 .. MaxAmount, leak : 0 .. MaxAmount, level : 0 .. MaxAmount]

Limited == bucket \in Bucket

Init == seconds = 0 /\ net = 0 /\ bucket = NoLimit

Lowered(level, amount) == IF level <= amount THEN 0 ELSE level - amount

Leak == IF Limited THEN bucket.leak ELSE 0

\* The bucket with amount taken out of it, or put into it.
Less(amount) == IF Limited THEN [bucket EXCEPT !.level = Lowered(@, amount)] ELSE bucket
More(amount) == IF Limited THEN [bucket EXCEPT !.level = @ + amount] ELSE bucket

\* A second passes.
Drain ==
    /\ seconds' = seconds + 1
    /\ bucket' = Less(Leak)
    /\ UNCHANGED net

\* amount is let through.
Pour(amount) ==
    /\ Limited => bucket.level + amount <= bucket.capacity
    /\ net' = net + amount
    /\ bucket' = More(amount)
    /\ UNCHANGED seconds

\* amount comes back.
Scoop(amount) ==
    /\ net' = net - amount
    /\ bucket' = Less(amount)
    /\ UNCHANGED seconds

\* A limit starts with nothing to forgive, and so does one whose capacity is
\* set again.
Install(capacity, leak) ==
    bucket' = [capacity |-> capacity, leak |-> leak, level |-> 0]

\* A new rate counts from now on.
ChangeLeak(leak) ==
    /\ Limited
    /\ bucket' = [bucket EXCEPT !.leak = leak]

Lift == bucket' = NoLimit

\* A setting is no traffic, and takes no time.
Set ==
    /\ \/ \E capacity, leak \in 0 .. MaxAmount : Install(capacity, leak)
       \/ \E leak \in 0 .. MaxAmount : ChangeLeak(leak)
       \/ Lift
    /\ UNCHANGED <<seconds, net>>

Next ==
    \/ Drain
    \/ \E amount \in 0 .. MaxAmount : Pour(amount) \/ Scoop(amount)
    \/ Set

Spec == Init /\ [][Next]_vars
=============================================================================
