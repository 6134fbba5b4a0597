--------------------------- MODULE MeteredLimits ---------------------------
(***************************************************************************)
(* The limiters of a peer with a meter beside them: of a stretch of time   *)
(* that starts whenever it likes, what one of the two has let through in   *)
(* it.  The meter only looks on.                                           *)
(***************************************************************************)
EXTENDS PeerLimits

CONSTANTS
    MaxBack,        \* bound on how far a meter may run below zero
    MaxNet          \* bound on how far the traffic may be out of balance

ASSUME MeterAssumption == MaxBack \in Nat /\ MaxNet \in Nat

VARIABLES
    watched,    \* history: the limiter the stretch is measured at
    excess      \* history: what it let through in the stretch, less what came back
                \* the other way and less its rate for every second of it

meterVars == <<watched, excess>>
meteredVars == <<vars, meterVars>>

Watched == IF watched = "outbound" THEN outbound ELSE inbound

MeteredInit == Init /\ watched \in {"outbound", "inbound"} /\ excess = 0
----------------------------------------------------------------------------
NewStretch == excess' = 0 /\ UNCHANGED watched

\* The stretch goes on for as long as there is a limit, or a new one starts.
Count(change) ==
    \/ NewStretch
    \/ /\ Watched # None /\ excess + change >= -MaxBack
       /\ excess' = excess + change
       /\ UNCHANGED watched

\* A stretch ends where a limit is lifted or a capacity is set, which fills the bucket.
CountSetting(direction, params) ==
    IF watched = direction /\ (params = None \/ params.capacity # None)
    THEN NewStretch ELSE Count(0)

MeteredNext ==
    \/ Tick /\ Count(IF Watched = None THEN 0 ELSE -Watched.refill_per_second)
    \/ \E amount \in U64 :
           \/ /\ Outgoing(amount) /\ net_out' <= MaxNet
              /\ Count(IF watched = "outbound" THEN amount ELSE -amount)
           \/ /\ Incoming(amount) /\ net_out' >= -MaxNet
              /\ Count(IF watched = "inbound" THEN amount ELSE -amount)
    \/ \E params \in LimitChoices :
           \/ OutboundRateLimit(params) /\ CountSetting("outbound", params)
           \/ InboundRateLimit(params) /\ CountSetting("inbound", params)

MeteredSpec == MeteredInit /\ [][MeteredNext]_meteredVars
----------------------------------------------------------------------------
\* Over any stretch of time without a new capacity, a limiter lets through no more
\* than its capacity, what it earned by the second at the rates in force, and what
\* came back: however lazily it is refilled, and whenever its rate is changed.
WindowKept == Watched # None => excess <= Watched.capacity
=============================================================================
