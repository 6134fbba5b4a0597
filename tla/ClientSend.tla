----------------------------- MODULE ClientSend -----------------------------
(***************************************************************************)
(* The send task on Solana, tasks/solana/oft/sendOFT.ts and                *)
(* utils/solana/oft/sendOFT.ts with addComputeUnitInstructions: a call     *)
(* asks the program for a quote, builds a send with the quoted fee, asks   *)
(* for recent fees, simulates, submits and waits.  Each of these is an     *)
(* await, and between any two of them anything in the program, the mint    *)
(* and the endpoint may change.                                            *)
(***************************************************************************)
EXTENDS OFT, ComputeUnits

CONSTANTS
    Client,             \* the user whose wallet the script has
    Destination,        \* --to-eid
    Amounts2Send,       \* values of --amount
    ScaleFactors,       \* values of --compute-unit-price-scale-factor, in quarters
    Samples,            \* what getRecentPrioritizationFees may return
    NativeFees,         \* prices of a message at the endpoint
    NumOfAttempts,      \* of the simulation, 3 in the code
    MaxCalls            \* bound on the calls of the task

VARIABLES
    calls,          \* calls made so far
    call,           \* the one that runs, None between two
    native_fee,     \* the endpoint's price of a message now
    inflight,       \* transactions submitted and neither executed nor expired
    outcome,        \* what became of the transaction the call waits for
    answer,         \* history: call -> how it ended
    deals,          \* history: call -> what its transactions took and sent
    refused         \* history: the calls whose transaction was executed with an error

dealVars == <<deals, refused>>
clientVars == <<calls, call, native_fee, inflight, outcome, answer, dealVars>>
allVars == <<vars, clientVars>>

Calls == 1..MaxCalls
Phases == {"quote", "build", "price", "simulate", "prompt", "submit", "await"}
Answers == {"sent", "failed", "broken"}

ASSUME ClientAssumption ==
    /\ Client \in Users /\ Destination \in Eids
    /\ Amounts2Send \subseteq U64 /\ NativeFees \subseteq Nat /\ ScaleFactors \subseteq Nat
    /\ \A s \in Samples : s \in Seq(Nat)
    /\ NumOfAttempts \in Nat \ {0} /\ MaxCalls \in Nat
    /\ None \notin {"ok", "error", "expired"} \cup Answers

ClientInit ==
    /\ Init
    /\ calls = 0 /\ call = None
    /\ native_fee \in NativeFees
    /\ inflight = {} /\ outcome = None
    /\ answer = [c \in Calls |-> None]
    /\ deals = [c \in Calls |-> {}] /\ refused = {}
----------------------------------------------------------------------------
Running == call # None
At(phase) == Running /\ call.phase = phase

\* The parameters of the task, and nothing known yet.
sendOFT(amount, quarters) ==
    /\ ~Running
    /\ calls < MaxCalls
    /\ calls' = calls + 1
    /\ call' = [phase |-> "quote", amount |-> amount, nativeFee |-> 0, remote |-> None,
                quarters |-> quarters, samples |-> <<>>, price |-> 0, attempts |-> 0]
    /\ outcome' = None
    /\ UNCHANGED <<vars, native_fee, inflight, answer, dealVars>>

Become(new_call) ==
    /\ call' = new_call
    /\ UNCHANGED <<vars, calls, native_fee, inflight, outcome, answer, dealVars>>

Finish(result) ==
    /\ call' = None
    /\ answer' = [answer EXCEPT ![calls] = result]
    /\ outcome' = None
    /\ UNCHANGED <<vars, calls, native_fee, inflight, dealVars>>

\* quote_send with a minimum of 1, far below the one the send will have: it
\* does not foresee that the send will be refused for its slippage, and not a
\* rate limit or a missing balance either.
Quotable ==
    /\ Initialized /\ peer[Destination] # None /\ peer[Destination].peer_address # None
    /\ ~oft_store.paused
    /\ Amounts(Destination, call.amount).received >= 1

\* oft.quote.
Quote ==
    /\ At("quote")
    /\ IF Quotable THEN Become([call EXCEPT !.phase = "build", !.nativeFee = native_fee])
                   ELSE Finish("failed")

\* oft.send looks the peer's address up, for the accounts of the endpoint.
Build ==
    /\ At("build")
    /\ IF Initialized /\ peer[Destination] # None /\ peer[Destination].peer_address # None
       THEN Become([call EXCEPT !.phase = "price", !.remote = peer[Destination].peer_address])
       ELSE Finish("failed")

\* getFee never throws.
Price ==
    /\ At("price")
    /\ \E samples \in Samples :
           Become([call EXCEPT !.phase = "simulate", !.samples = samples,
                               !.price = ComputeUnitPrice(samples, call.quarters)])

\* Mutant of minAmountLd: the minimum of the quote.
QuotedMinimum(amount) == 1

minAmountLd(amount) == (amount * 9) \div 10

Transaction(c, n) ==
    [call |-> n, amount |-> c.amount, min |-> minAmountLd(c.amount),
     nativeFee |-> c.nativeFee, remote |-> c.remote]

\* The transaction would be executed as things are now: send goes through, with
\* the accounts of the peer it was built for, and the endpoint takes the fee.
WouldPass(tx) ==
    /\ Initialized /\ peer[Destination] # None /\ ~oft_store.paused
    /\ tx.remote = peer[Destination].peer_address
    /\ LET r == Amounts(Destination, tx.amount)
       IN /\ Acceptable(r, tx.min)
          /\ Admits(peer[Destination].outbound_rate_limiter, r.received, now)
          /\ balance[Client] >= r.sent
    /\ tx.nativeFee >= native_fee

\* getSimulationComputeUnits, up to three times.
Simulated ==
    /\ At("simulate")
    /\ WouldPass(Transaction(call, calls))
    /\ Become([call EXCEPT !.phase = "submit"])

\* Mutant of NotSimulated: attempts are not counted.
Unsimulated ==
    /\ At("simulate")
    /\ Become(call)

\* The simulation or the RPC fails; after the last attempt the user is asked.
NotSimulated ==
    /\ At("simulate")
    /\ Become(IF call.attempts + 1 = NumOfAttempts
              THEN [call EXCEPT !.phase = "prompt"]
              ELSE [call EXCEPT !.attempts = @ + 1])

\* promptToContinue: with the hardcoded estimate, or not.
Prompted ==
    /\ At("prompt")
    /\ Become([call EXCEPT !.phase = "submit"]) \/ Finish("failed")

\* sendAndConfirm: refused by the preflight check, or on its way.
Submit ==
    /\ At("submit")
    /\ IF WouldPass(Transaction(call, calls))
       THEN /\ inflight' = inflight \cup {Transaction(call, calls)}
            /\ call' = [call EXCEPT !.phase = "await"]
            /\ UNCHANGED <<vars, calls, native_fee, outcome, answer, dealVars>>
       ELSE Finish("failed")

\* Mutants of Confirmed and Rejected: the confirmation is not waited for.
Assumed == At("await")

\* sendAndConfirm returns, from a transaction that was executed with an error too:
\* it reports the error in a result that the script never looks at.
Confirmed == At("await") /\ outcome \in {"ok", "error"}

\* sendAndConfirm throws: the blockhash has expired.
Rejected == At("await") /\ outcome = "expired"

Await == (Confirmed /\ Finish("sent")) \/ (Rejected /\ Finish("failed"))

\* The call breaks off: an interrupt, or an RPC that fails.
Break == Running /\ Finish("broken")

Script ==
    Quote \/ Build \/ Price \/ Simulated \/ NotSimulated \/ Prompted \/ Submit \/ Await
----------------------------------------------------------------------------
Settle(tx, result) ==
    /\ inflight' = inflight \ {tx}
    /\ outcome' = IF Running /\ tx.call = calls THEN result ELSE outcome
    /\ UNCHANGED <<calls, call, native_fee, answer>>

Execute(tx) ==
    /\ WouldPass(tx)
    /\ send(Client, Destination, tx.amount, tx.min, FALSE, ExecOptions)
    /\ deals' = [deals EXCEPT ![tx.call] = @ \cup
                    {[amount |-> tx.amount, paid_ld |-> balance[Client] - balance'[Client],
                      packet |-> p] : p \in sent' \ sent}]
    /\ Settle(tx, "ok")
    /\ UNCHANGED refused

\* It fails on chain, for what has changed or for lack of compute units, or is
\* not executed before its blockhash expires.
Fail(tx) ==
    /\ \/ Settle(tx, "error") /\ refused' = refused \cup {tx.call}
       \/ Settle(tx, "expired") /\ UNCHANGED refused
    /\ UNCHANGED <<vars, deals>>

\* The endpoint's libraries follow the price of gas.
Reprice(fee) ==
    /\ native_fee' = fee
    /\ UNCHANGED <<vars, calls, call, inflight, outcome, answer, dealVars>>

Others == Next /\ UNCHANGED clientVars

ClientNext ==
    \/ Others
    \/ \E amount \in Amounts2Send, quarters \in ScaleFactors : sendOFT(amount, quarters)
    \/ Script
    \/ Break
    \/ \E tx \in inflight : Execute(tx) \/ Fail(tx)
    \/ \E fee \in NativeFees : Reprice(fee)

\* A call goes on unless it breaks off, and every transaction is executed or
\* expires.
ClientSpec ==
    /\ ClientInit /\ [][ClientNext]_allVars
    /\ WF_allVars(Script)
    /\ WF_allVars(\E tx \in inflight : Execute(tx) \/ Fail(tx))
----------------------------------------------------------------------------
\* Whatever becomes of fees, transfer fees and limits between the quote and the
\* transaction: a call takes at most the amount it was given, and sends, for what
\* it takes, at least nine tenths of the amount, rounded down.
FairDeal ==
    \A c \in Calls : \A d \in deals[c] :
        /\ d.paid_ld <= d.amount
        /\ sd2ld(d.packet.amount_sd, oft_store.ld2sd_rate) >= (9 * d.amount) \div 10

\* What a call's answer is worth.  No call sends twice.  When it has answered,
\* nothing of it is under way any more, unless it broke off.  When it fails, nothing
\* was sent and nothing will be, so that it is safe to call again.  When it says that
\* it has sent, one packet is on its way, unless the transaction was executed with
\* an error that the script does not look at; then there is none.
AnswerAccounted ==
    \A c \in 1..calls :
        /\ Cardinality(deals[c]) <= 1
        /\ answer[c] \in {"sent", "failed"} => \A tx \in inflight : tx.call # c
        /\ answer[c] = "sent" => (deals[c] = {} <=> c \in refused)
        /\ answer[c] = "failed" => deals[c] = {}

\* With a factor of 1 or more the price of a compute unit is in the range of what
\* recent slots have charged, times the factor, and 0 only if all were free.
PriceIsRecent ==
    Running /\ call.phase \notin {"quote", "build", "price"} =>
        LET fees == {call.samples[i] : i \in DOMAIN call.samples} \ {0}
            factor == call.quarters \div 4
        IN IF fees = {} THEN call.price = 0
           ELSE /\ \E fee \in fees : call.price >= fee * factor
                /\ \E fee \in fees : call.price <= fee * factor

\* A call ends, with or without success.
CallsEnd == Running ~> ~Running
=============================================================================
