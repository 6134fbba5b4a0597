-------------------------- MODULE ClientSendProofs --------------------------
(***************************************************************************)
(* The send task keeps its word, for any number of calls, whatever becomes *)
(* of the program, the mint and the endpoint between its awaits.           *)
(***************************************************************************)
EXTENDS ClientSend, OFTProofs

\* What a transaction of a call took and sent.
Deal == [amount : Amounts2Send, paid_ld : Int, packet : SentPacket]

\* No transaction of the call is under way.
Gone(c) == \A tx \in inflight : tx.call # c

HistoryInv ==
    /\ calls \in 0..MaxCalls
    /\ answer \in [Calls -> Answers \cup {None}]
    /\ deals \in [Calls -> SUBSET Deal]
    /\ \A c \in Calls :
           /\ c > calls => answer[c] = None /\ deals[c] = {} /\ c \notin refused
           /\ deals[c] = {} \/ \E d \in Deal : deals[c] = {d}

\* A transaction has the minimum of its call, is the only one under way, and has
\* not done anything yet.
InflightInv ==
    \A tx \in inflight :
        /\ tx.call \in 1..calls /\ tx.amount \in Amounts2Send
        /\ tx.min = minAmountLd(tx.amount)
        /\ deals[tx.call] = {} /\ tx.call \notin refused
        /\ \A ty \in inflight : ty.call = tx.call => ty = tx

\* A call whose fields, but for two, may hold anything.
CallOver(V) ==
    [phase : Phases, amount : Amounts2Send, nativeFee : V, remote : V, quarters : V,
     samples : V, price : V, attempts : V]
CallRecord == \E V : call \in CallOver(V)

\* Before it submits, a call has done nothing; then it knows what was done.
RunInv ==
    Running =>
        /\ calls \in Calls /\ CallRecord
        /\ answer[calls] = None
        /\ call.phase # "await" =>
              outcome = None /\ deals[calls] = {} /\ calls \notin refused /\ Gone(calls)
        /\ outcome # None => Gone(calls)
        /\ outcome = "ok" => deals[calls] # {} /\ calls \notin refused
        /\ outcome = "error" => deals[calls] = {} /\ calls \in refused
        /\ outcome = "expired" => deals[calls] = {}

AnswerInv ==
    \A c \in Calls :
        /\ answer[c] \in {"sent", "failed"} => Gone(c)
        /\ answer[c] = "sent" => (deals[c] = {} <=> c \in refused)
        /\ answer[c] = "failed" => deals[c] = {}

DealInv ==
    /\ ~Initialized => \A c \in Calls : deals[c] = {}
    /\ Initialized =>
           \A c \in Calls : \A d \in deals[c] :
               /\ d.paid_ld <= d.amount
               /\ sd2ld(d.packet.amount_sd, oft_store.ld2sd_rate) >= (9 * d.amount) \div 10

CallInv == HistoryInv /\ InflightInv /\ RunInv /\ AnswerInv

ClientInv == IInv /\ SentNonces /\ DealInv /\ CallInv
----------------------------------------------------------------------------
\* No call has been made.
LEMMA ClientStarts == ClientInit => ClientInv
<1> SUFFICES ASSUME ClientInit PROVE ClientInv
    OBVIOUS
<1>1. Init /\ IInv
    BY InitialState DEF ClientInit
<1>2. SentNonces
    BY <1>1 DEF Init, SentNonces
<1>3. CallInv
    BY ClientAssumption, SMT DEF ClientInit, CallInv, HistoryInv, InflightInv, RunInv, AnswerInv,
       Running, Calls, Answers
<1>4. DealInv
    BY <1>1 DEF ClientInit, Init, DealInv, Initialized
<1>5. QED
    BY <1>1, <1>2, <1>3, <1>4 DEF ClientInv

\* Steps of the call that do not touch the program.
LEMMA OutsideStep ==
    ASSUME ClientInv, UNCHANGED vars, UNCHANGED deals
    PROVE  IInv' /\ SentNonces' /\ DealInv'
<1>1. IInv'
    BY StutterStep DEF ClientInv
<1>2. SentNonces'
    BY DEF ClientInv, SentNonces, vars, chainVars, Pathway
<1>3. DealInv'
    BY DEF ClientInv, DealInv, vars, programVars, Initialized
<1>4. QED
    BY <1>1, <1>2, <1>3
----------------------------------------------------------------------------
\* The call goes on, short of submitting.
LEMMA BecomeStep ==
    ASSUME CallInv, Running, call.phase # "await", NEW new_call, Become(new_call),
           CallRecord', new_call.phase # "await"
    PROVE  CallInv'
<1>1. /\ call' = new_call
      /\ UNCHANGED <<calls, inflight, outcome, answer, deals, refused>>
    BY DEF Become, dealVars
<1>2. HistoryInv' /\ InflightInv' /\ AnswerInv'
    BY <1>1 DEF CallInv, HistoryInv, InflightInv, AnswerInv, Gone
<1>3. RunInv'
    BY <1>1 DEF CallInv, RunInv, Running, Gone
<1>4. QED
    BY <1>2, <1>3 DEF CallInv

\* It ends: what it tells is true.
LEMMA FinishStep ==
    ASSUME CallInv, Running, NEW result \in Answers, Finish(result),
           result \in {"sent", "failed"} => Gone(calls),
           result = "sent" => (deals[calls] = {} <=> calls \in refused),
           result = "failed" => deals[calls] = {}
    PROVE  CallInv'
<1>1. /\ call' = None /\ answer' = [answer EXCEPT ![calls] = result]
      /\ UNCHANGED <<calls, inflight, deals, refused>>
    BY DEF Finish, dealVars
<1>2. calls \in Calls /\ calls \in Nat
    BY ClientAssumption, SMT DEF CallInv, RunInv, HistoryInv
<1>3. HistoryInv'
    BY <1>1, <1>2 DEF CallInv, HistoryInv
<1>4. InflightInv' /\ RunInv'
    BY <1>1 DEF CallInv, InflightInv, RunInv, Running
<1>5. AnswerInv'
    BY <1>1, <1>2 DEF CallInv, HistoryInv, AnswerInv, Gone
<1>6. QED
    BY <1>3, <1>4, <1>5 DEF CallInv

\* The call at another phase, with other values in some of its fields.
Moved(new_call, phase, a, b) ==
    \/ new_call = [call EXCEPT !.phase = phase]
    \/ new_call = [call EXCEPT !.phase = phase, !.nativeFee = a]
    \/ new_call = [call EXCEPT !.phase = phase, !.remote = a]
    \/ new_call = [call EXCEPT !.phase = phase, !.samples = a, !.price = b]
    \/ new_call = [call EXCEPT !.attempts = a] /\ call.phase = phase

\* It is a call again, and at that phase.
LEMMA CallFields ==
    ASSUME CallRecord, NEW phase \in Phases, NEW a, NEW b, NEW new_call,
           Moved(new_call, phase, a, b), call' = new_call
    PROVE  CallRecord' /\ new_call.phase = phase
<1>1. PICK V : call \in CallOver(V)
    BY DEF CallRecord
<1>2. PICK W : W = V \cup {a, b}
    OBVIOUS
<1>3. call \in CallOver(W) /\ a \in W /\ b \in W
    BY <1>1, <1>2 DEF CallOver
<1>4. new_call \in CallOver(W) /\ new_call.phase = phase
    BY <1>3 DEF CallOver, Moved
<1>5. QED
    BY <1>4 DEF CallRecord

\* A new call has no answer, no deal and no transaction.
LEMMA StartStep ==
    ASSUME CallInv, NEW amount \in Amounts2Send, NEW quarters, sendOFT(amount, quarters)
    PROVE  CallInv'
<1>1. /\ calls' = calls + 1 /\ calls < MaxCalls /\ outcome' = None
      /\ call' = [phase |-> "quote", amount |-> amount, nativeFee |-> 0, remote |-> None,
                  quarters |-> quarters, samples |-> <<>>, price |-> 0, attempts |-> 0]
      /\ UNCHANGED <<inflight, answer, deals, refused>>
    BY DEF sendOFT, dealVars
<1>2. calls \in Nat /\ calls' \in Calls /\ calls' \in 0..MaxCalls
    BY <1>1, ClientAssumption, SMT DEF CallInv, HistoryInv, Calls
<1>3. answer[calls'] = None /\ deals[calls'] = {} /\ calls' \notin refused
    BY <1>1, <1>2, SMT DEF CallInv, HistoryInv
<1>4. HistoryInv'
    BY <1>1, <1>2, SMT DEF CallInv, HistoryInv
<1>5. InflightInv' /\ Gone(calls')
    <2>1. \A n \in 1..calls : n \in 1..calls' /\ n # calls'
        BY <1>1, <1>2, SMT
    <2>2. \A tx \in inflight : tx.call \in 1..calls' /\ tx.call # calls'
        BY <2>1 DEF CallInv, InflightInv
    <2>3. QED
        BY <1>1, <2>2 DEF CallInv, InflightInv, Gone
<1>6. RunInv'
    <2>1. CallRecord' /\ call'.phase = "quote"
        <3>1. PICK V : V = {0, None, quarters, <<>>}
            OBVIOUS
        <3>2. call' \in CallOver(V) /\ call'.phase = "quote"
            BY <1>1, <3>1 DEF CallOver, Phases
        <3>3. QED
            BY <3>2 DEF CallRecord
    <2>2. Gone(calls)'
        BY <1>1, <1>5 DEF Gone
    <2>3. outcome' \notin {"ok", "error", "expired"}
        BY <1>1, ClientAssumption
    <2>4. QED
        BY <1>1, <1>2, <1>3, <2>1, <2>2, <2>3 DEF RunInv
<1>7. AnswerInv'
    BY <1>1 DEF CallInv, AnswerInv, Gone
<1>8. QED
    BY <1>4, <1>5, <1>6, <1>7 DEF CallInv

\* The transaction is on its way: the first of its call.
LEMMA SubmitStep ==
    ASSUME CallInv, Submit
    PROVE  CallInv'
<1>1. Running /\ call.phase = "submit"
    BY DEF Submit, At
<1>2. calls \in Calls /\ CallRecord /\ answer[calls] = None /\ outcome = None
      /\ deals[calls] = {} /\ calls \notin refused /\ Gone(calls)
    BY <1>1 DEF CallInv, RunInv
<1>3. CASE Finish("failed")
    BY <1>1, <1>2, <1>3, FinishStep DEF Answers
<1>4. ASSUME /\ inflight' = inflight \cup {Transaction(call, calls)}
             /\ call' = [call EXCEPT !.phase = "await"]
             /\ UNCHANGED <<vars, calls, native_fee, outcome, answer, deals, refused>>
      PROVE  CallInv'
    <2>1. HistoryInv'
        BY <1>4 DEF CallInv, HistoryInv
    <2>2. PICK tx : tx = Transaction(call, calls)
        OBVIOUS
    <2>3. tx.call = calls /\ tx.amount \in Amounts2Send /\ tx.min = minAmountLd(tx.amount)
        BY <1>2, <2>2 DEF Transaction, CallRecord, CallOver
    <2>4. calls \in 1..calls
        BY <1>2, ClientAssumption, SMT DEF Calls
    <2>5. InflightInv'
        BY <1>2, <1>4, <2>2, <2>3, <2>4 DEF CallInv, InflightInv, Gone
    <2>6. CallRecord' /\ call'.phase = "await"
        <3>1. "await" \in Phases
            BY DEF Phases
        <3>2. Moved(call', "await", None, None)
            BY <1>4 DEF Moved
        <3>3. QED
            BY <1>2, <3>1, <3>2, CallFields
    <2>7. outcome' \notin {"ok", "error", "expired"}
        BY <1>2, <1>4, ClientAssumption
    <2>8. RunInv'
        BY <1>2, <1>4, <2>6, <2>7 DEF RunInv
    <2>9. AnswerInv'
        <3>1. answer[calls] \notin {"sent", "failed"}
            BY <1>2, ClientAssumption DEF Answers
        <3>2. QED
            BY <1>4, <2>2, <2>3, <3>1 DEF CallInv, AnswerInv, Gone
    <2>10. QED
        BY <2>1, <2>5, <2>8, <2>9 DEF CallInv
<1>5. QED
    BY <1>3, <1>4 DEF Submit, dealVars

\* What the call tells follows from the outcome it has waited for.
LEMMA AwaitStep ==
    ASSUME CallInv, Await
    PROVE  CallInv'
<1>1. Running
    BY DEF Await, Confirmed, Rejected, At
<1>2. CASE Confirmed /\ Finish("sent")
    <2>1. Gone(calls) /\ (deals[calls] = {} <=> calls \in refused)
        BY <1>1, <1>2, ClientAssumption DEF Confirmed, CallInv, RunInv
    <2>2. QED
        BY <1>1, <1>2, <2>1, FinishStep DEF Answers
<1>3. CASE Rejected /\ Finish("failed")
    <2>1. outcome = "expired" /\ outcome # None
        BY <1>3, ClientAssumption DEF Rejected
    <2>2. deals[calls] = {} /\ Gone(calls)
        BY <1>1, <2>1 DEF CallInv, RunInv
    <2>3. QED
        BY <1>1, <1>3, <2>2, FinishStep DEF Answers
<1>4. QED
    BY <1>2, <1>3 DEF Await

\* Every await of the script, by its phase.
LEMMA ScriptStep ==
    ASSUME CallInv, Script
    PROVE  CallInv'
<1> DEFINE Quiet == Running /\ call.phase # "await"
<1>1. ASSUME Quiet, Finish("failed") PROVE CallInv'
    BY <1>1, FinishStep DEF CallInv, RunInv, Answers
<1>2. ASSUME Quiet, NEW new_call, Become(new_call), CallRecord', new_call.phase # "await"
      PROVE  CallInv'
    BY <1>2, BecomeStep
<1>3. ASSUME Quiet PROVE CallRecord /\ call.phase \in Phases
    <2>1. CallRecord
        BY <1>3 DEF CallInv, RunInv
    <2>2. QED
        BY <2>1 DEF CallRecord, CallOver
<1>4. ASSUME Quiet, NEW new_call, Become(new_call), NEW phase \in Phases \ {"await"}, NEW a, NEW b,
             Moved(new_call, phase, a, b)
      PROVE  CallInv'
    <2>1. call' = new_call
        BY <1>4 DEF Become
    <2>2. CallRecord' /\ new_call.phase = phase
        BY <1>3, <1>4, <2>1, CallFields
    <2>3. QED
        BY <1>2, <1>4, <2>2
<1>5. CASE Quote
    <2>1. Quiet /\ "build" \in Phases \ {"await"}
        BY <1>5 DEF Quote, At, Phases
    <2>2. ASSUME Become([call EXCEPT !.phase = "build", !.nativeFee = native_fee]) PROVE CallInv'
        <3>1. PICK new_call : new_call = [call EXCEPT !.phase = "build", !.nativeFee = native_fee]
            OBVIOUS
        <3>2. Moved(new_call, "build", native_fee, None)
            BY <3>1 DEF Moved
        <3>3. QED
            BY <1>4, <2>1, <2>2, <3>1, <3>2
    <2>3. QED
        BY <1>1, <1>5, <2>1, <2>2 DEF Quote
<1>6. CASE Build
    <2>1. Quiet /\ "price" \in Phases \ {"await"}
        BY <1>6 DEF Build, At, Phases
    <2>2. ASSUME Become([call EXCEPT !.phase = "price",
                                       !.remote = peer[Destination].peer_address]) PROVE CallInv'
        <3>1. PICK new_call : new_call = [call EXCEPT !.phase = "price",
                                       !.remote = peer[Destination].peer_address]
            OBVIOUS
        <3>2. Moved(new_call, "price", peer[Destination].peer_address, None)
            BY <3>1 DEF Moved
        <3>3. QED
            BY <1>4, <2>1, <2>2, <3>1, <3>2
    <2>3. QED
        BY <1>1, <1>6, <2>1, <2>2 DEF Build
<1>8. CASE Simulated
    <2>1. Quiet /\ "submit" \in Phases \ {"await"}
        BY <1>8 DEF Simulated, At, Phases
    <2>2. ASSUME Become([call EXCEPT !.phase = "submit"]) PROVE CallInv'
        <3>1. PICK new_call : new_call = [call EXCEPT !.phase = "submit"]
            OBVIOUS
        <3>2. Moved(new_call, "submit", None, None)
            BY <3>1 DEF Moved
        <3>3. QED
            BY <1>4, <2>1, <2>2, <3>1, <3>2
    <2>3. QED
        BY <1>8, <2>1, <2>2 DEF Simulated
<1>7. CASE Price
    <2>1. Quiet /\ "simulate" \in Phases \ {"await"}
        BY <1>7 DEF Price, At, Phases
    <2>2. PICK samples \in Samples :
             Become([call EXCEPT !.phase = "simulate", !.samples = samples,
                                 !.price = ComputeUnitPrice(samples, call.quarters)])
        BY <1>7 DEF Price
    <2>3. PICK price : price = ComputeUnitPrice(samples, call.quarters)
        OBVIOUS
    <2>4. PICK new_call : new_call = [call EXCEPT !.phase = "simulate", !.samples = samples,
                                                  !.price = price]
        OBVIOUS
    <2>5. Moved(new_call, "simulate", samples, price)
        BY <2>4 DEF Moved
    <2>6. Become(new_call)
        BY <2>2, <2>3, <2>4
    <2>7. QED
        BY <1>4, <2>1, <2>5, <2>6
<1>9. CASE NotSimulated
    <2>1. /\ Quiet /\ call.phase = "simulate"
          /\ "prompt" \in Phases \ {"await"} /\ "simulate" \in Phases \ {"await"}
        BY <1>9 DEF NotSimulated, At, Phases
    <2>2. ASSUME Become([call EXCEPT !.phase = "prompt"]) PROVE CallInv'
        <3>1. PICK new_call : new_call = [call EXCEPT !.phase = "prompt"]
            OBVIOUS
        <3>2. Moved(new_call, "prompt", None, None)
            BY <3>1 DEF Moved
        <3>3. QED
            BY <1>4, <2>1, <2>2, <3>1, <3>2
    <2>3. ASSUME Become([call EXCEPT !.attempts = call.attempts + 1]) PROVE CallInv'
        <3>1. PICK n : n = call.attempts + 1
            OBVIOUS
        <3>2. PICK new_call : new_call = [call EXCEPT !.attempts = n]
            OBVIOUS
        <3>3. Moved(new_call, "simulate", n, None)
            BY <2>1, <3>2 DEF Moved
        <3>4. Become(new_call)
            BY <2>3, <3>1, <3>2
        <3>5. QED
            BY <1>4, <2>1, <3>3, <3>4
    <2>4. QED
        BY <1>9, <2>2, <2>3 DEF NotSimulated
<1>10. CASE Prompted
    <2>1. Quiet /\ "submit" \in Phases \ {"await"}
        BY <1>10 DEF Prompted, At, Phases
    <2>2. ASSUME Become([call EXCEPT !.phase = "submit"]) PROVE CallInv'
        <3>1. PICK new_call : new_call = [call EXCEPT !.phase = "submit"]
            OBVIOUS
        <3>2. Moved(new_call, "submit", None, None)
            BY <3>1 DEF Moved
        <3>3. QED
            BY <1>4, <2>1, <2>2, <3>1, <3>2
    <2>3. QED
        BY <1>1, <1>10, <2>1, <2>2 DEF Prompted
<1>11. QED
    BY <1>5, <1>6, <1>7, <1>8, <1>9, <1>10, SubmitStep, AwaitStep DEF Script
----------------------------------------------------------------------------
\* Steps of the chain on which the call depends.

\* Nothing of the call changes.
LEMMA CallKept ==
    ASSUME CallInv, UNCHANGED <<calls, call, inflight, outcome, answer, dealVars>>
    PROVE  CallInv'
<1>1. HistoryInv' /\ InflightInv' /\ AnswerInv'
    BY DEF CallInv, HistoryInv, InflightInv, AnswerInv, Gone, dealVars
<1>2. RunInv'
    BY DEF CallInv, RunInv, Running, Gone, CallRecord, dealVars
<1>3. QED
    BY <1>1, <1>2 DEF CallInv

\* A transaction fails or expires: it is gone, and nothing was done.
LEMMA FailStep ==
    ASSUME CallInv, NEW tx \in inflight, Fail(tx)
    PROVE  CallInv'
<1>1. PICK result \in {"error", "expired"} :
          /\ Settle(tx, result) /\ deals' = deals
          /\ refused' = IF result = "error" THEN refused \cup {tx.call} ELSE refused
    BY DEF Fail
<1>2. /\ inflight' = inflight \ {tx}
      /\ outcome' = IF Running /\ tx.call = calls THEN result ELSE outcome
      /\ UNCHANGED <<calls, call, answer, deals>>
      /\ \A c : c # tx.call => (c \in refused' <=> c \in refused)
    BY <1>1 DEF Settle
<1>3. /\ deals[tx.call] = {} /\ tx.call \notin refused /\ tx.call \in 1..calls
      /\ \A ty \in inflight : ty.call = tx.call => ty = tx
    BY DEF CallInv, InflightInv
<1>4. HistoryInv'
    <2>1. ~(tx.call > calls)
        BY <1>3, ClientAssumption, SMT DEF CallInv, HistoryInv
    <2>2. QED
        BY <1>2, <2>1 DEF CallInv, HistoryInv
<1>5. InflightInv'
    BY <1>2, <1>3 DEF CallInv, InflightInv
<1>6. \A c : Gone(c) => Gone(c)'
    BY <1>2 DEF Gone
<1>7. AnswerInv'
    <2>1. ~Gone(tx.call)
        BY DEF Gone
    <2>2. QED
        BY <1>2, <1>6, <2>1 DEF CallInv, AnswerInv
<1>8. RunInv'
    <2> SUFFICES ASSUME Running PROVE RunInv'
        BY <1>2 DEF RunInv, Running
    <2>1. CASE tx.call = calls
        <3>1. Gone(calls)'
            BY <1>2, <1>3, <2>1 DEF Gone
        <3>2. ~Gone(calls)
            BY <2>1 DEF Gone
        <3>3. outcome' = result /\ result # "ok" /\ (result = "error" <=> calls \in refused')
            BY <1>1, <1>2, <1>3, <2>1
        <3>4. QED
            BY <1>2, <1>3, <2>1, <3>1, <3>2, <3>3 DEF CallInv, RunInv, Running, CallRecord
    <2>2. CASE tx.call # calls
        BY <1>2, <1>6, <2>2 DEF CallInv, RunInv, Running, CallRecord
    <2>3. QED
        BY <2>1, <2>2
<1>9. QED
    BY <1>4, <1>5, <1>7, <1>8 DEF CallInv

\* The minimum of a transaction is a u64, and nine tenths of its amount.
LEMMA MinimumType ==
    ASSUME NEW amount \in Amounts2Send
    PROVE  /\ amount \in U64 /\ minAmountLd(amount) \in U64
           /\ minAmountLd(amount) = (9 * amount) \div 10
<1>1. amount \in U64 /\ amount \in Nat /\ amount <= MaxU64 /\ MaxU64 \in Nat
    BY ClientAssumption, MathAssumption, SMT DEF U64
<1>2. amount * 9 \in Nat /\ amount * 9 = 9 * amount /\ amount * 9 <= 10 * MaxU64
    BY <1>1, SMT
<1>3. (amount * 9) \div 10 \in Nat /\ (amount * 9) \div 10 <= MaxU64
    BY <1>1, <1>2, SMT
<1>4. QED
    BY <1>1, <1>2, <1>3, SMT DEF minAmountLd, U64

\* What the transaction of a call does: one packet, at the terms of the call.
LEMMA ExecuteDeal ==
    ASSUME ClientInv, NEW tx \in inflight, Execute(tx)
    PROVE  /\ IInv' /\ SentNonces' /\ Initialized /\ Initialized'
           /\ oft_store'.ld2sd_rate = oft_store.ld2sd_rate
           /\ \E d \in Deal :
                 /\ deals' = [deals EXCEPT ![tx.call] = deals[tx.call] \cup {d}]
                 /\ d.paid_ld <= d.amount
                 /\ sd2ld(d.packet.amount_sd, oft_store.ld2sd_rate) >= (9 * d.amount) \div 10
<1>1. /\ tx.amount \in Amounts2Send /\ tx.min = minAmountLd(tx.amount)
      /\ IInv /\ SentNonces
    BY DEF ClientInv, CallInv, InflightInv
<1>2. /\ Client \in Users /\ Destination \in Eids /\ tx.amount \in U64 /\ tx.min \in U64
      /\ tx.min = (9 * tx.amount) \div 10
      /\ FALSE \in BOOLEAN /\ ExecOptions \in SUBSET ExecOptions
    BY <1>1, MinimumType, ClientAssumption
<1>3. send(Client, Destination, tx.amount, tx.min, FALSE, ExecOptions)
    BY DEF Execute
<1>4. IInv'
    BY <1>1, <1>2, <1>3, SendStep
<1>5. PICK r, sd : /\ r = Amounts(Destination, tx.amount)
                   /\ sd = ld2sd(r.received, oft_store.ld2sd_rate)
    OBVIOUS
<1>6. /\ Initialized /\ peer[Destination] # None /\ r.received >= tx.min
      /\ TakeTokens(Client, r)
    BY <1>3, <1>5 DEF send, Acceptable
<1>7. /\ r.sent \in Nat /\ r.sent <= tx.amount /\ sd \in Nat
      /\ r.received = oft_store.ld2sd_rate * sd
    BY <1>1, <1>2, <1>5, <1>6, SendAmounts
<1>8. PICK p \in sent' : sent' \ sent = {p} /\ p.amount_sd = sd
    <2>1. IInv /\ SentNonces /\ Destination \in Eids /\ tx.amount \in U64
        BY <1>1, <1>2
    <2>2. OnePacketOf(ld2sd(Amounts(Destination, tx.amount).received, oft_store.ld2sd_rate))
        BY ONLY <2>1, <1>3, SendIsNew
    <2>3. QED
        BY <1>5, <2>2 DEF OnePacketOf, NewPacket
<1>9. SentNonces'
    BY <1>1, <1>2, <1>3, SendIsNew
<1>10. Initialized' /\ oft_store'.ld2sd_rate = oft_store.ld2sd_rate
    BY <1>1, <1>6, TakenFrom
<1>11. PICK paid : paid = balance[Client] - balance'[Client]
    OBVIOUS
<1>12. paid = r.sent
    <2>1. balance' = [balance EXCEPT ![Client] = balance[Client] - r.sent]
        BY <1>6 DEF TakeTokens, LockTokens, BurnTokens
    <2>2. balance \in [Users -> Nat]
        BY <1>1 DEF IInv, TypeOK
    <2>3. balance[Client] \in Nat /\ balance'[Client] = balance[Client] - r.sent
        BY <1>2, <2>1, <2>2
    <2>4. QED
        BY <1>7, <1>11, <2>3, SMT
<1>13. PICK d : d = [amount |-> tx.amount, paid_ld |-> paid, packet |-> p]
    OBVIOUS
<1>14. d \in Deal
    <2>1. p \in SentPacket
        BY <1>4 DEF IInv, TypeOK
    <2>2. paid \in Int
        BY <1>7, <1>12, SMT
    <2>3. QED
        BY <1>1, <1>13, <2>1, <2>2 DEF Deal
<1>15. deals' = [deals EXCEPT ![tx.call] = deals[tx.call] \cup {d}]
    BY <1>8, <1>11, <1>13 DEF Execute
<1>16. d.paid_ld <= d.amount
    BY <1>7, <1>12, <1>13
<1>17. sd2ld(d.packet.amount_sd, oft_store.ld2sd_rate) >= (9 * d.amount) \div 10
    <2>1. oft_store.ld2sd_rate \in Nat
        BY <1>1, <1>6, StoreTypes DEF IInv
    <2>2. oft_store.ld2sd_rate * sd = sd * oft_store.ld2sd_rate
        BY <1>7, <2>1, SMT
    <2>3. d.packet.amount_sd = sd /\ d.amount = tx.amount
        BY <1>8, <1>13
    <2>4. QED
        BY <1>2, <1>6, <1>7, <2>2, <2>3 DEF sd2ld
<1>18. QED
    BY <1>4, <1>6, <1>9, <1>10, <1>14, <1>15, <1>16, <1>17

\* The call whose transaction is executed learns of it, and of no other.
LEMMA ExecuteStep ==
    ASSUME ClientInv, NEW tx \in inflight, Execute(tx)
    PROVE  ClientInv'
<1>1. PICK d \in Deal :
         /\ deals' = [deals EXCEPT ![tx.call] = deals[tx.call] \cup {d}]
         /\ d.paid_ld <= d.amount
         /\ sd2ld(d.packet.amount_sd, oft_store.ld2sd_rate) >= (9 * d.amount) \div 10
    BY ExecuteDeal
<1>2. /\ inflight' = inflight \ {tx}
      /\ outcome' = IF Running /\ tx.call = calls THEN "ok" ELSE outcome
      /\ UNCHANGED <<calls, call, answer, refused>>
    BY DEF Execute, Settle
<1>3. /\ tx.call \in 1..calls /\ deals[tx.call] = {} /\ tx.call \notin refused
      /\ \A ty \in inflight : ty.call = tx.call => ty = tx
    BY DEF ClientInv, CallInv, InflightInv
<1>4. tx.call \in Calls /\ ~(tx.call > calls)
    BY <1>3, ClientAssumption, SMT DEF ClientInv, CallInv, HistoryInv, Calls
<1>5. deals \in [Calls -> SUBSET Deal]
    BY DEF ClientInv, CallInv, HistoryInv
<1>6. /\ deals' \in [Calls -> SUBSET Deal] /\ deals'[tx.call] = {d}
      /\ \A c \in Calls \ {tx.call} : deals'[c] = deals[c]
    BY <1>1, <1>3, <1>4, <1>5
<1>7. DealInv'
    BY <1>1, <1>6, ExecuteDeal DEF ClientInv, DealInv
<1>8. HistoryInv'
    BY <1>2, <1>4, <1>6 DEF ClientInv, CallInv, HistoryInv
<1>9. InflightInv'
    <2>1. ASSUME NEW ty \in inflight' PROVE deals'[ty.call] = {}
        <3>1. ty \in inflight /\ ty.call # tx.call
            BY <1>2, <1>3, <2>1
        <3>2. deals[ty.call] = {} /\ ty.call \in 1..calls
            BY <3>1 DEF ClientInv, CallInv, InflightInv
        <3>3. ty.call \in Calls
            BY <3>2, ClientAssumption, SMT DEF ClientInv, CallInv, HistoryInv, Calls
        <3>4. QED
            BY <1>6, <3>1, <3>2, <3>3
    <2>2. QED
        BY <1>2, <2>1 DEF ClientInv, CallInv, InflightInv
<1>10. AnswerInv'
    <2>1. ~Gone(tx.call) /\ \A c : Gone(c) => Gone(c)'
        BY <1>2 DEF Gone
    <2>2. QED
        BY <1>2, <1>6, <2>1 DEF ClientInv, CallInv, AnswerInv
<1>11. RunInv'
    <2> SUFFICES ASSUME Running PROVE RunInv'
        BY <1>2 DEF RunInv, Running
    <2>1. \A c : Gone(c) => Gone(c)'
        BY <1>2 DEF Gone
    <2>2. CASE tx.call = calls
        <3>1. Gone(calls)' /\ ~Gone(calls)
            BY <1>2, <1>3, <2>2 DEF Gone
        <3>2. outcome' = "ok" /\ deals'[calls] # {} /\ calls \notin refused'
            BY <1>2, <1>3, <1>6, <2>2
        <3>3. call.phase = "await"
            BY <3>1 DEF ClientInv, CallInv, RunInv
        <3>4. QED
            BY <1>2, <3>1, <3>2, <3>3 DEF ClientInv, CallInv, RunInv, Running, CallRecord
    <2>3. CASE tx.call # calls
        BY <1>2, <1>6, <2>1, <2>3 DEF ClientInv, CallInv, RunInv, Running, CallRecord
    <2>4. QED
        BY <2>2, <2>3
<1>12. QED
    BY <1>7, <1>8, <1>9, <1>10, <1>11, ExecuteDeal DEF ClientInv, CallInv
----------------------------------------------------------------------------
\* Everybody else: the program keeps its rate, and its packets their nonces.
LEMMA OthersStep ==
    ASSUME ClientInv, Others
    PROVE  ClientInv'
<1>1. Next /\ UNCHANGED <<calls, call, inflight, outcome, answer, dealVars>>
    BY DEF Others, clientVars
<1>2. IInv'
    BY <1>1, NextStep DEF ClientInv
<1>3. CallInv'
    BY <1>1, CallKept DEF ClientInv
<1>4. SentNonces' /\ (Initialized => Initialized' /\ oft_store'.ld2sd_rate = oft_store.ld2sd_rate)
    <2>1. CASE UNCHANGED <<sent, received, credited>>
               /\ (Initialized => Initialized' /\ oft_store'.ld2sd_rate = oft_store.ld2sd_rate)
        BY <2>1 DEF ClientInv, SentNonces, Pathway
    <2>2. ASSUME NEW user \in Users, NEW eid \in Eids, NEW amount_ld \in U64,
                 NEW min_amount_ld \in MinAmounts, NEW compose \in ComposeChoices,
                 NEW options \in SUBSET ExecOptions,
                 send(user, eid, amount_ld, min_amount_ld, compose, options)
          PROVE  SentNonces' /\ Initialized' /\ oft_store'.ld2sd_rate = oft_store.ld2sd_rate
        <3>1. Initialized /\ \E r : TakeTokens(user, r)
            BY <2>2 DEF send
        <3>2. QED
            BY <2>2, <3>1, SendIsNew, TakenFrom DEF ClientInv
    <2>3. ASSUME NEW packet \in inbox, lz_receive(packet)
          PROVE  SentNonces' /\ Initialized' /\ oft_store'.ld2sd_rate = oft_store.ld2sd_rate
        <3>1. Initialized /\ sent' = sent
            BY <2>3 DEF lz_receive, Open
        <3>2. Initialized' /\ oft_store'.ld2sd_rate = oft_store.ld2sd_rate
            BY <2>3, <3>1, GivenFrom DEF lz_receive, ClientInv
        <3>3. QED
            BY <3>1, <3>2 DEF ClientInv, SentNonces, Pathway
    <2>4. QED
        BY <1>1, <2>1, <2>2, <2>3, WhoMoves DEF ClientInv
<1>5. DealInv'
    <2>1. deals' = deals
        BY <1>1 DEF dealVars
    <2>2. CASE Initialized
        BY <1>4, <2>1, <2>2 DEF ClientInv, DealInv
    <2>3. CASE ~Initialized
        BY <2>1, <2>3 DEF ClientInv, DealInv
    <2>4. QED
        BY <2>2, <2>3
<1>6. QED
    BY <1>2, <1>3, <1>4, <1>5 DEF ClientInv

\* Every step, of the task, the chain or anybody else, keeps the invariant.
LEMMA ClientStep == ClientInv /\ [ClientNext]_allVars => ClientInv'
<1> SUFFICES ASSUME ClientInv, [ClientNext]_allVars PROVE ClientInv'
    OBVIOUS
<1>1. ASSUME CallInv', UNCHANGED vars, UNCHANGED deals PROVE ClientInv'
    BY <1>1, OutsideStep DEF ClientInv
<1>2. CASE UNCHANGED allVars
    BY <1>1, <1>2, CallKept DEF allVars, clientVars, dealVars, ClientInv
<1>3. ASSUME NEW amount \in Amounts2Send, NEW quarters \in ScaleFactors, sendOFT(amount, quarters)
      PROVE  ClientInv'
    <2>1. CallInv'
        BY <1>3, StartStep DEF ClientInv
    <2>2. QED
        BY <1>1, <1>3, <2>1 DEF sendOFT, dealVars
<1>4. CASE Script
    <2>1. CallInv'
        BY <1>4, ScriptStep DEF ClientInv
    <2>2. UNCHANGED vars /\ UNCHANGED deals
        BY <1>4 DEF Script, Quote, Build, Price, Simulated, NotSimulated, Prompted, Submit, Await,
           Become, Finish, dealVars
    <2>3. QED
        BY <1>1, <2>1, <2>2
<1>5. CASE Break
    <2>1. CallInv'
        BY <1>5, FinishStep DEF ClientInv, Break, Answers
    <2>2. QED
        BY <1>1, <1>5, <2>1 DEF Break, Finish, dealVars
<1>6. ASSUME NEW tx \in inflight, Fail(tx) PROVE ClientInv'
    <2>1. CallInv'
        BY <1>6, FailStep DEF ClientInv
    <2>2. QED
        BY <1>1, <1>6, <2>1 DEF Fail
<1>7. ASSUME NEW fee \in NativeFees, Reprice(fee) PROVE ClientInv'
    <2>1. CallInv'
        BY <1>7, CallKept DEF ClientInv, Reprice
    <2>2. QED
        BY <1>1, <1>7, <2>1 DEF Reprice, dealVars
<1>8. QED
    BY <1>2, <1>3, <1>4, <1>5, <1>6, <1>7, ExecuteStep, OthersStep DEF ClientNext

\* So it holds for ever.
LEMMA ClientInvariant == ClientSpec => []ClientInv
  BY ClientStarts, ClientStep, PTL DEF ClientSpec

\* A call takes what it was given at most, and sends nine tenths of it at least,
\* for all fees, decimals and amounts, and all that happens between its awaits.
THEOREM DealAlwaysFair == ClientSpec => []FairDeal
<1>1. ClientInv => FairDeal
    BY DEF ClientInv, DealInv, FairDeal
<1>2. QED
    BY ClientInvariant, <1>1, PTL

\* What a call says is what happened to its one transaction, however often the task
\* is called and however late transactions are executed, but for an error on chain,
\* which passes for a success.
THEOREM AnswerAlwaysAccounted == ClientSpec => []AnswerAccounted
<1>1. ClientInv => AnswerAccounted
    <2> SUFFICES ASSUME ClientInv, NEW c \in 1..calls
                 PROVE  /\ Cardinality(deals[c]) <= 1
                        /\ answer[c] \in {"sent", "failed"} => \A tx \in inflight : tx.call # c
                        /\ answer[c] = "sent" => (deals[c] = {} <=> c \in refused)
                        /\ answer[c] = "failed" => deals[c] = {}
        BY DEF AnswerAccounted
    <2>1. c \in Calls
        BY ClientAssumption, SMT DEF ClientInv, CallInv, HistoryInv, Calls
    <2>2. Cardinality(deals[c]) <= 1
        <3>1. deals[c] = {} \/ \E d \in Deal : deals[c] = {d}
            BY <2>1 DEF ClientInv, CallInv, HistoryInv
        <3>2. Cardinality({}) = 0 /\ \A d : Cardinality({d}) = 1
            BY FS_EmptySet, FS_Singleton
        <3>3. 0 <= 1 /\ 1 <= 1
            BY SMT
        <3>4. QED
            BY <3>1, <3>2, <3>3
    <2>3. QED
        BY <2>1, <2>2 DEF ClientInv, CallInv, AnswerInv, Gone
<1>2. QED
    BY ClientInvariant, <1>1, PTL
----------------------------------------------------------------------------
\* What a call offers for its compute units.

\* The sum in an average, for a function of naturals with a finite domain.
LEMMA FeeTotal ==
    ASSUME NEW fees, IsFiniteSet(DOMAIN fees)
    PROVE  SumFunction(fees) = SumOf(fees, DOMAIN fees)
<1> DEFINE S == DOMAIN fees
           Table(it) ==
        it = [s \in SUBSET S |->
                 IF s = {} THEN 0
                 ELSE LET x == CHOOSE x \in s : TRUE IN fees[x] + it[s \ {x}]]
<1>1. ASSUME NEW it PROVE SumsOver(it, S, fees) <=> Table(it)
    BY DEF SumsOver, NextSum
<1>2. SumFunction(fees) = (CHOOSE it : Table(it))[S]
    BY Zenon DEF SumFunction, SumFunctionOnSet, FoldFunctionOnSet, MapThenFoldSet
<1>3. (CHOOSE it : SumsOver(it, S, fees)) = CHOOSE it : Table(it)
    <2> HIDE DEF Table, S
    <2> QED
        BY <1>1, Zenon
<1>4. QED
    BY <1>2, <1>3, Zenon DEF SumOf

\* What PriceIsRecent says of a price.
InRange(samples, quarters, price) ==
    LET fees == {samples[i] : i \in DOMAIN samples} \ {0}
        factor == quarters \div 4
    IN IF fees = {} THEN price = 0
       ELSE /\ \E fee \in fees : price >= fee * factor
            /\ \E fee \in fees : price <= fee * factor

\* Slots that charge nothing do not count; without any other the price is 0.
LEMMA PriceIsBetween ==
    ASSUME NEW samples \in Seq(Nat), NEW quarters \in Nat
    PROVE  InRange(samples, quarters, ComputeUnitPrice(samples, quarters))
<1> USE DEF InRange
<1>1. PICK S : S = {i \in DOMAIN samples : samples[i] # 0}
    OBVIOUS
<1>2. PICK fees : fees = [i \in S |-> samples[i]]
    OBVIOUS
<1>3. NonZero(samples) = fees /\ DOMAIN fees = S
    BY <1>1, <1>2 DEF NonZero, Chargeable, RestrictValues, Restrict
<1>4. IsFiniteSet(S)
    <2>1. DOMAIN samples = 1..Len(samples) /\ Len(samples) \in Nat
        OBVIOUS
    <2>2. IsFiniteSet(DOMAIN samples)
        BY <2>1, FS_Interval
    <2>3. QED
        BY <1>1, <2>2, FS_Subset
<1>5. PICK factor \in Nat : factor = quarters \div 4
    BY SMT
<1>6. ComputeUnitPrice(samples, quarters) = Average(fees) * factor
    <2>1. PICK a, m : a = Average(samples) /\ m = Median(SelectSeq(samples, Chargeable))
        OBVIOUS
    <2>2. getPrioritizationFees(samples).averageFeeExcludingZeros = Average(fees)
        BY <1>3, <2>1 DEF getPrioritizationFees
    <2>3. QED
        BY <1>5, <2>2 DEF ComputeUnitPrice
<1>7. {samples[i] : i \in DOMAIN samples} \ {0} = {fees[i] : i \in S}
    BY <1>1, <1>2
<1>8. CASE S = {}
    <2>1. Average(fees) = 0
        BY <1>3, <1>8 DEF Average
    <2>2. 0 * factor = 0
        BY <1>5, SMT
    <2>3. QED
        BY <1>6, <1>7, <1>8, <2>1, <2>2
<1>9. CASE S # {}
    <2>1. \A i \in S : fees[i] \in Nat
        BY <1>1, <1>2
    <2>2. PICK mean : mean = Average(fees)
        OBVIOUS
    <2>3. mean = SumOf(fees, S) \div Cardinality(S)
        BY <1>3, <1>4, <1>9, <2>2, FeeTotal DEF Average
    <2>4. /\ mean \in Nat
          /\ \E i \in S : fees[i] <= mean
          /\ \E i \in S : mean <= fees[i]
        BY <1>4, <1>9, <2>1, <2>3, MeanIsBetween
    <2>5. PICK i \in S, j \in S : fees[i] <= mean /\ mean <= fees[j]
        BY <2>4
    <2>6. fees[i] * factor <= mean * factor /\ mean * factor <= fees[j] * factor
        <3>1. ASSUME NEW a \in Nat, NEW b \in Nat, a <= b PROVE a * factor <= b * factor
            BY <1>5, <3>1, SMT
        <3>2. QED
            BY <2>1, <2>4, <2>5, <3>1
    <2>7. {fees[k] : k \in S} # {}
        BY <1>9
    <2>8. QED
        BY <1>5, <1>6, <1>7, <2>2, <2>5, <2>6, <2>7
<1>10. QED
    BY <1>8, <1>9

\* From the phase after "price" on, the price is that of samples of the RPC.
PriceInv ==
    Running =>
        /\ call.quarters \in ScaleFactors
        /\ call.phase \notin {"quote", "build", "price"} =>
               /\ call.samples \in Samples
               /\ call.price = ComputeUnitPrice(call.samples, call.quarters)

\* The call goes on at another phase with the same offer.
SameOffer(phase) ==
    /\ call'.phase = phase /\ call'.quarters = call.quarters
    /\ call'.samples = call.samples /\ call'.price = call.price

\* The steps between two awaits that set other fields keep the offer.
LEMMA OfferKept ==
    ASSUME CallRecord, NEW phase, NEW a,
           \/ call' = [call EXCEPT !.phase = phase]
           \/ call' = [call EXCEPT !.phase = phase, !.nativeFee = a]
           \/ call' = [call EXCEPT !.phase = phase, !.remote = a]
           \/ call' = [call EXCEPT !.attempts = a] /\ call.phase = phase
    PROVE  SameOffer(phase)
<1>1. PICK V : call \in CallOver(V)
    BY DEF CallRecord
<1>2. QED
    BY <1>1 DEF CallOver, SameOffer

\* Only Price sets the offer, for the phases that follow.
LEMMA PriceStep == ClientInv /\ PriceInv /\ [ClientNext]_allVars => PriceInv'
<1> SUFFICES ASSUME ClientInv, PriceInv, [ClientNext]_allVars PROVE PriceInv'
    OBVIOUS
<1>1. ASSUME UNCHANGED call \/ call' = None PROVE PriceInv'
    BY <1>1 DEF PriceInv, Running
<1>2. ASSUME Running PROVE CallRecord
    BY <1>2 DEF ClientInv, CallInv, RunInv
<1>3. ASSUME Running, NEW phase, SameOffer(phase),
             phase \in {"build", "price"} \/ call.phase \notin {"quote", "build", "price"}
      PROVE  PriceInv'
    BY <1>3 DEF PriceInv, SameOffer
<1>4. ASSUME NEW amount \in Amounts2Send, NEW quarters \in ScaleFactors, sendOFT(amount, quarters)
      PROVE  PriceInv'
    BY <1>4 DEF sendOFT, PriceInv
<1>5. ASSUME NEW result, Finish(result) PROVE PriceInv'
    BY <1>1, <1>5 DEF Finish
<1>6. CASE Quote
    <2>1. Running
        BY <1>6 DEF Quote, At
    <2>2. CASE call' = [call EXCEPT !.phase = "build", !.nativeFee = native_fee]
        BY <1>2, <1>3, <2>1, <2>2, OfferKept
    <2>3. QED
        BY <1>5, <1>6, <2>2 DEF Quote, Become
<1>7. CASE Build
    <2>1. Running
        BY <1>7 DEF Build, At
    <2>2. CASE call' = [call EXCEPT !.phase = "price", !.remote = peer[Destination].peer_address]
        BY <1>2, <1>3, <2>1, <2>2, OfferKept
    <2>3. QED
        BY <1>5, <1>7, <2>2 DEF Build, Become
<1>8. CASE Price
    <2>1. Running
        BY <1>8 DEF Price, At
    <2>2. PICK samples \in Samples :
             call' = [call EXCEPT !.phase = "simulate", !.samples = samples,
                                  !.price = ComputeUnitPrice(samples, call.quarters)]
        BY <1>8 DEF Price, Become
    <2>3. PICK price : price = ComputeUnitPrice(samples, call.quarters)
        OBVIOUS
    <2>4. PICK V : call \in CallOver(V)
        BY <1>2, <2>1 DEF CallRecord
    <2>5. /\ call'.quarters = call.quarters
          /\ call'.samples = samples /\ call'.price = price
        BY <2>2, <2>3, <2>4 DEF CallOver
    <2>6. QED
        BY <2>1, <2>3, <2>5 DEF PriceInv
<1>9. CASE Simulated \/ NotSimulated \/ Prompted \/ Submit
    <2>1. Running /\ call.phase \notin {"quote", "build", "price"}
        BY <1>9 DEF Simulated, NotSimulated, Prompted, Submit, At
    <2>2. \/ call' = [call EXCEPT !.phase = "submit"]
          \/ call' = [call EXCEPT !.phase = "prompt"]
          \/ call' = [call EXCEPT !.phase = "await"]
          \/ \E n : call' = [call EXCEPT !.attempts = n]
          \/ call' = None
        BY <1>9 DEF Simulated, NotSimulated, Prompted, Submit, Become, Finish
    <2>3. QED
        BY <1>1, <1>2, <1>3, <2>1, <2>2, OfferKept
<1>10. CASE Await \/ Break
    BY <1>5, <1>10 DEF Await, Break
<1>11. ASSUME NEW tx \in inflight, Execute(tx) \/ Fail(tx) PROVE PriceInv'
    BY <1>1, <1>11 DEF Execute, Fail, Settle
<1>12. CASE Others \/ (\E fee \in NativeFees : Reprice(fee)) \/ UNCHANGED allVars
    BY <1>1, <1>12 DEF Others, Reprice, allVars, clientVars
<1>13. QED
    BY <1>4, <1>6, <1>7, <1>8, <1>9, <1>10, <1>11, <1>12 DEF ClientNext, Script

\* The price of a compute unit is in the range of what the slots sampled charged,
\* for any number of samples and any fees, and stays so until the call ends.
THEOREM PriceAlwaysRecent == ClientSpec => []PriceIsRecent
<1>1. ClientInit => PriceInv
    BY DEF ClientInit, PriceInv, Running
<1>2. ClientSpec => []PriceInv
    BY <1>1, PriceStep, ClientInvariant, PTL DEF ClientSpec
<1>3. PriceInv => PriceIsRecent
    <2>1. PriceIsRecent <=>
              (Running /\ call.phase \notin {"quote", "build", "price"} =>
                  InRange(call.samples, call.quarters, call.price))
        BY DEF PriceIsRecent, InRange
    <2>2. ASSUME PriceInv, Running, call.phase \notin {"quote", "build", "price"}
          PROVE  InRange(call.samples, call.quarters, call.price)
        BY <2>2, ClientAssumption, PriceIsBetween DEF PriceInv
    <2>3. QED
        BY <2>1, <2>2
<1>4. QED
    BY <1>2, <1>3, PTL
----------------------------------------------------------------------------
\* The program itself, with the task among its callers.  The task's sends are not
\* steps of OFT's Next, which takes its minimum amounts from MinAmounts.

\* What the program's theorems rest on, besides IInv.
ProgramInv == TermsInv /\ NonceInv /\ PaidInv

\* A transaction of the task is a send like any other.
LEMMA ExecuteIsSend ==
    ASSUME ClientInv, NEW tx \in inflight, Execute(tx)
    PROVE  /\ Destination \in Eids /\ tx.amount \in U64
           /\ send(Client, Destination, tx.amount, tx.min, FALSE, ExecOptions)
           /\ ~oft_store.paused
<1>1. tx.amount \in Amounts2Send
    BY DEF ClientInv, CallInv, InflightInv
<1>2. QED
    BY <1>1, MinimumType, ClientAssumption DEF Execute, WouldPass

\* Whatever a step does to the program is the program's own step or such a send.
LEMMA WhoCalls ==
    ASSUME [ClientNext]_allVars
    PROVE  [Next]_vars \/ \E tx \in inflight : Execute(tx)
BY DEF ClientNext, Others, sendOFT, Script, Quote, Build, Price, Simulated, NotSimulated,
   Prompted, Submit, Await, Break, Fail, Reprice, Become, Finish, allVars

\* The task's sends keep the program's invariant.
LEMMA ProgramStep == ClientInv /\ ProgramInv /\ [ClientNext]_allVars => ProgramInv'
<1> SUFFICES ASSUME ClientInv, ProgramInv, [ClientNext]_allVars PROVE ProgramInv'
    OBVIOUS
<1>1. IInv /\ TermsInv /\ NonceInv /\ PaidInv
    BY DEF ClientInv, ProgramInv
<1>2. CASE [Next]_vars
    BY <1>1, <1>2, TermsStep, NonceStep, PaidStep DEF ProgramInv
<1>3. ASSUME NEW tx \in inflight, Execute(tx) PROVE ProgramInv'
    <2>1. TermsInv'
        BY <1>1, <1>3, ExecuteIsSend, SendTerms
    <2>2. UNCHANGED <<inbox, received, credited, in_sd>>
        BY <1>3, ExecuteIsSend DEF send
    <2>3. NonceInv' /\ PaidInv'
        BY <1>1, <2>2 DEF NonceInv, Known, PaidInv, EventsOf
    <2>4. QED
        BY <2>1, <2>3 DEF ProgramInv
<1>4. QED
    BY <1>2, <1>3, WhoCalls

\* Calls of the task leave the program what it is: escrow, TVL, supply, minimum
\* amounts and payments stay as the program alone keeps them, for all amounts,
\* and whatever a call does with a quote that has become stale.
THEOREM ProgramHoldsForClients ==
    ClientSpec => [](/\ TvlBacked /\ EscrowAccounted /\ TvlIsOutstanding /\ SupplyAccounted
                     /\ TermsHonoured /\ PaidOnce /\ AnnouncedIsCredited)
<1>1. ClientInit => ProgramInv
    BY SumOfEmpty DEF ClientInit, Init, ProgramInv, TermsInv, TermsHonoured, NonceInv, Known,
       PaidInv, EventsOf
<1>2. ClientSpec => [](ClientInv /\ ProgramInv)
    BY <1>1, ProgramStep, ClientInvariant, PTL DEF ClientSpec
<1>3. ClientInv /\ ProgramInv
          => /\ TvlBacked /\ EscrowAccounted /\ TvlIsOutstanding /\ SupplyAccounted
             /\ TermsHonoured /\ PaidOnce /\ AnnouncedIsCredited
    BY BooksAgree, PaidAndAnnounced DEF ClientInv, ProgramInv, TermsInv
<1>4. QED
    BY <1>2, <1>3, PTL

\* No call gets a transfer through a paused program, and the packets of the calls,
\* like all others, move both limiters of the peer by the very amount they carry.
THEOREM ClientsKeepPauseAndLimits == ClientSpec => PauseFreezes /\ PeersKeepLimits
<1>1. ClientInit => TrafficInv
    BY DEF ClientInit, Init, TrafficInv, SentNonces, NonceInv, Known
<1>2. ASSUME ClientInv, NEW tx \in inflight, Execute(tx) PROVE IInv'
    BY <1>2, ExecuteStep DEF ClientInv
<1>3. ClientInv /\ TrafficInv /\ [ClientNext]_allVars => TrafficInv'
    <2>1. ASSUME ClientInv, TrafficInv, [Next]_vars PROVE TrafficInv'
        BY <2>1, TrafficStep DEF ClientInv
    <2>2. ASSUME ClientInv, TrafficInv, NEW tx \in inflight, Execute(tx) PROVE TrafficInv'
        BY <2>2, ExecuteIsSend, TrafficBySend DEF ClientInv
    <2>3. QED
        BY <2>1, <2>2, WhoCalls
<1>4. ClientSpec => [](ClientInv /\ TrafficInv)
    BY <1>1, <1>3, ClientInvariant, PTL DEF ClientSpec
<1>5. ClientInv /\ TrafficInv /\ [ClientNext]_allVars
          => [Frozen /\ \A eid \in Eids : LimitsKept(eid)]_vars
    <2> SUFFICES ASSUME ClientInv, TrafficInv, [ClientNext]_allVars
                 PROVE  Frozen /\ \A eid \in Eids : LimitsKept(eid)
        OBVIOUS
    <2>1. CASE [Next]_vars
        BY <2>1, FrozenStep, LimitsStep DEF ClientInv
    <2>2. ASSUME NEW tx \in inflight, Execute(tx)
          PROVE  Frozen /\ \A eid \in Eids : LimitsKept(eid)
        <3>1. IInv'
            BY <1>2, <2>2
        <3>2. \A eid \in Eids : LimitsKept(eid)
            BY <2>2, <3>1, ExecuteIsSend, SendLimits DEF ClientInv
        <3>3. QED
            BY <2>2, <3>2, ExecuteIsSend DEF ClientInv, Frozen
    <2>3. QED
        BY <2>1, <2>2, WhoCalls
<1>6. ClientSpec => [][Frozen]_vars
    BY <1>4, <1>5, PTL DEF ClientSpec
<1>7. ClientSpec => [][\A eid \in Eids : LimitsKept(eid)]_vars
    BY <1>4, <1>5, PTL DEF ClientSpec
<1>8. ClientInit => \A eid \in Eids : LimitsOf(eid)!Init
    BY DEF ClientInit, Init, LimitsOf!Init, NetOut, Initialized
<1>9. ClientSpec => PauseFreezes
    BY <1>6 DEF PauseFreezes, Frozen
<1>10. ClientSpec => PeersKeepLimits
    <2>1. ClientSpec => ClientInit
        BY PTL DEF ClientSpec
    <2>2. QED
        BY <1>7, <1>8, <2>1 DEF PeersKeepLimits, LimitsKept
<1>11. QED
    BY <1>9, <1>10
----------------------------------------------------------------------------
\* What CallsEnd rests on besides fairness: a call cannot get stuck or go round
\* in circles.

\* A call that waits is told in the end: it knows its outcome, or a transaction
\* of its own is still under way, which is executed or expires.
Waiting == At("await") => outcome # None \/ \E tx \in inflight : tx.call = calls

\* The awaits a call in this phase has before it waits for its transaction.
PhasesLeft(phase) ==
    CASE phase = "quote" -> 6 [] phase = "build" -> 5 [] phase = "price" -> 4
      [] phase = "simulate" -> 3 [] phase = "prompt" -> 2 [] phase = "submit" -> 1
      [] OTHER -> 0

\* The call ends, or is in a later phase, or has one attempt of a few less.
Nearer ==
    \/ ~Running'
    \/ /\ calls' = calls
       /\ \/ PhasesLeft(call'.phase) < PhasesLeft(call.phase)
          \/ /\ call'.phase = call.phase
             /\ call'.attempts = call.attempts + 1
             /\ call'.attempts < NumOfAttempts

AttemptsLeft == Running => call.attempts \in 0..(NumOfAttempts - 1)

\* A step of the script to this phase.
GoneTo(phase) ==
    \/ call' = [call EXCEPT !.phase = phase]
    \/ \E a : \/ call' = [call EXCEPT !.phase = phase, !.nativeFee = a]
              \/ call' = [call EXCEPT !.phase = phase, !.remote = a]
              \/ \E b : call' = [call EXCEPT !.phase = phase, !.samples = a, !.price = b]

\* It leaves the attempts alone.
LEMMA AttemptsKept ==
    ASSUME CallRecord, NEW phase, GoneTo(phase)
    PROVE  call'.phase = phase /\ call'.attempts = call.attempts
<1>1. PICK V : call \in CallOver(V)
    BY DEF CallRecord
<1>2. QED
    BY <1>1 DEF CallOver, GoneTo

\* Every await of the script, by its phase.
LEMMA ScriptMoves ==
    ASSUME ClientInv, AttemptsLeft, Script
    PROVE  Nearer /\ AttemptsLeft' /\ Waiting'
<1> DEFINE Goal == Nearer /\ AttemptsLeft' /\ Waiting'
<1>1. ASSUME NEW result, Finish(result) PROVE Goal
    BY <1>1 DEF Finish, Nearer, AttemptsLeft, Waiting, At, Running
<1>2. Running
    BY DEF Script, Quote, Build, Price, Simulated, NotSimulated, Prompted, Submit, Await,
       Confirmed, Rejected, At
<1>3. CallRecord /\ call.attempts \in 0..(NumOfAttempts - 1) /\ NumOfAttempts \in Nat \ {0}
    BY <1>2, ClientAssumption DEF ClientInv, CallInv, RunInv, AttemptsLeft
<1>4. ASSUME NEW phase, phase # "await", PhasesLeft(phase) < PhasesLeft(call.phase),
             calls' = calls, GoneTo(phase)
      PROVE  Goal
    <2>1. call'.phase = phase /\ call'.attempts = call.attempts
        BY <1>3, <1>4, AttemptsKept
    <2>2. QED
        BY <1>3, <1>4, <2>1 DEF Nearer, AttemptsLeft, Waiting, At
<1>5. ASSUME NEW new_call, Become(new_call) PROVE calls' = calls /\ call' = new_call
    BY <1>5 DEF Become
<1>6. CASE Quote
    <2>1. PhasesLeft("build") < PhasesLeft(call.phase)
        BY <1>6 DEF Quote, At, PhasesLeft
    <2>2. ASSUME Become([call EXCEPT !.phase = "build", !.nativeFee = native_fee]) PROVE Goal
        <3>1. calls' = calls /\ GoneTo("build")
            BY <2>2 DEF Become, GoneTo
        <3>2. QED
            BY <1>4, <2>1, <3>1
    <2>3. QED
        BY <1>1, <1>6, <2>2 DEF Quote
<1>7. CASE Build
    <2>1. PhasesLeft("price") < PhasesLeft(call.phase)
        BY <1>7 DEF Build, At, PhasesLeft
    <2>2. ASSUME Become([call EXCEPT !.phase = "price",
                                     !.remote = peer[Destination].peer_address]) PROVE Goal
        <3>1. calls' = calls /\ GoneTo("price")
            BY <2>2 DEF Become, GoneTo
        <3>2. QED
            BY <1>4, <2>1, <3>1
    <2>3. QED
        BY <1>1, <1>7, <2>2 DEF Build
<1>8. CASE Price
    <2>1. PhasesLeft("simulate") < PhasesLeft(call.phase)
        BY <1>8 DEF Price, At, PhasesLeft
    <2>2. PICK samples, price :
             Become([call EXCEPT !.phase = "simulate", !.samples = samples, !.price = price])
        BY <1>8 DEF Price
    <2>3. calls' = calls /\ GoneTo("simulate")
        BY <2>2 DEF Become, GoneTo
    <2>4. QED
        BY <1>4, <2>1, <2>3
<1>9. CASE Simulated \/ (Prompted /\ Become([call EXCEPT !.phase = "submit"]))
    <2>1. PhasesLeft("submit") < PhasesLeft(call.phase)
        BY <1>9 DEF Simulated, Prompted, At, PhasesLeft
    <2>2. Become([call EXCEPT !.phase = "submit"])
        BY <1>9 DEF Simulated
    <2>3. calls' = calls /\ GoneTo("submit")
        BY <2>2 DEF Become, GoneTo
    <2>4. QED
        BY <1>4, <2>1, <2>3
<1>10. CASE NotSimulated
    <2>1. call.phase = "simulate" /\ PhasesLeft("prompt") < PhasesLeft(call.phase)
        BY <1>10 DEF NotSimulated, At, PhasesLeft
    <2>2. CASE call.attempts + 1 = NumOfAttempts
        <3>1. calls' = calls /\ GoneTo("prompt")
            BY <1>10, <2>2 DEF NotSimulated, Become, GoneTo
        <3>2. QED
            BY <1>4, <2>1, <3>1
    <2>3. CASE call.attempts + 1 # NumOfAttempts
        <3>1. Become([call EXCEPT !.attempts = call.attempts + 1])
            BY <1>10, <2>3 DEF NotSimulated
        <3>2. PICK n : n = call.attempts + 1
            OBVIOUS
        <3>3. calls' = calls /\ call' = [call EXCEPT !.attempts = n]
            BY <1>5, <3>1, <3>2
        <3>4. call'.phase = call.phase /\ call'.attempts = n
            <4>1. PICK V : call \in CallOver(V)
                BY <1>3 DEF CallRecord
            <4>2. QED
                BY <3>3, <4>1 DEF CallOver
        <3>5. n \in 0..(NumOfAttempts - 1) /\ n < NumOfAttempts
            BY <1>3, <2>3, <3>2, SMT
        <3>6. QED
            BY <2>1, <3>2, <3>3, <3>4, <3>5 DEF Nearer, AttemptsLeft, Waiting, At
    <2>4. QED
        BY <2>2, <2>3
<1>11. CASE Submit
    <2>1. call.phase = "submit"
        BY <1>11 DEF Submit, At
    <2>2. ASSUME /\ inflight' = inflight \cup {Transaction(call, calls)}
                 /\ call' = [call EXCEPT !.phase = "await"]
                 /\ calls' = calls
          PROVE  Goal
        <3>1. call'.phase = "await" /\ call'.attempts = call.attempts
            BY <1>3, <2>2, AttemptsKept DEF GoneTo
        <3>2. PhasesLeft(call'.phase) < PhasesLeft(call.phase)
            BY <2>1, <3>1 DEF PhasesLeft
        <3>3. PICK tx : tx = Transaction(call, calls)
            OBVIOUS
        <3>4. tx \in inflight' /\ tx.call = calls
            BY <2>2, <3>3 DEF Transaction
        <3>5. Waiting'
            BY <2>2, <3>4 DEF Waiting
        <3>6. QED
            BY <1>3, <2>2, <3>1, <3>2, <3>5 DEF Nearer, AttemptsLeft
    <2>3. QED
        BY <1>1, <1>11, <2>2 DEF Submit
<1>12. QED
    BY <1>1, <1>6, <1>7, <1>8, <1>9, <1>10, <1>11 DEF Script, Prompted, Await

\* What anyone else does leaves the call where it is, and its transaction goes
\* only with an outcome.
LEMMA CallMoves ==
    ASSUME ClientInv, AttemptsLeft, Waiting, [ClientNext]_allVars
    PROVE  /\ Running => Nearer \/ UNCHANGED <<call, calls>>
           /\ AttemptsLeft' /\ Waiting'
<1>1. CASE Script
    BY <1>1, ScriptMoves
<1>2. CASE Break
    BY <1>2 DEF Break, Finish, Nearer, AttemptsLeft, Waiting, At, Running
<1>3. ASSUME NEW amount, NEW quarters, sendOFT(amount, quarters)
      PROVE  ~Running /\ AttemptsLeft' /\ Waiting'
    <2>1. ~Running /\ call'.phase = "quote" /\ call'.attempts = 0
        BY <1>3 DEF sendOFT
    <2>2. 0 \in 0..(NumOfAttempts - 1)
        BY ClientAssumption, SMT
    <2>3. QED
        BY <2>1, <2>2 DEF AttemptsLeft, Waiting, At
<1>4. ASSUME NEW tx \in inflight, NEW result \in {"ok", "error", "expired"}, Settle(tx, result)
      PROVE  UNCHANGED <<call, calls>> /\ Waiting'
    <2>1. /\ inflight' = inflight \ {tx} /\ UNCHANGED <<call, calls>>
          /\ outcome' = IF Running /\ tx.call = calls THEN result ELSE outcome
        BY <1>4 DEF Settle
    <2>2. result # None
        BY <1>4, ClientAssumption
    <2>3. QED
        BY <2>1, <2>2 DEF Waiting, At, Running
<1>5. ASSUME NEW tx \in inflight, Execute(tx) \/ Fail(tx)
      PROVE  \E result \in {"ok", "error", "expired"} : Settle(tx, result)
    BY <1>5 DEF Execute, Fail
<1>6. CASE Others \/ (\E fee \in NativeFees : Reprice(fee)) \/ UNCHANGED allVars
    BY <1>6 DEF Others, Reprice, allVars, clientVars, AttemptsLeft, Waiting, At, Running
<1>7. ASSUME UNCHANGED <<call, calls>> PROVE AttemptsLeft'
    BY <1>7 DEF AttemptsLeft, Running
<1>8. QED
    BY <1>1, <1>2, <1>3, <1>4, <1>5, <1>6, <1>7 DEF ClientNext

\* A call cannot loop or wait for nothing: every step of the script brings it
\* nearer to its end, nobody else throws it back, and while it waits its
\* transaction is under way or its outcome known.  With the fairness of ClientSpec
\* this is why CallsEnd holds.
THEOREM CallsGetOn ==
    ClientSpec => /\ []Waiting
                  /\ [][Script => Nearer]_allVars
                  /\ [][Running => Nearer \/ UNCHANGED <<call, calls>>]_allVars
<1>1. ClientInit => AttemptsLeft /\ Waiting
    BY DEF ClientInit, AttemptsLeft, Waiting, At, Running
<1>2. ClientInv /\ AttemptsLeft /\ Waiting /\ [ClientNext]_allVars => (AttemptsLeft /\ Waiting)'
    BY CallMoves
<1>3. ClientInv /\ AttemptsLeft /\ Waiting /\ [ClientNext]_allVars
          => [/\ Script => Nearer
              /\ Running => Nearer \/ UNCHANGED <<call, calls>>]_allVars
    BY CallMoves, ScriptMoves
<1>4. ClientSpec => [](ClientInv /\ AttemptsLeft /\ Waiting)
    BY <1>1, <1>2, ClientInvariant, PTL DEF ClientSpec
<1>5. QED
    BY <1>3, <1>4, PTL DEF ClientSpec
=============================================================================
