----------------------------- MODULE LzExecutor -----------------------------
(***************************************************************************)
(* Whoever executes verified packets on Solana: LayerZero's executor, or   *)
(* clearPayload.ts by hand.  It asks lz_receive_types which accounts the   *)
(* transaction needs, sends the transaction, and starts over with a new    *)
(* answer if that fails.  Between the answer and the transaction anything  *)
(* in the program and around it may change.                                *)
(*                                                                         *)
(* Most of the accounts are fixed by the packet (peer, recipient, clear).  *)
(* Two are not: the mint's authority, and the account of the compose       *)
(* message, whose address is a hash of its content, amount included.       *)
(***************************************************************************)
EXTENDS OFT

VARIABLE plan       \* packet -> accounts in a transaction under way, or None

executorVars == <<vars, plan>>

\* An authority there is, is not the missing one.
ASSUME ExecutorAssumption == None \notin {"Deployer", "OFTStore", "Multisig"}

Packets ==
    [eid : Eids, remote : Remotes, nonce : 1..MaxVerified, to : Users,
     amount_sd : WireAmounts, compose : ComposeChoices]

ExecutorInit == Init /\ plan = [p \in Packets |-> None]

\* Mutant of PlannedAmount: the transfer fee is forgotten.
PlannedGross(amount_ld) == amount_ld

\* The amount in the compose message that lz_receive_types foresees.
PlannedAmount(amount_ld) ==
    IF oft_store.oft_type = "Native" THEN amount_ld
    ELSE get_post_fee_amount_ld(transfer_fee, amount_ld)

\* lz_receive_types, which answers for any packet, whether the program is
\* paused, wired to its sender, or able to pay it, or not.
lz_receive_types(packet) ==
    [mint_authority |-> mint_authority,
     compose_amount |->
        IF packet.compose
        THEN PlannedAmount(sd2ld(packet.amount_sd, oft_store.ld2sd_rate)) ELSE None]

Answers(packet) ==
    /\ Initialized
    /\ packet.compose => Fits(sd2ld(packet.amount_sd, oft_store.ld2sd_rate))

\* The accounts pass the constraints of lz_receive as things are now: without
\* an authority the account is left out, and only an Adapter does without.
\* The amount is the one lz_receive makes the compose message with.
Accepts(packet, accounts) ==
    /\ accounts.mint_authority \in {mint_authority, None}
    /\ IsNative => accounts.mint_authority # None
    /\ packet.compose =>
           accounts.compose_amount =
               AnnouncedAmount(sd2ld(packet.amount_sd, oft_store.ld2sd_rate))
----------------------------------------------------------------------------
\* Mutant of Plan: asks before the packet is verified.
PlanEarly(packet) ==
    /\ plan[packet] = None
    /\ Answers(packet)
    /\ plan' = [plan EXCEPT ![packet] = lz_receive_types(packet)]
    /\ UNCHANGED vars

Plan(packet) ==
    /\ packet \in inbox
    /\ plan[packet] = None
    /\ Answers(packet)
    /\ plan' = [plan EXCEPT ![packet] = lz_receive_types(packet)]
    /\ UNCHANGED vars

Execute(packet) ==
    /\ plan[packet] # None
    /\ Accepts(packet, plan[packet])
    /\ lz_receive(packet)
    /\ plan' = [plan EXCEPT ![packet] = None]

\* Mutant of Forget: the same transaction is sent again.
Resend(packet) == plan

Forget(packet) == [plan EXCEPT ![packet] = None]

\* The transaction fails or expires: its accounts are stale, lz_receive refuses
\* it, or the network loses it.  The next attempt asks again.
Drop(packet) ==
    /\ plan[packet] # None
    /\ plan' = Forget(packet)
    /\ UNCHANGED vars

\* Everyone else, other executors included: anyone may run lz_receive, so that
\* the packet of a plan may be gone when the transaction arrives.
Others == Next /\ UNCHANGED plan

ExecutorNext ==
    \/ Others
    \/ \E packet \in Packets : Plan(packet) \/ Execute(packet) \/ Drop(packet)

\* The executor asks again after every failure, no attempt lasts for ever
\* (a transaction expires with its blockhash), and of infinitely many attempts
\* that could pass one does.  Nothing is assumed of anyone else.
ExecutorSpec ==
    /\ ExecutorInit /\ [][ExecutorNext]_executorVars
    /\ \A packet \in Packets :
           /\ WF_executorVars(Plan(packet))
           /\ WF_executorVars(Execute(packet) \/ Drop(packet))
           /\ SF_executorVars(Execute(packet))
----------------------------------------------------------------------------
\* A plan is made of answers lz_receive_types can give, and an attempt is under
\* way only for a packet that the endpoint has verified.
ExecutorTypeOK ==
    /\ plan \in [Packets ->
          [mint_authority : MintAuthority, compose_amount : Nat \cup {None}] \cup {None}]
    /\ \A p \in Packets : plan[p] # None => p \in inbox \cup {e.packet : e \in received}

\* lz_receive_types and lz_receive agree: whenever lz_receive could pay a packet,
\* lz_receive_types answers, and with accounts that lz_receive takes.  The two
\* compute the compose message separately.
AnswersFit ==
    \A packet \in inbox :
        ENABLED lz_receive(packet) =>
            Answers(packet) /\ Accepts(packet, lz_receive_types(packet))

\* A verified packet does not stay payable for ever without being paid, however
\* often the program was paused, rewired or drained before, and although the
\* mint's authority and its transfer fee may change under an attempt; only a
\* transfer fee that never settles may keep plans stale for good.
PayableIsPaid ==
    <>[][transfer_fee' = transfer_fee]_executorVars =>
        \A packet \in Packets : []<>~ENABLED lz_receive(packet)
=============================================================================
