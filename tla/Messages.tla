------------------------------ MODULE Messages ------------------------------
(***************************************************************************)
(* One message on its way: the client has quote_send price it, send puts   *)
(* it on the wire, lz_receive at the other end reads it and leaves a       *)
(* compose message, and the composer reads that one.  The other end has    *)
(* the format of msg_codec.rs too.                                         *)
(***************************************************************************)
EXTENDS ByteFields

CONSTANTS
    Addresses,      \* wallets, 32 bytes each
    Amounts,        \* u64 amounts
    Nonces,
    Eids,
    Texts,          \* compose messages: sequences of bytes, the empty one too
    DefaultKey      \* Pubkey::default()

msg_codec == INSTANCE MsgCodec
compose_msg_codec == INSTANCE ComposeMsgCodec

VARIABLES
    params,         \* what the user wants to send, and as whom
    priced,         \* length of the message the endpoint priced
    wire,           \* the message that was sent
    packet,         \* what lz_receive took out of it, with the endpoint's header
    composed,       \* the message for the composer
    read            \* what the composer took out of that

vars == <<params, priced, wire, packet, composed, read>>

Params ==
    [to : Addresses, amount_sd : Amounts, sender : Addresses, compose_msg : Texts \cup {None}]

\* A message as lz_receive takes it out of the wire.
Packets ==
    [to : Addresses, amount_sd : Amounts, nonce : Nonces, src_eid : Eids,
     amount_received_ld : Amounts]

\* What can stand at one place of a message.
Byte ==
    ((Addresses \cup Amounts \cup Nonces \cup Eids \cup {DefaultKey}) \X Nat)
        \cup UNION {{text[i] : i \in DOMAIN text} : text \in Texts}

ASSUME MessagesAssumption ==
    /\ None \notin Addresses \cup Amounts \cup Nonces \cup Eids
    /\ Texts \subseteq Seq(Byte) /\ None \notin Seq(Byte) \cup Packets

Init ==
    /\ params \in Params
    /\ priced = None /\ wire = None /\ packet = None /\ composed = None /\ read = None

\* Mutant of PricedMessage: the compose message is not priced.
PricedWithoutCompose(amount) == msg_codec!encode(params.to, amount, DefaultKey, None)

\* quote_send encodes the amount in local decimals and no sender: neither is
\* what send will encode.
PricedMessage(amount) ==
    msg_codec!encode(params.to, amount, DefaultKey, params.compose_msg)

\* quote_send, for the amount of the moment: the message it has the endpoint price.
\* That it needs an open program and a sufficient amount is said in module ClientSend (Quotable).
quote_send(amount) ==
    /\ priced = None
    /\ priced' = Len(PricedMessage(amount))
    /\ UNCHANGED <<params, wire, packet, composed, read>>

send ==
    /\ priced # None /\ wire = None
    /\ wire' = msg_codec!encode(params.to, params.amount_sd, params.sender, params.compose_msg)
    /\ UNCHANGED <<params, priced, packet, composed, read>>

\* lz_receive; amount is what the recipient gets in local decimals.
lz_receive(nonce, eid, amount) ==
    /\ wire # None /\ packet = None
    /\ packet' = [to |-> msg_codec!send_to(wire), amount_sd |-> msg_codec!amount_sd(wire),
                  nonce |-> nonce, src_eid |-> eid, amount_received_ld |-> amount]
    /\ LET message == msg_codec!compose_msg(wire)
       IN composed' = IF message = None THEN None
                      ELSE compose_msg_codec!encode(nonce, eid, amount, message)
    /\ UNCHANGED <<params, priced, wire, read>>

\* The composer, with the functions compose_msg_codec.rs has for it.
lz_compose ==
    /\ composed # None /\ read = None
    /\ read' = [nonce |-> compose_msg_codec!nonce(composed),
                src_eid |-> compose_msg_codec!src_eid(composed),
                amount_ld |-> compose_msg_codec!amount_ld(composed),
                compose_from |-> compose_msg_codec!compose_from(composed),
                compose_msg |-> compose_msg_codec!compose_msg(composed)]
    /\ UNCHANGED <<params, priced, wire, packet, composed>>

Next ==
    \/ \E amount \in Amounts : quote_send(amount)
    \/ send
    \/ \E nonce \in Nonces, eid \in Eids, amount \in Amounts : lz_receive(nonce, eid, amount)
    \/ lz_compose

Spec == Init /\ [][Next]_vars
----------------------------------------------------------------------------
\* lz_receive pays the amount that was sent to the wallet it was sent to, and
\* leaves a compose message exactly if the sender asked for one, an empty
\* compose message included.
DeliveredAsSent ==
    packet # None =>
        /\ packet.to = params.to
        /\ packet.amount_sd = params.amount_sd
        /\ (composed = None) = (params.compose_msg = None)

\* Through both codecs, the composer learns who signed send on the other chain,
\* that wallet's own words, and the amount that lz_receive really paid.
ComposerLearnsSender ==
    read # None =>
        /\ read.compose_from = params.sender
        /\ read.compose_msg = params.compose_msg
        /\ read.amount_ld = packet.amount_received_ld
        /\ read.nonce = packet.nonce /\ read.src_eid = packet.src_eid

\* The endpoint charges by length: the message that quote_send has priced is as
\* long as the one that is sent, although it has another amount and no sender,
\* and although fees may have changed in between.
PricedIsSent == wire # None => Len(wire) = priced
=============================================================================
