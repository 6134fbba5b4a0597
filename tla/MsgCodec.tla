------------------------------ MODULE MsgCodec ------------------------------
(***************************************************************************)
(* msg_codec.rs, the message of one OFT to another:                        *)
(*     send_to (32) | amount_sd (8) [ | sender (32) | compose message ]    *)
(***************************************************************************)
EXTENDS ByteFields

SEND_TO_OFFSET == 0
SEND_AMOUNT_SD_OFFSET == 32
COMPOSE_MSG_OFFSET == 40

\* Mutant of encode: the recipient is named as sender.
EncodeRecipientTwice(to, amount, sender, composed) ==
    Bytes(to, 32) \o Bytes(amount, 8)
        \o (IF composed = None THEN <<>> ELSE Bytes(to, 32) \o composed)

\* Mutant of encode: the amount comes first.
EncodeAmountFirst(to, amount, sender, composed) ==
    Bytes(amount, 8) \o Bytes(to, 32)
        \o (IF composed = None THEN <<>> ELSE Bytes(sender, 32) \o composed)

encode(to, amount, sender, composed) ==
    Bytes(to, 32) \o Bytes(amount, 8)
        \o (IF composed = None THEN <<>> ELSE Bytes(sender, 32) \o composed)

send_to(message) == ValueOf(Slice(message, SEND_TO_OFFSET, SEND_AMOUNT_SD_OFFSET))

amount_sd(message) == ValueOf(Slice(message, SEND_AMOUNT_SD_OFFSET, COMPOSE_MSG_OFFSET))

compose_msg(message) ==
    IF Len(message) > COMPOSE_MSG_OFFSET
    THEN Slice(message, COMPOSE_MSG_OFFSET, Len(message)) ELSE None
=============================================================================
