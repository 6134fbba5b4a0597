-------------------------- MODULE ComposeMsgCodec ---------------------------
(***************************************************************************)
(* compose_msg_codec.rs, the message an OFT leaves for a composer:         *)
(*     nonce (8) | src_eid (4) | amount_ld (8) | compose_from (32) | rest  *)
(* compose_from and rest are what MsgCodec's compose_msg returned.         *)
(***************************************************************************)
EXTENDS ByteFields

NONCE_OFFSET == 0
SRC_EID_OFFSET == 8
AMOUNT_LD_OFFSET == 12
COMPOSE_FROM_OFFSET == 20
COMPOSE_MSG_OFFSET == 52

encode(nonce_, eid, amount, composed) ==
    Bytes(nonce_, 8) \o Bytes(eid, 4) \o Bytes(amount, 8) \o composed

nonce(message) == ValueOf(Slice(message, NONCE_OFFSET, SRC_EID_OFFSET))
src_eid(message) == ValueOf(Slice(message, SRC_EID_OFFSET, AMOUNT_LD_OFFSET))
amount_ld(message) == ValueOf(Slice(message, AMOUNT_LD_OFFSET, COMPOSE_FROM_OFFSET))
compose_from(message) == ValueOf(Slice(message, COMPOSE_FROM_OFFSET, COMPOSE_MSG_OFFSET))

compose_msg(message) ==
    IF Len(message) > COMPOSE_MSG_OFFSET
    THEN Slice(message, COMPOSE_MSG_OFFSET, Len(message)) ELSE <<>>
=============================================================================
