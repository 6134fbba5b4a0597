--------------------------- MODULE MessagesProofs ---------------------------
(***************************************************************************)
(* What Messages promises, for every wallet, amount, nonce, chain and      *)
(* compose message: what one codec writes, the other end reads.            *)
(* The first part is about the fields of a message, the second about the   *)
(* two codecs, the third about the message on its way.                     *)
(***************************************************************************)
EXTENDS Messages, SequenceTheorems, TLAPS

\* The values that fields hold.
Content == Addresses \cup Amounts \cup Nonces \cup Eids \cup {DefaultKey}

\* A field is a sequence of bytes of its width.
LEMMA FieldIsBytes ==
    ASSUME NEW v \in Content,
           NEW width \in Nat
    PROVE  Bytes(v, width) \in Seq(Byte) /\ Len(Bytes(v, width)) = width
<1>1. \A i \in 1..width : <<v, i>> \in Byte
    BY SMT DEF Byte, Content
<1>2. PICK b : b = Bytes(v, width)
    OBVIOUS
<1>3. b \in [1..width -> Byte]
    BY <1>1, <1>2 DEF Bytes
<1>4. b \in Seq(Byte)
    BY <1>3, SeqDef
<1>5. Len(b) = width
    <2>1. Len(b) \in Nat /\ DOMAIN b = 1..Len(b)
        BY <1>4, LenProperties
    <2>2. DOMAIN b = 1..width
        BY <1>3
    <2>3. PICK n \in Nat : n = Len(b)
        BY <2>1
    <2>4. \A i \in Int : i \in 1..n <=> i \in 1..width
        BY <2>1, <2>2, <2>3
    <2>5. n = width
        BY <2>4, SMT
    <2>6. QED
        BY <2>3, <2>5
<1>6. QED
    BY <1>2, <1>4, <1>5

\* A field's value comes out of it again.
LEMMA FieldValue ==
    ASSUME NEW v \in Content,
           NEW width \in Nat \ {0}
    PROVE  ValueOf(Bytes(v, width)) = v
<1>1. Bytes(v, width) \in Seq(Byte) /\ Len(Bytes(v, width)) = width
    BY FieldIsBytes
<1>2. Bytes(v, width)[1] = <<v, 1>>
    BY DEF Bytes
<1>3. Head(Bytes(v, width)) = Bytes(v, width)[1]
    BY <1>1, SMT
<1>4. Head(Bytes(v, width))[1] = v
    BY <1>2, <1>3
<1>5. QED
    BY <1>1, <1>4 DEF ValueOf

\* Three parts of a message, put together from the left or from the right.
Joined(a, b, c) == (a \o b) \o c
Prefixed(a, b, c) == a \o (b \o c)

\* It makes no difference.
LEMMA JoinedEnd ==
    ASSUME NEW a \in Seq(Byte), NEW b \in Seq(Byte), NEW c \in Seq(Byte)
    PROVE  Joined(a, b, c) = Prefixed(a, b, c)
BY ConcatAssociative DEF Joined, Prefixed

\* What stands in the middle of a message is read back with its bounds.
LEMMA MiddleSlice ==
    ASSUME NEW a \in Seq(Byte), NEW b \in Seq(Byte), NEW c \in Seq(Byte)
    PROVE  Slice(Joined(a, b, c), Len(a), Len(a) + Len(b)) = b
<1>1. PICK m \in Seq(Byte) : m = Joined(a, b, c) /\ m = (a \o b) \o c
    BY ConcatProperties DEF Joined
<1>2. /\ Len(a) \in Nat /\ Len(b) \in Nat /\ Len(c) \in Nat
      /\ Len(a \o b) = Len(a) + Len(b) /\ Len(m) = Len(a) + Len(b) + Len(c)
      /\ a \o b \in Seq(Byte)
    BY <1>1, LenProperties, ConcatProperties
<1>3. ASSUME NEW i \in 1..Len(b) PROVE m[Len(a) + i] = b[i] /\ Len(a) + i \in 1..Len(m)
    <2>1. Len(a) + i \in 1..(Len(a) + Len(b)) /\ Len(a) + i \in 1..(Len(a \o b) + Len(c))
        BY <1>2, <1>3, SMT
    <2>2. m[Len(a) + i] = (a \o b)[Len(a) + i]
        BY <1>1, <1>2, <2>1, ConcatProperties, SMT
    <2>3. (a \o b)[Len(a) + i] = b[i]
        BY <1>2, <2>1, <1>3, ConcatProperties, SMT
    <2>4. QED
        BY <1>2, <2>1, <2>2, <2>3, SMT
<1>4. PICK s, from, to : /\ from = Len(a) /\ to = Len(a) + Len(b)
                         /\ s = SubSeq(m, from + 1, to)
    OBVIOUS
<1>5. \A i \in (from + 1)..to : m[i] \in Byte
    <2>1. \A i \in (from + 1)..to : i \in 1..Len(m)
        BY <1>2, <1>4, SMT
    <2>2. QED
        BY <1>1, <2>1, ElementOfSeq
<1>6. /\ s \in Seq(Byte) /\ Len(s) = Len(b)
      /\ \A i \in 1..Len(b) : s[i] = m[Len(a) + i]
    <2>1. /\ s \in Seq(Byte) /\ Len(s) = IF from + 1 <= to THEN to - (from + 1) + 1 ELSE 0
          /\ \A i \in 1 .. to - (from + 1) + 1 : s[i] = m[(from + 1) + i - 1]
        <3>1. from + 1 \in Int /\ to \in Int
            BY <1>2, <1>4, SMT
        <3>2. QED
            BY <1>4, <1>5, <3>1, SubSeqProperties
    <2>2. QED
        BY <1>2, <1>4, <2>1, SMT
<1>7. s = b
    BY <1>3, <1>6, SeqEqual
<1>8. QED
    BY <1>1, <1>4, <1>7 DEF Slice

\* What stands at the end of a message is read back.
LEMMA EndSlice ==
    ASSUME NEW a \in Seq(Byte), NEW b \in Seq(Byte), NEW m, m = a \o b
    PROVE  Slice(m, Len(a), Len(m)) = b
<1>1. /\ <<>> \in Seq(Byte) /\ a \o b \in Seq(Byte) /\ Len(m) = Len(a) + Len(b)
    BY EmptySeq, ConcatProperties
<1>2. m = Joined(a, b, <<>>)
    BY <1>1, ConcatEmptySeq DEF Joined
<1>3. Slice(Joined(a, b, <<>>), Len(a), Len(a) + Len(b)) = b
    BY <1>1, MiddleSlice, Zenon
<1>4. QED
    BY <1>1, <1>2, <1>3
-----------------------------------------------------------------------------
\* The codecs read and write with the operators of ByteFields.
LEMMA CodecFields ==
    /\ \A v, width : msg_codec!Bytes(v, width) = Bytes(v, width)
                     /\ compose_msg_codec!Bytes(v, width) = Bytes(v, width)
    /\ \A m, from, to : msg_codec!Slice(m, from, to) = Slice(m, from, to)
                        /\ compose_msg_codec!Slice(m, from, to) = Slice(m, from, to)
    /\ \A b : msg_codec!ValueOf(b) = ValueOf(b) /\ compose_msg_codec!ValueOf(b) = ValueOf(b)
BY DEF Bytes, msg_codec!Bytes, compose_msg_codec!Bytes, Slice, msg_codec!Slice,
   compose_msg_codec!Slice, ValueOf, msg_codec!ValueOf, compose_msg_codec!ValueOf

\* A message with these parts.
Carries(m, to, amount, sender, text) ==
    /\ m \in Seq(Byte)
    /\ Len(m) = IF text = None THEN 40 ELSE 72 + Len(text)
    /\ msg_codec!send_to(m) = to /\ msg_codec!amount_sd(m) = amount
    /\ msg_codec!compose_msg(m) = IF text = None THEN None ELSE Bytes(sender, 32) \o text

\* What msg_codec makes of the parts of a message, and reads out of it.
LEMMA MessageRead ==
    ASSUME NEW to \in Addresses, NEW amount \in Amounts,
           NEW sender \in Addresses \cup {DefaultKey}, NEW text \in Texts \cup {None},
           NEW m, m = msg_codec!encode(to, amount, sender, text)
    PROVE  Carries(m, to, amount, sender, text)
<1>1. PICK t, a, s : t = Bytes(to, 32) /\ a = Bytes(amount, 8) /\ s = Bytes(sender, 32)
    OBVIOUS
<1>2. /\ t \in Seq(Byte) /\ a \in Seq(Byte) /\ s \in Seq(Byte)
      /\ Len(t) = 32 /\ Len(a) = 8 /\ Len(s) = 32
    <2>1. 32 \in Nat /\ 8 \in Nat
        OBVIOUS
    <2>2. to \in Content /\ amount \in Content /\ sender \in Content
        BY DEF Content
    <2>3. QED
        BY <1>1, <2>1, <2>2, FieldIsBytes, Zenon
<1>3. ValueOf(t) = to /\ ValueOf(a) = amount
    <2>1. 32 \in Nat \ {0} /\ 8 \in Nat \ {0}
        OBVIOUS
    <2>2. to \in Content /\ amount \in Content
        BY DEF Content
    <2>3. QED
        BY <1>1, <2>1, <2>2, FieldValue, Zenon
<1>4. text # None => text \in Seq(Byte)
    BY MessagesAssumption
<1>5. PICK rest \in Seq(Byte) : rest = IF text = None THEN <<>> ELSE s \o text
    BY <1>2, <1>4, EmptySeq, ConcatProperties
<1>6. m = Joined(t, a, rest)
    BY <1>1, <1>5, CodecFields DEF msg_codec!encode, Joined
<1>7. Len(rest) = IF text = None THEN 0 ELSE 32 + Len(text)
    <2>1. text # None => Len(s \o text) = Len(s) + Len(text)
        BY <1>2, <1>4, ConcatProperties
    <2>2. QED
        BY <1>2, <1>5, <2>1, EmptySeq
<1>8. /\ t \o a \in Seq(Byte) /\ Len(t \o a) = 40
    <2>1. t \o a \in Seq(Byte) /\ Len(t \o a) = Len(t) + Len(a)
        BY <1>2, ConcatProperties
    <2>2. QED
        BY <1>2, <2>1
<1>9. m \in Seq(Byte) /\ Len(m) = 40 + Len(rest) /\ Len(rest) \in Nat
    BY <1>6, <1>8, ConcatProperties, LenProperties DEF Joined
<1>10. Len(m) = IF text = None THEN 40 ELSE 72 + Len(text)
    <2>1. text # None => Len(text) \in Nat
        BY <1>4, LenProperties
    <2>2. QED
        BY <1>7, <1>9, <2>1, SMT
<1>11. msg_codec!send_to(m) = to
    <2>1. a \o rest \in Seq(Byte) /\ <<>> \in Seq(Byte) /\ Len(<<>>) = 0 /\ <<>> \o t = t
        BY <1>2, ConcatProperties, EmptySeq, ConcatEmptySeq
    <2>2. m = Joined(<<>>, t, a \o rest)
        BY <1>2, <1>6, <2>1, ConcatAssociative DEF Joined
    <2>3. Slice(Joined(<<>>, t, a \o rest), Len(<<>>), Len(<<>>) + Len(t)) = t
        BY <1>2, <2>1, MiddleSlice, Zenon
    <2>4. Slice(m, 0, 32) = t
        BY <1>2, <2>1, <2>2, <2>3
    <2>5. QED
        BY <1>3, <2>4, CodecFields DEF msg_codec!send_to, msg_codec!SEND_TO_OFFSET,
           msg_codec!SEND_AMOUNT_SD_OFFSET
<1>12. msg_codec!amount_sd(m) = amount
    <2>1. Slice(Joined(t, a, rest), Len(t), Len(t) + Len(a)) = a
        BY <1>2, MiddleSlice, Zenon
    <2>2. Slice(m, 32, 40) = a
        BY <1>2, <1>6, <2>1
    <2>3. QED
        BY <1>3, <2>2, CodecFields DEF msg_codec!amount_sd, msg_codec!SEND_AMOUNT_SD_OFFSET,
           msg_codec!COMPOSE_MSG_OFFSET
<1>13. msg_codec!compose_msg(m) = IF text = None THEN None ELSE Bytes(sender, 32) \o text
    <2>1. Slice(m, Len(t \o a), Len(m)) = rest
        BY <1>6, <1>8, EndSlice, Zenon DEF Joined
    <2>2. Slice(m, 40, Len(m)) = rest
        BY <1>8, <2>1
    <2>3. Len(m) > 40 <=> text # None
        <3>1. text # None => Len(text) \in Nat
            BY <1>4, LenProperties
        <3>2. QED
            BY <1>7, <1>9, <3>1, SMT
    <2>4. QED
        BY <1>1, <1>5, <2>2, <2>3, CodecFields DEF msg_codec!compose_msg,
           msg_codec!COMPOSE_MSG_OFFSET
<1>14. QED
    BY <1>9, <1>10, <1>11, <1>12, <1>13 DEF Carries

\* What compose_msg_codec makes of what msg_codec has read, and reads out of it.
LEMMA ComposeRead ==
    ASSUME NEW nonce \in Nonces, NEW eid \in Eids, NEW amount \in Amounts,
           NEW sender \in Addresses, NEW text \in Texts,
           NEW c, c = compose_msg_codec!encode(nonce, eid, amount, Bytes(sender, 32) \o text)
    PROVE  /\ c \in Seq(Byte)
           /\ compose_msg_codec!nonce(c) = nonce /\ compose_msg_codec!src_eid(c) = eid
           /\ compose_msg_codec!amount_ld(c) = amount
           /\ compose_msg_codec!compose_from(c) = sender
           /\ compose_msg_codec!compose_msg(c) = text
<1>1. PICK n, e, a, s :
         /\ n = Bytes(nonce, 8) /\ e = Bytes(eid, 4) /\ a = Bytes(amount, 8)
         /\ s = Bytes(sender, 32)
    OBVIOUS
<1>2. /\ nonce \in Content /\ eid \in Content /\ amount \in Content /\ sender \in Content
      /\ 8 \in Nat \ {0} /\ 4 \in Nat \ {0} /\ 32 \in Nat \ {0}
      /\ 8 \in Nat /\ 4 \in Nat /\ 32 \in Nat
    BY SMT DEF Content
<1>3. /\ n \in Seq(Byte) /\ e \in Seq(Byte) /\ a \in Seq(Byte) /\ s \in Seq(Byte)
      /\ Len(n) = 8 /\ Len(e) = 4 /\ Len(a) = 8 /\ Len(s) = 32
    BY <1>1, <1>2, FieldIsBytes, Zenon
<1>4. /\ n \in Seq(Byte) /\ e \in Seq(Byte) /\ a \in Seq(Byte) /\ s \in Seq(Byte)
      /\ text \in Seq(Byte)
    BY <1>3, MessagesAssumption
<1>5. ValueOf(n) = nonce /\ ValueOf(e) = eid /\ ValueOf(a) = amount /\ ValueOf(s) = sender
    BY <1>1, <1>2, FieldValue, Zenon
<1>6. text \in Seq(Byte) /\ <<>> \in Seq(Byte) /\ Len(<<>>) = 0 /\ <<>> \o n = n
    BY <1>3, MessagesAssumption, EmptySeq, ConcatEmptySeq
<1>7. PICK rest \in Seq(Byte) : rest = s \o text
    BY <1>3, <1>6, ConcatProperties
<1>8. PICK ne \in Seq(Byte) : ne = n \o e
    BY <1>3, ConcatProperties
<1>9. PICK nea \in Seq(Byte) : nea = ne \o a
    BY <1>3, <1>8, ConcatProperties
<1>10. PICK ar \in Seq(Byte) : ar = a \o rest
    BY <1>3, <1>7, ConcatProperties
<1>11. PICK ear \in Seq(Byte) : ear = e \o ar
    BY <1>3, <1>10, ConcatProperties
<1>12. PICK neas \in Seq(Byte) : neas = nea \o s
    BY <1>3, <1>9, ConcatProperties
<1>13. Len(ne) = 12 /\ Len(nea) = 20 /\ Len(neas) = 52
    <2>1. Len(ne) = Len(n) + Len(e)
        BY <1>3, <1>8, ConcatProperties
    <2>2. Len(nea) = Len(ne) + Len(a)
        BY <1>3, <1>8, <1>9, ConcatProperties
    <2>3. Len(neas) = Len(nea) + Len(s)
        BY <1>3, <1>9, <1>12, ConcatProperties
    <2>4. QED
        BY <1>3, <2>1, <2>2, <2>3
<1>14. c = nea \o rest
    BY <1>1, <1>7, <1>8, <1>9, CodecFields DEF compose_msg_codec!encode
<1>15. c = ne \o ar
    <2>1. Joined(ne, a, rest) = Prefixed(ne, a, rest)
        BY <1>4, <1>7, <1>8, JoinedEnd, Zenon
    <2>2. QED
        BY <1>9, <1>10, <1>14, <2>1 DEF Joined, Prefixed
<1>16. c = n \o ear
    <2>1. Joined(n, e, ar) = Prefixed(n, e, ar)
        BY <1>4, <1>10, JoinedEnd, Zenon
    <2>2. QED
        BY <1>8, <1>11, <1>15, <2>1 DEF Joined, Prefixed
<1>17. c = neas \o text
    <2>1. Joined(nea, s, text) = Prefixed(nea, s, text)
        BY <1>4, <1>9, JoinedEnd, Zenon
    <2>2. QED
        BY <1>7, <1>12, <1>14, <2>1 DEF Joined, Prefixed
<1>18. compose_msg_codec!nonce(c) = nonce
    <2>1. Slice(Joined(<<>>, n, ear), Len(<<>>), Len(<<>>) + Len(n)) = n
        BY <1>3, <1>6, MiddleSlice, Zenon
    <2>2. c = Joined(<<>>, n, ear)
        BY <1>6, <1>16 DEF Joined
    <2>3. Slice(c, 0, 8) = n
        BY <1>3, <1>6, <2>1, <2>2
    <2>4. QED
        BY <1>5, <2>3, CodecFields DEF compose_msg_codec!nonce, compose_msg_codec!NONCE_OFFSET,
           compose_msg_codec!SRC_EID_OFFSET
<1>19. compose_msg_codec!src_eid(c) = eid
    <2>1. Slice(Joined(n, e, ar), Len(n), Len(n) + Len(e)) = e
        BY <1>3, MiddleSlice, Zenon
    <2>2. c = Joined(n, e, ar)
        BY <1>8, <1>15 DEF Joined
    <2>3. Slice(c, 8, 12) = e
        BY <1>3, <2>1, <2>2
    <2>4. QED
        BY <1>5, <2>3, CodecFields DEF compose_msg_codec!src_eid,
           compose_msg_codec!SRC_EID_OFFSET, compose_msg_codec!AMOUNT_LD_OFFSET
<1>20. compose_msg_codec!amount_ld(c) = amount
    <2>1. Slice(Joined(ne, a, rest), Len(ne), Len(ne) + Len(a)) = a
        BY <1>3, MiddleSlice, Zenon
    <2>2. c = Joined(ne, a, rest)
        BY <1>9, <1>14 DEF Joined
    <2>3. Slice(c, 12, 20) = a
        BY <1>3, <1>13, <2>1, <2>2
    <2>4. QED
        BY <1>5, <2>3, CodecFields DEF compose_msg_codec!amount_ld,
           compose_msg_codec!AMOUNT_LD_OFFSET, compose_msg_codec!COMPOSE_FROM_OFFSET
<1>21. compose_msg_codec!compose_from(c) = sender
    <2>1. Slice(Joined(nea, s, text), Len(nea), Len(nea) + Len(s)) = s
        BY <1>3, <1>6, MiddleSlice, Zenon
    <2>2. c = Joined(nea, s, text)
        BY <1>12, <1>17 DEF Joined
    <2>3. Slice(c, 20, 52) = s
        BY <1>3, <1>13, <2>1, <2>2
    <2>4. QED
        BY <1>5, <2>3, CodecFields DEF compose_msg_codec!compose_from,
           compose_msg_codec!COMPOSE_FROM_OFFSET, compose_msg_codec!COMPOSE_MSG_OFFSET
<1>22. compose_msg_codec!compose_msg(c) = text
    <2>1. Slice(c, Len(neas), Len(c)) = text
        BY <1>6, <1>17, EndSlice, Zenon
    <2>2. Slice(c, 52, Len(c)) = text
        BY <1>13, <2>1
    <2>3. PICK k \in Nat : k = Len(text)
        BY <1>6, LenProperties
    <2>4. Len(c) = 52 + k
        <3>1. Len(c) = Len(neas) + Len(text)
            BY <1>6, <1>17, ConcatProperties
        <3>2. QED
            BY <1>13, <2>3, <3>1
    <2>5. text # <<>> => k # 0
        BY <1>6, <2>3, EmptySeq
    <2>6. Len(c) > 52 <=> k # 0
        BY <2>4, SMT
    <2>7. QED
        BY <2>2, <2>5, <2>6, CodecFields DEF compose_msg_codec!compose_msg,
           compose_msg_codec!COMPOSE_MSG_OFFSET
<1>23. c \in Seq(Byte)
    BY <1>7, <1>14, ConcatProperties
<1>24. QED
    BY <1>18, <1>19, <1>20, <1>21, <1>22, <1>23
-----------------------------------------------------------------------------
\* What send puts on the wire, and what lz_receive leaves for the composer.
Sent == msg_codec!encode(params.to, params.amount_sd, params.sender, params.compose_msg)
Left == compose_msg_codec!encode(packet.nonce, packet.src_eid, packet.amount_received_ld,
                                 Bytes(params.sender, 32) \o params.compose_msg)

\* What each stage has made of the one before.
PricedInv == priced # None => \E amount \in Amounts : priced = Len(PricedMessage(amount))
WireInv == wire # None => priced # None /\ wire = Sent
PacketInv ==
    packet # None =>
        /\ wire # None
        /\ packet.to = params.to /\ packet.amount_sd = params.amount_sd
        /\ packet.nonce \in Nonces /\ packet.src_eid \in Eids
        /\ packet.amount_received_ld \in Amounts
        /\ composed = IF params.compose_msg = None THEN None ELSE Left
ReadInv ==
    /\ composed # None => packet # None
    /\ read # None => composed # None
    /\ ComposerLearnsSender

MessageInv == params \in Params /\ PricedInv /\ WireInv /\ PacketInv /\ ReadInv

\* Each stage works on the message of the one before, and on nothing else.
LEMMA MessageStep == MessageInv /\ [Next]_vars => MessageInv'
<1> SUFFICES ASSUME MessageInv, [Next]_vars PROVE MessageInv'
    OBVIOUS
<1>1. /\ params.to \in Addresses /\ params.amount_sd \in Amounts
      /\ params.sender \in Addresses /\ params.compose_msg \in Texts \cup {None}
    BY DEF MessageInv, Params
<1>2. ASSUME NEW amount \in Amounts, quote_send(amount) PROVE MessageInv'
    <2>1. /\ priced = None /\ priced' = Len(PricedMessage(amount))
          /\ UNCHANGED <<params, wire, packet, composed, read>>
        BY <1>2 DEF quote_send
    <2>2. wire = None /\ packet = None /\ composed = None /\ read = None
        BY <2>1 DEF MessageInv, WireInv, PacketInv, ReadInv
    <2>3. QED
        BY <2>1, <2>2 DEF MessageInv, PricedInv, WireInv, PacketInv, ReadInv,
           ComposerLearnsSender, PricedMessage
<1>3. CASE send
    <2>1. /\ priced # None /\ wire = None /\ wire' = Sent
          /\ UNCHANGED <<params, priced, packet, composed, read>>
        BY <1>3 DEF send, Sent
    <2>2. packet = None /\ composed = None /\ read = None
        BY <2>1 DEF MessageInv, PacketInv, ReadInv
    <2>3. QED
        BY <2>1, <2>2 DEF MessageInv, PricedInv, WireInv, PacketInv, ReadInv,
           ComposerLearnsSender, PricedMessage, Sent
<1>4. ASSUME NEW nonce \in Nonces, NEW eid \in Eids, NEW amount \in Amounts,
             lz_receive(nonce, eid, amount)
      PROVE  MessageInv'
    <2>1. wire # None /\ packet = None /\ UNCHANGED <<params, priced, wire, read>>
        BY <1>4 DEF lz_receive
    <2>2. wire = Sent /\ composed = None /\ read = None
        BY <2>1 DEF MessageInv, WireInv, ReadInv
    <2>3. /\ msg_codec!send_to(wire) = params.to /\ msg_codec!amount_sd(wire) = params.amount_sd
          /\ msg_codec!compose_msg(wire) =
                 IF params.compose_msg = None THEN None
                 ELSE Bytes(params.sender, 32) \o params.compose_msg
        <3>1. Carries(Sent, params.to, params.amount_sd, params.sender, params.compose_msg)
            BY <1>1, MessageRead DEF Sent
        <3>2. QED
            BY <2>2, <3>1 DEF Carries
    <2>4. PICK p : /\ p = packet' /\ p.to = params.to /\ p.amount_sd = params.amount_sd
                   /\ p.nonce = nonce /\ p.src_eid = eid /\ p.amount_received_ld = amount
        BY <1>4, <2>3 DEF lz_receive
    <2>5. params.compose_msg # None =>
              Bytes(params.sender, 32) \o params.compose_msg # None
        <3>1. params.compose_msg # None => params.compose_msg \in Seq(Byte)
            BY <1>1, MessagesAssumption
        <3>2. 32 \in Nat /\ params.sender \in Content
            BY <1>1 DEF Content
        <3>3. Bytes(params.sender, 32) \in Seq(Byte)
            BY <3>2, FieldIsBytes, Zenon
        <3>4. params.compose_msg # None =>
                  Bytes(params.sender, 32) \o params.compose_msg \in Seq(Byte)
            BY <3>1, <3>3, ConcatProperties
        <3>5. QED
            BY <3>4, MessagesAssumption
    <2>6. composed' = IF params.compose_msg = None THEN None
                      ELSE compose_msg_codec!encode(nonce, eid, amount,
                               Bytes(params.sender, 32) \o params.compose_msg)
        <3>1. PICK text : text = msg_codec!compose_msg(wire)
            OBVIOUS
        <3>2. composed' = IF text = None THEN None
                          ELSE compose_msg_codec!encode(nonce, eid, amount, text)
            BY <1>4, <3>1 DEF lz_receive
        <3>3. QED
            BY <2>3, <2>5, <3>1, <3>2
    <2>7. PricedInv' /\ WireInv' /\ params' \in Params
        BY <2>1 DEF MessageInv, PricedInv, WireInv, PricedMessage, Sent
    <2>8. composed' = IF params'.compose_msg = None THEN None ELSE Left'
        BY <2>1, <2>4, <2>6 DEF Left
    <2>9. PacketInv'
        BY <2>1, <2>4, <2>8 DEF PacketInv
    <2>10. packet' # None
        <3>1. packet' \in Packets
            BY <1>1, <1>4, <2>3 DEF lz_receive, Packets
        <3>2. QED
            BY <3>1, MessagesAssumption
    <2>11. ReadInv'
        BY <2>1, <2>2, <2>10 DEF ReadInv, ComposerLearnsSender
    <2>12. QED
        BY <2>7, <2>9, <2>11 DEF MessageInv
<1>5. CASE lz_compose
    <2>1. /\ composed # None /\ UNCHANGED <<params, priced, wire, packet, composed>>
          /\ read' = [nonce |-> compose_msg_codec!nonce(composed),
                      src_eid |-> compose_msg_codec!src_eid(composed),
                      amount_ld |-> compose_msg_codec!amount_ld(composed),
                      compose_from |-> compose_msg_codec!compose_from(composed),
                      compose_msg |-> compose_msg_codec!compose_msg(composed)]
        BY <1>5 DEF lz_compose
    <2>2. /\ packet # None /\ composed = Left /\ params.compose_msg \in Texts
          /\ packet.nonce \in Nonces /\ packet.src_eid \in Eids
          /\ packet.amount_received_ld \in Amounts
        BY <1>1, <2>1 DEF MessageInv, PacketInv, ReadInv
    <2>3. /\ compose_msg_codec!nonce(composed) = packet.nonce
          /\ compose_msg_codec!src_eid(composed) = packet.src_eid
          /\ compose_msg_codec!amount_ld(composed) = packet.amount_received_ld
          /\ compose_msg_codec!compose_from(composed) = params.sender
          /\ compose_msg_codec!compose_msg(composed) = params.compose_msg
        BY <1>1, <2>2, ComposeRead DEF Left
    <2>4. PICK r : /\ r = read' /\ r.nonce = packet.nonce /\ r.src_eid = packet.src_eid
                   /\ r.amount_ld = packet.amount_received_ld
                   /\ r.compose_from = params.sender /\ r.compose_msg = params.compose_msg
        BY <2>1, <2>3
    <2>5. PricedInv' /\ WireInv' /\ PacketInv' /\ params' \in Params
        BY <2>1 DEF MessageInv, PricedInv, WireInv, PacketInv, PricedMessage, Sent, Left
    <2>6. ReadInv'
        BY <2>1, <2>2, <2>4 DEF ReadInv, ComposerLearnsSender
    <2>7. QED
        BY <2>5, <2>6 DEF MessageInv
<1>6. CASE UNCHANGED vars
    BY <1>6 DEF vars, MessageInv, PricedInv, WireInv, PacketInv, ReadInv,
       ComposerLearnsSender, PricedMessage, Sent, Left
<1>7. QED
    BY <1>2, <1>3, <1>4, <1>5, <1>6 DEF Next

\* Every state of a message on its way satisfies it.
LEMMA MessageInvariant == Spec => []MessageInv
<1>1. Init => MessageInv
    BY DEF Init, MessageInv, PricedInv, WireInv, PacketInv, ReadInv, ComposerLearnsSender
<1>2. QED
    BY <1>1, MessageStep, PTL DEF Spec

\* For every message, lz_receive pays the amount that send put into it to the wallet
\* it is for, and there is a compose message at the end exactly if there was one at
\* the start: encode writes one for an empty text too, and the length tells.
THEOREM AlwaysDeliveredAsSent == Spec => []DeliveredAsSent
<1>1. ASSUME MessageInv, packet # None
      PROVE  (composed = None) = (params.compose_msg = None)
    <2>1. CASE params.compose_msg = None
        BY <1>1, <2>1 DEF MessageInv, PacketInv
    <2>2. CASE params.compose_msg # None
        <3>1. /\ params.sender \in Addresses /\ params.compose_msg \in Texts
              /\ packet.nonce \in Nonces /\ packet.src_eid \in Eids
              /\ packet.amount_received_ld \in Amounts /\ composed = Left
            BY <1>1, <2>2 DEF MessageInv, PacketInv, Params
        <3>2. composed \in Seq(Byte)
            BY <3>1, ComposeRead DEF Left
        <3>3. QED
            BY <2>2, <3>2, MessagesAssumption
    <2>3. QED
        BY <2>1, <2>2
<1>2. MessageInv => DeliveredAsSent
    BY <1>1 DEF DeliveredAsSent, MessageInv, PacketInv
<1>3. QED
    BY <1>2, MessageInvariant, PTL

\* Through msg_codec and compose_msg_codec, the composer always reads the sender,
\* the text, the amount paid and the header that belong to the message.
THEOREM ComposerAlwaysLearnsSender == Spec => []ComposerLearnsSender
BY MessageInvariant, PTL DEF MessageInv, ReadInv

\* The message quote_send had priced is always as long as the one send sends: the
\* length depends on the compose message alone.
THEOREM AlwaysPricedAsSent == Spec => []PricedIsSent
<1>1. ASSUME MessageInv, wire # None PROVE Len(wire) = priced
    <2>1. PICK amount \in Amounts : priced = Len(PricedMessage(amount))
        BY <1>1 DEF MessageInv, PricedInv, WireInv
    <2>2. /\ params.to \in Addresses /\ params.amount_sd \in Amounts
          /\ params.sender \in Addresses \cup {DefaultKey}
          /\ DefaultKey \in Addresses \cup {DefaultKey}
          /\ params.compose_msg \in Texts \cup {None} /\ wire = Sent
        BY <1>1 DEF MessageInv, WireInv, Params
    <2>3. Carries(Sent, params.to, params.amount_sd, params.sender, params.compose_msg)
        BY <2>2, MessageRead DEF Sent
    <2>4. Carries(PricedMessage(amount), params.to, amount, DefaultKey, params.compose_msg)
        BY <2>2, MessageRead DEF PricedMessage
    <2>5. QED
        BY <2>1, <2>2, <2>3, <2>4 DEF Carries
<1>2. QED
    BY <1>1, MessageInvariant, PTL DEF PricedIsSent
=============================================================================
