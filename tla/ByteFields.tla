----------------------------- MODULE ByteFields -----------------------------
(***************************************************************************)
(* Byte strings put together from fields of fixed width.  The i-th byte of *)
(* a value v is the pair <<v, i>>: which byte of which value stands where  *)
(* is all that the codecs decide.                                          *)
(***************************************************************************)
EXTENDS Integers, Sequences

CONSTANT None

\* to_bytes and to_be_bytes of a value that takes width bytes.
Bytes(v, width) == [i \in 1..width |-> <<v, i>>]

\* message[from..to] of Rust: from counts from 0, to is exclusive.
Slice(message, from, to) == SubSeq(message, from + 1, to)

\* from_be_bytes: the value whose bytes these are; None stands for whatever
\* other number comes out of the bytes of different values.
ValueOf(bytes) ==
    LET v == Head(bytes)[1] IN IF bytes = Bytes(v, Len(bytes)) THEN v ELSE None
=============================================================================
