----------------------------- MODULE MCMessages -----------------------------
EXTENDS Messages

CONSTANTS alice, bob, hello, base, op

\* No content, one byte, and more bytes than an address has.
MCTexts == {<<>>, Bytes(hello, 1), Bytes(hello, 33)}
=============================================================================
