----------------------------- MODULE MCMsgQueue -----------------------------
EXTENDS MsgQueue

MCBytes == 0 .. 255

\* Short messages over a plain byte, the three bytes that are stuffed, and one
\* that a stuffed 0x7D turns into; the last one fits into no ring of 7 bytes.
MCMessages == {<<>>, <<126, 1>>, <<93, 127>>, <<127, 126, 125>>}
=============================================================================
