------------------------------ MODULE ByteFifo ------------------------------
(***************************************************************************)
(* What a ring buffer with roll-back promises: bytes come out in the order *)
(* they went in, never more than Size at a time, and bytes added since the *)
(* last mark can be taken back, leaving what was there before them.        *)
(***************************************************************************)
EXTENDS Naturals, Sequences

CONSTANTS Size, Bytes

VARIABLES
  fifo,   \* the bytes that can be read, oldest first
  kept    \* how many of them a roll-back leaves

Init ==
  /\ fifo = <<>>
  /\ kept = 0

Put ==
  /\ Len(fifo) < Size
  /\ \E c \in Bytes : fifo' = Append(fifo, c)
  /\ UNCHANGED kept

Get ==
  /\ fifo # <<>>
  /\ fifo' = Tail(fifo)
  /\ kept' = Len(fifo')

Mark ==
  /\ kept' = Len(fifo)
  /\ UNCHANGED fifo

RollBack ==
  /\ fifo' = SubSeq(fifo, 1, kept)
  /\ UNCHANGED kept

Next == Put \/ Get \/ Mark \/ RollBack

Spec == Init /\ [][Next]_<<fifo, kept>>
=============================================================================
