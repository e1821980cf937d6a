------------------------------ MODULE RingBuf ------------------------------
(***************************************************************************)
(* The byte ring of lib/mqtt/ringbuf.c and the roll-back that QUEUE_Puts   *)
(* of lib/mqtt/queue.c does by restoring the ring's two pointers and its   *)
(* fill count from global copies.  Pointers are offsets from r->p_o.       *)
(***************************************************************************)
EXTENDS Naturals

CONSTANTS
  Size,   \* r->size
  Bytes   \* byte values put into the ring

ASSUME SizeAssumption == Size \in Nat /\ Size >= 2

VARIABLES
  buf,            \* the allocated bytes, zeroed at first
  p_r, p_w,       \* read and write offset
  fill_cnt,       \* filled slots
  last_rb_p_r, last_rb_p_w, last_fill_cnt,  \* copies QUEUE_Puts took
  adding          \* QUEUE_Puts is between taking the copies and its return

ring  == <<buf, p_r, p_w, fill_cnt>>
last  == <<last_rb_p_r, last_rb_p_w, last_fill_cnt>>
rvars == <<ring, last, adding>>

RInit ==
  /\ buf = [o \in 0 .. Size - 1 |-> 0]
  /\ p_r = 0 /\ p_w = 0 /\ fill_cnt = 0
  /\ last_rb_p_r = 0 /\ last_rb_p_w = 0 /\ last_fill_cnt = 0
  /\ adding = FALSE

\* An offset moved on by one, past the physical boundary back to the start.
Advanced(p) == IF p + 1 >= Size THEN 0 ELSE p + 1

Full_OffByOne == fill_cnt >= Size - 1

Full  == fill_cnt >= Size
Empty == fill_cnt <= 0

RINGBUF_Put(c) ==
  /\ ~Full
  /\ fill_cnt' = fill_cnt + 1
  /\ buf' = [buf EXCEPT ![p_w] = c]
  /\ p_w' = Advanced(p_w)
  /\ UNCHANGED p_r

\* The byte RINGBUF_Get hands out.
First == buf[p_r]

RINGBUF_Get_WriteOffset ==
  /\ ~Empty
  /\ fill_cnt' = fill_cnt - 1
  /\ p_r' = Advanced(p_w)
  /\ UNCHANGED <<buf, p_w>>

RINGBUF_Get ==
  /\ ~Empty
  /\ fill_cnt' = fill_cnt - 1
  /\ p_r' = Advanced(p_r)
  /\ UNCHANGED <<buf, p_w>>

Save ==
  /\ last_rb_p_r' = p_r /\ last_rb_p_w' = p_w /\ last_fill_cnt' = fill_cnt
  /\ UNCHANGED ring

RollBack_NoWritePointer ==
  /\ p_r' = last_rb_p_r /\ fill_cnt' = last_fill_cnt
  /\ UNCHANGED <<buf, p_w, last>>

RollBack ==
  /\ p_r' = last_rb_p_r /\ p_w' = last_rb_p_w /\ fill_cnt' = last_fill_cnt
  /\ UNCHANGED <<buf, last>>

-----------------------------------------------------------------------------
(* The ring by itself, driven the way queue.c and proto.c drive it: bytes  *)
(* are put inside QUEUE_Puts only and got outside it only.                 *)

PutsStart  == ~adding /\ Save /\ adding' = TRUE
PutsByte   == adding /\ (\E c \in Bytes : RINGBUF_Put(c)) /\ UNCHANGED <<last, adding>>
PutsDone   == adding /\ adding' = FALSE /\ UNCHANGED <<ring, last>>
PutsFailed == adding /\ Full /\ RollBack /\ adding' = FALSE
Gets       == ~adding /\ RINGBUF_Get /\ UNCHANGED <<last, adding>>

RNext == PutsStart \/ PutsByte \/ PutsDone \/ PutsFailed \/ Gets

RSpec == RInit /\ [][RNext]_rvars

-----------------------------------------------------------------------------
(* Properties *)

RTypeOK ==
  /\ buf \in [0 .. Size - 1 -> Bytes \cup {0}]
  /\ p_r \in 0 .. Size - 1 /\ p_w \in 0 .. Size - 1 /\ fill_cnt \in 0 .. Size
  /\ last_rb_p_r \in 0 .. Size - 1 /\ last_rb_p_w \in 0 .. Size - 1
  /\ last_fill_cnt \in 0 .. Size
  /\ adding \in BOOLEAN

\* The offset i slots after offset r.
At(r, i) == IF r + i < Size THEN r + i ELSE r + i - Size

\* What n filled slots of b hold from offset r on, oldest byte first.
Held(b, r, n) == [i \in 1 .. n |-> b[At(r, i - 1)]]

Content == Held(buf, p_r, fill_cnt)

\* The two pointers and the count tell the same story.
PointersAgree == p_w = At(p_r, fill_cnt)

\* A failed QUEUE_Puts leaves the ring as it found it, and the ring is a FIFO
\* of at most Size bytes, however often the pointers wrapped.
Fifo == INSTANCE ByteFifo WITH
  fifo <- Content, kept <- IF adding THEN last_fill_cnt ELSE fill_cnt

RefinesFifo == Fifo!Spec
=============================================================================
