--------------------------- MODULE MsgQueueProofs ---------------------------
(***************************************************************************)
(* Proofs about RingBuf and MsgQueue for every size of the ring, every     *)
(* size of the buffers and all messages.  First the ring by itself; then   *)
(* what a parser reads in the frames of messages, byte by byte; then the   *)
(* queue, whose invariant says what the ring's bytes are read as.          *)
(***************************************************************************)
EXTENDS MsgQueue, WellFoundedInduction, SequenceTheorems, TLAPS

-----------------------------------------------------------------------------
(* Induction over natural numbers, said of sets *)

\* The order of the natural numbers as a set of pairs.
LessThan == {p \in Nat \X Nat : p[1] < p[2]}

\* It is well founded.
LEMMA NatWellFounded == IsWellFoundedOn(LessThan, Nat)
<1>1. OpToRel(<, Nat) = LessThan
  BY Zenon DEF OpToRel, LessThan
<1> QED
  BY <1>1, NatLessThanWellFounded, Zenon

\* A set of natural numbers that is not empty has a least element.
LEMMA HasLeast ==
  ASSUME NEW T \in SUBSET Nat, T # {}
  PROVE  \E x \in T : \A y \in T : x <= y
<1>1. PICK x \in T : \A y \in T : ~(<<y, x>> \in LessThan)
  BY NatWellFounded, WFMin
<1>2. \A y \in T : y \in Nat /\ <<y, x>> \in Nat \X Nat
  OBVIOUS
<1>3. \A y \in T : ~(y < x)
  BY <1>1, <1>2 DEF LessThan
<1> QED
  BY <1>2, <1>3

\* A set that has 0 and the successor of each of its members has all of them.
LEMMA SetInduction ==
  ASSUME NEW T \in SUBSET Nat, 0 \in T, \A n \in T : n + 1 \in T
  PROVE  T = Nat
<1> SUFFICES ASSUME T # Nat PROVE FALSE
  OBVIOUS
<1>1. PICK x \in Nat \ T : \A y \in Nat \ T : x <= y
  BY HasLeast
<1>2. x # 0 /\ x - 1 \in Nat /\ x - 1 \notin Nat \ T
  BY <1>1
<1> QED
  BY <1>1, <1>2

\* Induction up to a bound.
LEMMA BoundedInduction ==
  ASSUME NEW N \in Nat, NEW T, 0 \in T, \A n \in 0 .. N - 1 : n \in T => n + 1 \in T
  PROVE  \A n \in 0 .. N : n \in T
<1> DEFINE U == {n \in Nat : n <= N => n \in T}
<1>1. 0 \in U /\ \A n \in U : n + 1 \in U
  OBVIOUS
<1>2. U = Nat
  BY <1>1, SetInduction
<1> QED
  BY <1>2

-----------------------------------------------------------------------------
(* The ring *)

\* While QUEUE_Puts runs, its copies describe a prefix of the ring.
CopiesAgree ==
  adding => /\ last_fill_cnt <= fill_cnt
            /\ last_rb_p_r = p_r
            /\ last_rb_p_w = At(p_r, last_fill_cnt)

OffsetsOK ==
  /\ p_r \in 0 .. Size - 1 /\ p_w \in 0 .. Size - 1 /\ fill_cnt \in 0 .. Size
  /\ last_rb_p_r \in 0 .. Size - 1 /\ last_rb_p_w \in 0 .. Size - 1
  /\ last_fill_cnt \in 0 .. Size
  /\ adding \in BOOLEAN

BufOK == buf \in [0 .. Size - 1 -> Bytes \cup {0}]

RingInv == OffsetsOK /\ BufOK /\ PointersAgree /\ CopiesAgree

LEMMA InitRing == RInit => RingInv
<1> SUFFICES ASSUME RInit PROVE RingInv
  OBVIOUS
<1>1. OffsetsOK
  <2>1. adding \in BOOLEAN
    BY DEF RInit
  <2>2. 0 \in 0 .. Size - 1 /\ 0 \in 0 .. Size
    BY SizeAssumption
  <2> QED
    BY <2>1, <2>2 DEF RInit, OffsetsOK
<1>2. BufOK
  BY DEF RInit, BufOK
<1>3. PointersAgree /\ CopiesAgree
  BY SizeAssumption DEF RInit, PointersAgree, CopiesAgree, At
<1> QED
  BY <1>1, <1>2, <1>3 DEF RingInv

LEMMA StepRing == RingInv /\ [RNext]_rvars => RingInv'
<1> SUFFICES ASSUME RingInv, [RNext]_rvars PROVE RingInv'
  OBVIOUS
<1> USE SizeAssumption
    DEF RingInv, OffsetsOK, BufOK, PointersAgree, CopiesAgree, At, ring, last
<1>1. CASE PutsStart
  BY <1>1 DEF PutsStart, Save
<1>2. CASE PutsByte
  BY <1>2 DEF PutsByte, RINGBUF_Put, Full, Advanced
<1>3. CASE PutsDone
  BY <1>3 DEF PutsDone
<1>4. CASE PutsFailed
  BY <1>4 DEF PutsFailed, RollBack
<1>5. CASE Gets
  BY <1>5 DEF Gets, RINGBUF_Get, Empty, Advanced
<1>6. CASE UNCHANGED rvars
  BY <1>6 DEF rvars
<1> QED
  BY <1>1, <1>2, <1>3, <1>4, <1>5, <1>6 DEF RNext

LEMMA RingInductive == RSpec => []RingInv
  BY InitRing, StepRing, PTL DEF RSpec

\* Offsets stay inside the allocated bytes and the count inside the size.
THEOREM OffsetsInBounds == RSpec => []RTypeOK
<1>1. RingInv => RTypeOK
  BY DEF RingInv, OffsetsOK, BufOK, RTypeOK
<1> QED
  BY RingInductive, <1>1, PTL

\* The two pointers and the fill count never disagree, roll-backs included.
THEOREM PointersAlwaysAgree == RSpec => []PointersAgree
<1>1. RingInv => PointersAgree
  BY DEF RingInv
<1> QED
  BY RingInductive, <1>1, PTL

-----------------------------------------------------------------------------
(* The refinement *)

LEMMA HeldFacts ==
  ASSUME NEW S, NEW b \in [0 .. Size - 1 -> S], NEW r \in 0 .. Size - 1, NEW n \in 0 .. Size
  PROVE  /\ Held(b, r, n) \in Seq(S)
         /\ Len(Held(b, r, n)) = n
         /\ \A i \in 1 .. n : Held(b, r, n)[i] = b[At(r, i - 1)]
<1>1. n \in Nat
  BY SizeAssumption
<1>2. \A i \in 1 .. n : b[At(r, i - 1)] \in S
  BY SizeAssumption DEF At
<1>3. Held(b, r, n) \in [1 .. n -> S]
  BY <1>2 DEF Held
<1>4. Held(b, r, n) \in Seq(S)
  BY <1>1, <1>3, SeqDef
<1> QED
  BY <1>1, <1>3, <1>4, LenProperties DEF Held

\* What a slot of the ring may hold.
Slot == Bytes \cup {0}

\* HeldFacts for the set of slots, which the provers are not shown.
LEMMA SlotsHeld ==
  ASSUME NEW b \in [0 .. Size - 1 -> Slot], NEW r \in 0 .. Size - 1, NEW m \in 0 .. Size
  PROVE  /\ Held(b, r, m) \in Seq(Slot)
         /\ Len(Held(b, r, m)) = m
         /\ \A i \in 1 .. m : Held(b, r, m)[i] = b[At(r, i - 1)]
<1> DEFINE S == Slot
<1>1. b \in [0 .. Size - 1 -> S]
  OBVIOUS
<1>2. Held(b, r, m) \in Seq(S)
  <2> HIDE DEF S
  <2> QED
    BY <1>1, HeldFacts
<1>3. /\ Len(Held(b, r, m)) = m
      /\ \A i \in 1 .. m : Held(b, r, m)[i] = b[At(r, i - 1)]
  <2> HIDE DEF S
  <2> QED
    BY <1>1, HeldFacts, ZenonT(40)
<1> QED
  BY <1>2, <1>3

LEMMA PutAppends ==
  ASSUME NEW b \in [0 .. Size - 1 -> Slot], NEW r \in 0 .. Size - 1, NEW n \in 0 .. Size - 1,
         NEW c \in Slot
  PROVE  Held([b EXCEPT ![At(r, n)] = c], r, n + 1) = Append(Held(b, r, n), c)
<1> DEFINE d == [b EXCEPT ![At(r, n)] = c]
           s == Held(d, r, n + 1)
           t == Held(b, r, n)
<1>1. n + 1 \in 0 .. Size /\ n \in 0 .. Size /\ n \in Nat
  BY SizeAssumption
<1>2. At(r, n) \in 0 .. Size - 1
  BY SizeAssumption DEF At
<1>3. d \in [0 .. Size - 1 -> Slot]
  BY <1>2
<1>4. \A i \in 1 .. n : At(r, i - 1) \in 0 .. Size - 1 /\ At(r, i - 1) # At(r, n)
  BY SizeAssumption DEF At
<1>5. s \in Seq(Slot) /\ Len(s) = n + 1 /\ \A i \in 1 .. n + 1 : s[i] = d[At(r, i - 1)]
  <2> HIDE DEF d
  <2> DEFINE m == n + 1
  <2>1. m \in 0 .. Size
    BY <1>1
  <2> HIDE DEF m
  <2>2. /\ Held(d, r, m) \in Seq(Slot)
        /\ Len(Held(d, r, m)) = m
        /\ \A i \in 1 .. m : Held(d, r, m)[i] = d[At(r, i - 1)]
    BY <1>3, <2>1, SlotsHeld
  <2> QED
    BY <2>2 DEF m
<1>6. t \in Seq(Slot) /\ Len(t) = n /\ \A i \in 1 .. n : t[i] = b[At(r, i - 1)]
  BY <1>1, SlotsHeld
<1> HIDE DEF s, t
<1>7. \A i \in 1 .. n : s[i] = t[i]
  <2> TAKE i \in 1 .. n
  <2>1. d[At(r, i - 1)] = b[At(r, i - 1)]
    BY <1>2, <1>4
  <2> QED
    BY <1>1, <1>5, <1>6, <2>1
<1>8. s[n + 1] = c
  <2>1. s[n + 1] = d[At(r, n)]
    BY <1>1, <1>5
  <2> QED
    BY <1>2, <2>1
<1>9. Append(t, c) \in Seq(Slot) /\ Len(Append(t, c)) = n + 1
      /\ Append(t, c)[n + 1] = c /\ \A i \in 1 .. n : Append(t, c)[i] = t[i]
  BY <1>1, <1>6, AppendProperties
<1>10. \A i \in 1 .. n + 1 : s[i] = Append(t, c)[i]
  BY <1>1, <1>7, <1>8, <1>9
<1>11. s = Append(t, c)
  BY <1>5, <1>9, <1>10, SeqEqual
<1> QED
  BY <1>11 DEF s, t

LEMMA GetTakesFirst ==
  ASSUME NEW S, NEW b \in [0 .. Size - 1 -> S], NEW r \in 0 .. Size - 1, NEW n \in 1 .. Size
  PROVE  /\ Held(b, r, n) # <<>>
         /\ Head(Held(b, r, n)) = b[r]
         /\ Held(b, Advanced(r), n - 1) = Tail(Held(b, r, n))
<1> DEFINE s == Held(b, r, n)
           t == Held(b, Advanced(r), n - 1)
<1>1. /\ Advanced(r) \in 0 .. Size - 1
      /\ n - 1 \in 0 .. Size /\ n \in 0 .. Size /\ n \in Nat /\ n > 0
  BY SizeAssumption DEF Advanced
<1>2. s \in Seq(S) /\ Len(s) = n /\ \A i \in 1 .. n : s[i] = b[At(r, i - 1)]
  BY <1>1, HeldFacts, ZenonT(40)
<1>3. t \in Seq(S) /\ Len(t) = n - 1 /\ \A i \in 1 .. n - 1 : t[i] = b[At(Advanced(r), i - 1)]
  BY <1>1, HeldFacts, ZenonT(40)
<1> HIDE DEF s, t
<1>4. At(r, 0) = r
  BY SizeAssumption DEF At
<1>5. \A i \in 1 .. n - 1 : At(Advanced(r), i - 1) = At(r, i)
  BY SizeAssumption DEF At, Advanced
<1>6. s # <<>>
  BY <1>1, <1>2
<1>7. Tail(s) \in Seq(S) /\ Len(Tail(s)) = n - 1 /\ \A i \in 1 .. n - 1 : Tail(s)[i] = s[i + 1]
  BY <1>2, <1>6, HeadTailProperties
<1>8. \A i \in 1 .. n - 1 : t[i] = Tail(s)[i]
  <2> TAKE i \in 1 .. n - 1
  <2>1. i + 1 \in 1 .. n /\ (i + 1) - 1 = i
    BY <1>1
  <2> QED
    BY <1>2, <1>3, <1>5, <1>7, <2>1
<1>9. t = Tail(s)
  BY <1>3, <1>7, <1>8, SeqEqual
<1>10. Head(s) = b[r]
  BY <1>1, <1>2, <1>4
<1> QED
  BY <1>6, <1>9, <1>10 DEF s, t

LEMMA RollBackCuts ==
  ASSUME NEW S, NEW b \in [0 .. Size - 1 -> S], NEW r \in 0 .. Size - 1, NEW n \in 0 .. Size,
         NEW m \in 0 .. n
  PROVE  Held(b, r, m) = SubSeq(Held(b, r, n), 1, m)
<1> DEFINE s == Held(b, r, n)
           t == Held(b, r, m)
<1>1. m \in 0 .. Size /\ m \in Nat /\ n \in Nat
  BY SizeAssumption
<1>2. s \in Seq(S) /\ Len(s) = n /\ \A i \in 1 .. n : s[i] = b[At(r, i - 1)]
  BY HeldFacts, ZenonT(40)
<1>3. t \in Seq(S) /\ Len(t) = m /\ \A i \in 1 .. m : t[i] = b[At(r, i - 1)]
  BY <1>1, HeldFacts, ZenonT(40)
<1> HIDE DEF s, t
<1>4. \A i \in 1 .. m : s[i] \in S /\ t[i] = s[i]
  BY <1>1, <1>2, <1>3
<1>5. SubSeq(s, 1, m) \in Seq(S) /\ Len(SubSeq(s, 1, m)) = m
      /\ \A i \in 1 .. m : SubSeq(s, 1, m)[i] = s[i]
  BY <1>1, <1>4, SubSeqProperties
<1>6. t = SubSeq(s, 1, m)
  BY <1>3, <1>4, <1>5, SeqEqual
<1> QED
  BY <1>6 DEF s, t

LEMMA Lengths == RingInv => Len(Content) = fill_cnt
  BY HeldFacts, ZenonT(40) DEF RingInv, OffsetsOK, BufOK, Content

\* The ring is a FIFO of at most Size bytes, and what a failed QUEUE_Puts had
\* put is gone without trace.
THEOREM RingIsFifo == RSpec => RefinesFifo
<1> DEFINE Kept == IF adding THEN last_fill_cnt ELSE fill_cnt
<1>1. RInit => Fifo!Init
  <2> SUFFICES ASSUME RInit PROVE Fifo!Init
    OBVIOUS
  <2>1. Content = Held(buf, p_r, 0) /\ Kept = 0
    BY DEF RInit, Content
  <2>2. Held(buf, p_r, 0) = <<>>
    BY DEF Held
  <2> QED
    BY <2>1, <2>2 DEF Fifo!Init
<1>2. RingInv /\ RingInv' /\ [RNext]_rvars => [Fifo!Next]_<<Content, Kept>>
  <2> SUFFICES ASSUME RingInv, RingInv', [RNext]_rvars PROVE [Fifo!Next]_<<Content, Kept>>
    OBVIOUS
  <2>0. Len(Content) = fill_cnt /\ Len(Content') = fill_cnt'
    <3>1. p_r' \in 0 .. Size - 1 /\ fill_cnt' \in 0 .. Size /\ buf' \in [0 .. Size - 1 -> Bytes \cup {0}]
      BY DEF RingInv, OffsetsOK, BufOK
    <3>2. Len(Content') = fill_cnt'
      BY <3>1, HeldFacts DEF Content
    <3> QED
      BY <3>2, Lengths
  <2> USE DEF RingInv, OffsetsOK, BufOK
  <2>1. CASE PutsStart
    <3>1. Content' = Content /\ Kept' = Kept
      BY <2>1 DEF PutsStart, Save, ring, Content
    <3> QED
      BY <3>1
  <2>2. CASE PutsByte
    <3>1. PICK c \in Bytes : RINGBUF_Put(c)
      BY <2>2 DEF PutsByte
    <3>2. /\ fill_cnt \in 0 .. Size - 1 /\ fill_cnt' = fill_cnt + 1 /\ p_r' = p_r
          /\ buf' = [buf EXCEPT ![At(p_r, fill_cnt)] = c]
      BY <3>1, SizeAssumption DEF RINGBUF_Put, Full, PointersAgree
    <3>3. Content' = Append(Content, c)
      <4>1. c \in Slot /\ p_r \in 0 .. Size - 1 /\ buf \in [0 .. Size - 1 -> Slot]
        BY DEF Slot
      <4>2. Held([buf EXCEPT ![At(p_r, fill_cnt)] = c], p_r, fill_cnt + 1)
              = Append(Held(buf, p_r, fill_cnt), c)
        BY ONLY <4>1, <3>2, PutAppends
      <4> QED
        BY <3>2, <4>2 DEF Content
    <3>4. Len(Content) < Size
      BY <2>0, <3>2, SizeAssumption
    <3>5. Kept' = Kept
      BY <2>2 DEF PutsByte, last
    <3> QED
      BY <3>3, <3>4, <3>5 DEF Fifo!Next, Fifo!Put
  <2>3. CASE PutsDone
    <3>1. Content' = Content /\ Kept' = fill_cnt
      BY <2>3 DEF PutsDone, ring, Content
    <3> QED
      BY <2>0, <2>3, <3>1 DEF Fifo!Next, Fifo!Mark, PutsDone, ring
  <2>4. CASE PutsFailed
    <3>1. /\ last_fill_cnt \in 0 .. fill_cnt /\ fill_cnt' = last_fill_cnt
          /\ p_r' = p_r /\ buf' = buf
      BY <2>4, SizeAssumption DEF PutsFailed, RollBack, CopiesAgree
    <3>2. Content' = SubSeq(Content, 1, last_fill_cnt)
      BY <3>1, RollBackCuts DEF Content
    <3>3. Kept = last_fill_cnt /\ Kept' = Kept
      BY <2>4 DEF PutsFailed, RollBack, last
    <3> QED
      BY <3>2, <3>3 DEF Fifo!Next, Fifo!RollBack
  <2>5. CASE Gets
    <3>1. /\ fill_cnt \in 1 .. Size /\ fill_cnt' = fill_cnt - 1
          /\ p_r' = Advanced(p_r) /\ buf' = buf
      BY <2>5, SizeAssumption DEF Gets, RINGBUF_Get, Empty
    <3>2. Content # <<>> /\ Content' = Tail(Content)
      BY <3>1, GetTakesFirst DEF Content
    <3>3. Kept' = Len(Content')
      BY <2>0, <2>5 DEF Gets
    <3> QED
      BY <3>2, <3>3 DEF Fifo!Next, Fifo!Get
  <2>6. CASE UNCHANGED rvars
    BY <2>6 DEF rvars, ring, last, Content
  <2> QED
    BY <2>1, <2>2, <2>3, <2>4, <2>5, <2>6 DEF RNext
<1> QED
  BY RingInductive, <1>1, <1>2, PTL DEF RSpec, RefinesFifo, Fifo!Spec

-----------------------------------------------------------------------------
(* Reading frames *)

\* The states of a parser that meets whole frames: in the middle of one or
\* between two, and the messages that ended.
Parsers ==
  {s \in [begun : BOOLEAN, esc : BOOLEAN, data : Seq(Bytes), ended : Seq(Seq(Bytes))] :
     Len(s.data) <= MaxLen /\ (~s.begun => s.data = <<>> /\ ~s.esc)}

\* Between two frames, when the messages q have ended.
Clean(q) == [begun |-> FALSE, esc |-> FALSE, data |-> <<>>, ended |-> q]

\* The bytes that may come next.
Legal(s, b) ==
  IF b = BEGIN THEN ~s.begun
  ELSE s.begun /\ IF b \in {END, ESC} THEN ~s.esc ELSE Len(s.data) < MaxLen

\* The state after byte b.
After(s, b) ==
  LET known == ReadByte(s, b)
  IN  [begun |-> b # END, esc |-> known.esc, data |-> known.data, ended |-> known.ended]

\* r is what the parser knows before and after every byte.
Trace(r, c) ==
  /\ r \in [0 .. Len(c) -> Parsers]
  /\ \A k \in 1 .. Len(c) : Legal(r[k - 1], c[k]) /\ r[k] = After(r[k - 1], c[k])

\* The bytes c take the parser from s to t, and are all legal.
ReadsTo(s, c, t) == c \in Seq(Bytes) /\ \E r : Trace(r, c) /\ r[0] = s /\ r[Len(c)] = t

\* An escaped byte is a byte.
LEMMA FlippedByte == \A b \in Bytes : Flipped(b) \in Bytes
<1> SUFFICES ASSUME NEW b \in 0 .. 255 PROVE Flipped(b) \in 0 .. 255
  BY MessagesAssumption
<1> DEFINE q == b \div 32
<1>1. q \in 0 .. 7 /\ 32 * q <= b /\ b < 32 * q + 32
  OBVIOUS
<1> HIDE DEF q
<1>2. q % 2 = 0 => q # 7 /\ q # 1
  BY <1>1
<1>3. q % 2 # 0 => q # 0
  BY <1>1
<1> QED
  BY <1>1, <1>2, <1>3 DEF Flipped, q

\* Legal bytes keep the parser in order.
LEMMA AfterOK ==
  ASSUME NEW s \in Parsers, NEW b \in Bytes, Legal(s, b)
  PROVE  After(s, b) \in Parsers
<1>1. /\ s.begun \in BOOLEAN /\ s.esc \in BOOLEAN /\ s.data \in Seq(Bytes) /\ s.ended \in Seq(Seq(Bytes))
      /\ Len(s.data) \in Nat /\ Len(s.data) <= MaxLen
  BY DEF Parsers
<1>2. (IF s.esc THEN Flipped(b) ELSE b) \in Bytes
  BY FlippedByte
<1> DEFINE d == After(s, b).data
           e == After(s, b).ended
<1>3. d \in Seq(Bytes) /\ Len(d) <= MaxLen
  <2>1. CASE b \in {BEGIN, END}
    BY <2>1, MessagesAssumption DEF After, ReadByte
  <2>2. CASE b = ESC
    BY <1>1, <2>2 DEF After, ReadByte, ESC, BEGIN, END
  <2>3. CASE b \notin {BEGIN, END, ESC}
    <3>1. Len(s.data) < MaxLen
      BY <2>3 DEF Legal
    <3>2. d = Append(s.data, IF s.esc THEN Flipped(b) ELSE b)
      BY <2>3 DEF After, ReadByte
    <3> QED
      BY <1>1, <1>2, <3>1, <3>2, AppendProperties, MessagesAssumption
  <2> QED
    BY <2>1, <2>2, <2>3
<1>4. e \in Seq(Seq(Bytes))
  <2>1. Append(s.ended, s.data) \in Seq(Seq(Bytes))
    BY <1>1, AppendProperties
  <2> QED
    BY <1>1, <2>1 DEF After, ReadByte
<1>5. After(s, b) = [begun |-> b # END, esc |-> b = ESC, data |-> d, ended |-> e]
  BY DEF After, ReadByte
<1>6. b = END => d = <<>> /\ b # ESC
  BY DEF After, ReadByte, END, ESC
<1> DEFINE x == After(s, b)
           f == b # END
           g == b = ESC
<1>7. f \in BOOLEAN /\ g \in BOOLEAN /\ (~f => d = <<>> /\ ~g)
  BY <1>6
<1>8. x = [begun |-> f, esc |-> g, data |-> d, ended |-> e]
  BY <1>5
<1> HIDE DEF d, e, f, g, x
<1>9. x \in [begun : BOOLEAN, esc : BOOLEAN, data : Seq(Bytes), ended : Seq(Seq(Bytes))]
  BY <1>3, <1>4, <1>7, <1>8
<1>10. x.begun = f /\ x.esc = g /\ x.data = d
  BY <1>8
<1>11. x \in Parsers
  BY <1>3, <1>7, <1>9, <1>10 DEF Parsers
<1> QED
  BY <1>11 DEF x

\* Between two frames a parser is in order.
LEMMA CleanOK == \A q \in Seq(Seq(Bytes)) : Clean(q) \in Parsers
  BY MessagesAssumption DEF Clean, Parsers

\* Nothing to read, nothing changes.
LEMMA ReadsNothing ==
  /\ \A s \in Parsers : ReadsTo(s, <<>>, s)
  /\ \A s, t : ReadsTo(s, <<>>, t) => s = t /\ s \in Parsers
<1>1. ASSUME NEW s \in Parsers PROVE ReadsTo(s, <<>>, s)
  <2> DEFINE r == [k \in 0 .. 0 |-> s]
  <2>1. Trace(r, <<>>) /\ r[0] = s
    BY DEF Trace
  <2> HIDE DEF r
  <2> QED
    BY <2>1 DEF ReadsTo
<1>2. ASSUME NEW s, NEW t, ReadsTo(s, <<>>, t) PROVE s = t /\ s \in Parsers
  BY <1>2 DEF ReadsTo, Trace
<1> QED
  BY <1>1, <1>2

\* Both ends are states of a parser.
LEMMA ReadsEnds ==
  ASSUME NEW s, NEW c, NEW t, ReadsTo(s, c, t)
  PROVE  s \in Parsers /\ t \in Parsers /\ c \in Seq(Bytes)
  BY DEF ReadsTo, Trace

\* One byte more.
LEMMA ReadsMore ==
  ASSUME NEW s, NEW c, NEW t, ReadsTo(s, c, t), NEW b \in Bytes, Legal(t, b)
  PROVE  ReadsTo(s, Append(c, b), After(t, b))
<1>1. PICK r : Trace(r, c) /\ r[0] = s /\ r[Len(c)] = t
  BY DEF ReadsTo
<1> DEFINE n == Len(c)
           d == Append(c, b)
<1>2. /\ d \in Seq(Bytes) /\ Len(d) = n + 1 /\ n \in Nat
      /\ \A k \in 1 .. n : d[k] = c[k]
      /\ d[n + 1] = b
  BY AppendProperties DEF ReadsTo
<1> DEFINE q == [k \in 0 .. n + 1 |-> IF k <= n THEN r[k] ELSE After(t, b)]
<1>3. After(t, b) \in Parsers
  BY <1>1, <1>2, AfterOK DEF Trace
<1>4. q \in [0 .. n + 1 -> Parsers]
  BY <1>1, <1>2, <1>3 DEF Trace
<1>5. q[0] = s /\ q[n + 1] = After(t, b)
  BY <1>1, <1>2
<1>6. ASSUME NEW k \in 1 .. n + 1 PROVE Legal(q[k - 1], d[k]) /\ q[k] = After(q[k - 1], d[k])
  <2>1. CASE k <= n
    <3>1. q[k - 1] = r[k - 1] /\ q[k] = r[k] /\ d[k] = c[k] /\ k \in 1 .. n
      BY <1>2, <2>1
    <3> HIDE DEF q, d
    <3> QED
      BY <1>1, <3>1 DEF Trace
  <2>2. CASE k = n + 1
    <3>1. q[k - 1] = t /\ q[k] = After(t, b) /\ d[k] = b
      BY <1>1, <1>2, <2>2
    <3> HIDE DEF q, d
    <3> QED
      BY <3>1
  <2> QED
    BY <1>2, <2>1, <2>2
<1> HIDE DEF q, d
<1>7. Trace(q, d)
  BY <1>2, <1>4, <1>6 DEF Trace
<1> QED
  BY <1>2, <1>5, <1>7 DEF ReadsTo, d

\* The first byte first.
LEMMA ReadsFirst ==
  ASSUME NEW s, NEW c, NEW t, ReadsTo(s, c, t), c # <<>>
  PROVE  Head(c) \in Bytes /\ Legal(s, Head(c)) /\ ReadsTo(After(s, Head(c)), Tail(c), t)
<1>1. PICK r : Trace(r, c) /\ r[0] = s /\ r[Len(c)] = t
  BY DEF ReadsTo
<1> DEFINE n == Len(c)
           d == Tail(c)
<1>2. c \in Seq(Bytes) /\ n \in Nat /\ n >= 1 /\ Head(c) = c[1] /\ Head(c) \in Bytes
  BY DEF ReadsTo
<1>3. d \in Seq(Bytes) /\ Len(d) = n - 1 /\ \A k \in 1 .. n - 1 : d[k] = c[k + 1]
  BY <1>2, HeadTailProperties
<1> HIDE DEF d
<1> DEFINE q == [k \in 0 .. n - 1 |-> r[k + 1]]
<1>4. q \in [0 .. n - 1 -> Parsers]
  BY <1>1, <1>2 DEF Trace
<1>5. Legal(s, Head(c)) /\ r[1] = After(s, Head(c))
  BY <1>1, <1>2 DEF Trace
<1>6. q[0] = After(s, Head(c)) /\ q[n - 1] = t
  BY <1>1, <1>2, <1>5
<1>7. ASSUME NEW k \in 1 .. n - 1 PROVE Legal(q[k - 1], d[k]) /\ q[k] = After(q[k - 1], d[k])
  <2>1. q[k - 1] = r[k] /\ q[k] = r[k + 1] /\ d[k] = c[k + 1] /\ k + 1 \in 1 .. n /\ (k + 1) - 1 = k
    BY <1>2, <1>3
  <2>2. Legal(r[(k + 1) - 1], c[k + 1]) /\ r[k + 1] = After(r[(k + 1) - 1], c[k + 1])
    BY <1>1, <2>1 DEF Trace
  <2> HIDE DEF q
  <2> QED
    BY <2>1, <2>2
<1> HIDE DEF q
<1>8. Trace(q, d)
  BY <1>3, <1>4, <1>7 DEF Trace
<1> QED
  BY <1>2, <1>3, <1>5, <1>6, <1>8 DEF ReadsTo, d

-----------------------------------------------------------------------------
(* What reading makes of it *)

\* What Read knows of a parser.
Known(s) == [ended |-> s.ended, data |-> s.data, esc |-> s.esc]

\* The parts of a state after a byte.
LEMMA AfterParts ==
  ASSUME NEW s, NEW b
  PROVE  /\ After(s, b).ended = IF b = END THEN Append(s.ended, s.data) ELSE s.ended
         /\ b \in {BEGIN, END} => After(s, b).data = <<>>
         /\ b = ESC => After(s, b).data = s.data
         /\ b \notin {BEGIN, END, ESC} =>
              After(s, b).data = Append(s.data, IF s.esc THEN Flipped(b) ELSE b)
         /\ (After(s, b).esc <=> b = ESC) /\ After(s, b).esc \in BOOLEAN
         /\ (After(s, b).begun <=> b # END) /\ After(s, b).begun \in BOOLEAN
<1>1. ESC \notin {BEGIN, END}
  BY DEF ESC, BEGIN, END
<1> QED
  BY <1>1 DEF After, ReadByte

\* ReadByte does what a parser does with legal bytes.
LEMMA ByteRead ==
  ASSUME NEW s \in Parsers, NEW b
  PROVE  ReadByte(Known(s), b) = Known(After(s, b))
<1> DEFINE k == Known(s)
<1>1. k.ended = s.ended /\ k.data = s.data /\ k.esc = s.esc
  BY DEF Known
<1> HIDE DEF k
<1>2. ReadByte(k, b) = ReadByte(s, b)
  BY <1>1, Zenon DEF ReadByte
<1>3. ReadByte(s, b) = [ended |-> ReadByte(s, b).ended, data |-> ReadByte(s, b).data,
                        esc |-> ReadByte(s, b).esc]
  BY Zenon DEF ReadByte
<1>4. Known(After(s, b)) = [ended |-> ReadByte(s, b).ended, data |-> ReadByte(s, b).data,
                            esc |-> ReadByte(s, b).esc]
  BY DEF Known, After
<1> QED
  BY <1>2, <1>3, <1>4, Zenon DEF k

\* Read finds the messages that end.
LEMMA ReadIs ==
  ASSUME NEW s, NEW c, NEW t, ReadsTo(s, c, t)
  PROVE  Read(Known(s), c) = t.ended
<1>1. PICK r : Trace(r, c) /\ r[0] = s /\ r[Len(c)] = t
  BY DEF ReadsTo
<1> DEFINE n == Len(c)
           Good(f) == f = [k \in 0 .. n |-> IF k = 0 THEN Known(s) ELSE ReadByte(f[k - 1], c[k])]
           g == [k \in 0 .. n |-> Known(r[k])]
<1>2. n \in Nat
  BY DEF ReadsTo
<1>3. \A k \in 0 .. n : g[k] = IF k = 0 THEN Known(s) ELSE ReadByte(g[k - 1], c[k])
  <2> TAKE k \in 0 .. n
  <2>1. CASE k = 0
    BY <1>1, <1>2, <2>1
  <2>2. CASE k # 0
    <3>1. k \in 1 .. n /\ k - 1 \in 0 .. n
      BY <1>2, <2>2
    <3>2. r[k - 1] \in Parsers /\ Legal(r[k - 1], c[k]) /\ r[k] = After(r[k - 1], c[k])
      BY <1>1, <3>1 DEF Trace
    <3>3. ReadByte(Known(r[k - 1]), c[k]) = Known(r[k])
      BY <3>2, ByteRead
    <3>4. g[k - 1] = Known(r[k - 1]) /\ g[k] = Known(r[k])
      BY <3>1
    <3> QED
      BY <2>2, <3>3, <3>4
  <2> QED
    BY <2>1, <2>2
<1>4. Good(g)
  <2> DEFINE h == [k \in 0 .. n |-> IF k = 0 THEN Known(s) ELSE ReadByte(g[k - 1], c[k])]
  <2>1. DOMAIN g = 0 .. n /\ g = [k \in DOMAIN g |-> g[k]]
    OBVIOUS
  <2> HIDE DEF g
  <2>2. g = h
    BY <1>3, <2>1, Zenon
  <2> QED
    BY <2>2
<1> DEFINE f == CHOOSE known : Good(known)
<1>5. Good(f)
  BY <1>4
<1>6. Read(Known(s), c) = f[n].ended
  BY DEF Read
<1> HIDE DEF f
<1>7. \A k \in 0 .. n : f[k] = IF k = 0 THEN Known(s) ELSE ReadByte(f[k - 1], c[k])
  BY <1>5
<1> HIDE DEF Good, g
<1> DEFINE T == {k \in 0 .. n : f[k] = g[k]}
<1>8. 0 \in T
  BY <1>2, <1>3, <1>7
<1>9. \A k \in 0 .. n - 1 : k \in T => k + 1 \in T
  <2> SUFFICES ASSUME NEW k \in 0 .. n - 1, f[k] = g[k] PROVE f[k + 1] = g[k + 1]
    BY <1>2
  <2>1. k + 1 \in 0 .. n /\ k + 1 # 0 /\ (k + 1) - 1 = k
    BY <1>2
  <2>2. f[k + 1] = ReadByte(f[k], c[k + 1]) /\ g[k + 1] = ReadByte(g[k], c[k + 1])
    BY <1>3, <1>7, <2>1
  <2> QED
    BY <2>2
<1>10. n \in T
  <2> HIDE DEF T
  <2>1. \A k \in 0 .. n : k \in T
    BY <1>2, <1>8, <1>9, BoundedInduction
  <2> QED
    BY <1>2, <2>1
<1>11. g[n] = Known(t)
  BY <1>1, <1>2 DEF g
<1> QED
  BY <1>6, <1>10, <1>11 DEF Known

\* A parser that forgets the first message that ended.
Forgets(s) == [begun |-> s.begun, esc |-> s.esc, data |-> s.data, ended |-> Tail(s.ended)]

\* It goes on in the same way.
LEMMA ForgetsByte ==
  ASSUME NEW s \in Parsers, NEW b \in Bytes, Legal(s, b), s.ended # <<>>
  PROVE  /\ Forgets(s) \in Parsers /\ Legal(Forgets(s), b)
         /\ After(Forgets(s), b) = Forgets(After(s, b))
         /\ After(s, b).ended # <<>> /\ Head(After(s, b).ended) = Head(s.ended)
<1>1. s.ended \in Seq(Seq(Bytes)) /\ s.data \in Seq(Bytes)
  BY DEF Parsers
<1>2. Tail(s.ended) \in Seq(Seq(Bytes))
  BY <1>1, HeadTailProperties
<1> DEFINE u == Forgets(s)
<1>3. u.begun = s.begun /\ u.esc = s.esc /\ u.data = s.data /\ u.ended = Tail(s.ended)
  BY DEF Forgets, Parsers
<1>4. u \in Parsers
  <2>1. u \in [begun : BOOLEAN, esc : BOOLEAN, data : Seq(Bytes), ended : Seq(Seq(Bytes))]
    BY <1>2 DEF Forgets, Parsers
  <2> QED
    BY <1>3, <2>1 DEF Parsers
<1>5. Legal(u, b)
  BY <1>3 DEF Legal
<1>6. After(s, b).ended # <<>> /\ Head(After(s, b).ended) = Head(s.ended)
      /\ Tail(After(s, b).ended) = IF b = END THEN Append(Tail(s.ended), s.data) ELSE Tail(s.ended)
  <2> DEFINE e == s.ended
             d == s.data
             v == After(s, b).ended
  <2>1. v = IF b = END THEN Append(e, d) ELSE e
    BY AfterParts
  <2>2. e \in Seq(Seq(Bytes)) /\ d \in Seq(Bytes) /\ e # <<>>
    BY <1>1
  <2> HIDE DEF e, d, v
  <2>3. Append(e, d) # <<>> /\ Head(Append(e, d)) = Head(e) /\ Tail(Append(e, d)) = Append(Tail(e), d)
    BY <2>2, HeadTailAppend, AppendProperties
  <2>4. v # <<>> /\ Head(v) = Head(e) /\ Tail(v) = IF b = END THEN Append(Tail(e), d) ELSE Tail(e)
    BY <2>1, <2>2, <2>3
  <2> QED
    BY <2>4 DEF e, d, v
<1>7. After(u, b) = Forgets(After(s, b))
  <2> DEFINE v == After(s, b)
             g == b # END
             h == b = ESC
             d == v.data
  <2>1. v = [begun |-> g, esc |-> h, data |-> d, ended |-> v.ended]
    BY DEF After, ReadByte
  <2>2. After(u, b) = [begun |-> g, esc |-> h, data |-> d, ended |-> Tail(v.ended)]
    <3>1. d = IF b \in {BEGIN, END} THEN <<>>
              ELSE IF b = ESC THEN s.data
              ELSE Append(s.data, IF s.esc THEN Flipped(b) ELSE b)
      BY DEF After, ReadByte
    <3> HIDE DEF u, v, d
    <3> QED
      BY <1>3, <1>6, <3>1 DEF After, ReadByte, v
  <2> HIDE DEF u, v, d, g, h
  <2>3. Forgets(v) = [begun |-> g, esc |-> h, data |-> d, ended |-> Tail(v.ended)]
    <3> DEFINE o == v.ended
    <3>0. v = [begun |-> g, esc |-> h, data |-> d, ended |-> o]
      BY <2>1
    <3> HIDE DEF o
    <3>1. v.begun = g /\ v.esc = h /\ v.data = d
      BY <3>0
    <3> QED
      BY <3>1 DEF Forgets
  <2> QED
    BY <2>2, <2>3 DEF v
<1> QED
  BY <1>4, <1>5, <1>6, <1>7

\* When the first message has been taken, the others are read as before.
LEMMA ReadsWithoutFirst ==
  ASSUME NEW s, NEW c, NEW t, ReadsTo(s, c, t), s.ended # <<>>
  PROVE  /\ t.ended # <<>> /\ Head(t.ended) = Head(s.ended)
         /\ ReadsTo(Forgets(s), c, Forgets(t))
<1>1. PICK r : Trace(r, c) /\ r[0] = s /\ r[Len(c)] = t
  BY DEF ReadsTo
<1> DEFINE n == Len(c)
           T == {k \in 0 .. n : r[k].ended # <<>> /\ Head(r[k].ended) = Head(s.ended)}
<1>2. n \in Nat /\ c \in Seq(Bytes)
  BY DEF ReadsTo
<1>3. \A k \in 1 .. n : c[k] \in Bytes /\ k - 1 \in 0 .. n
                        /\ r[k - 1] \in Parsers /\ Legal(r[k - 1], c[k]) /\ r[k] = After(r[k - 1], c[k])
  BY <1>1, <1>2 DEF Trace
<1>4. \A k \in 0 .. n : k \in T
  <2>1. 0 \in T
    BY <1>1, <1>2
  <2>2. \A k \in 0 .. n - 1 : k \in T => k + 1 \in T
    <3> SUFFICES ASSUME NEW k \in 0 .. n - 1, k \in T PROVE k + 1 \in T
      OBVIOUS
    <3>1. k + 1 \in 1 .. n /\ (k + 1) - 1 = k
      BY <1>2
    <3>2. /\ c[k + 1] \in Bytes /\ r[k] \in Parsers /\ Legal(r[k], c[k + 1])
          /\ r[k + 1] = After(r[k], c[k + 1])
      BY <1>3, <3>1
    <3>3. r[k].ended # <<>> /\ Head(r[k].ended) = Head(s.ended)
      OBVIOUS
    <3>4. r[k + 1].ended # <<>> /\ Head(r[k + 1].ended) = Head(r[k].ended)
      BY <3>2, <3>3, ForgetsByte
    <3> QED
      BY <1>2, <3>1, <3>3, <3>4
  <2> HIDE DEF T
  <2> QED
    BY <1>2, <2>1, <2>2, BoundedInduction
<1> DEFINE q == [k \in 0 .. n |-> Forgets(r[k])]
<1>5. q \in [0 .. n -> Parsers]
  <2> SUFFICES ASSUME NEW k \in 0 .. n PROVE Forgets(r[k]) \in Parsers
    OBVIOUS
  <2>1. r[k] \in Parsers /\ r[k].ended # <<>>
    BY <1>1, <1>4 DEF Trace
  <2>2. Tail(r[k].ended) \in Seq(Seq(Bytes))
    BY <2>1, HeadTailProperties DEF Parsers
  <2> DEFINE p == r[k]
  <2> HIDE DEF p
  <2>3. p \in Parsers /\ Tail(p.ended) \in Seq(Seq(Bytes))
    BY <2>1, <2>2 DEF p
  <2>4. /\ Forgets(p) \in [begun : BOOLEAN, esc : BOOLEAN, data : Seq(Bytes), ended : Seq(Seq(Bytes))]
        /\ Forgets(p).begun = p.begun /\ Forgets(p).esc = p.esc /\ Forgets(p).data = p.data
    BY <2>3 DEF Forgets, Parsers
  <2>5. Forgets(p) \in Parsers
    BY <2>3, <2>4 DEF Parsers
  <2> QED
    BY <2>5 DEF p
<1>6. ASSUME NEW k \in 1 .. n PROVE Legal(q[k - 1], c[k]) /\ q[k] = After(q[k - 1], c[k])
  <2>1. /\ c[k] \in Bytes /\ k - 1 \in 0 .. n /\ k \in 0 .. n
        /\ r[k - 1] \in Parsers /\ Legal(r[k - 1], c[k]) /\ r[k] = After(r[k - 1], c[k])
    BY <1>2, <1>3
  <2>2. r[k - 1].ended # <<>>
    BY <1>4, <2>1
  <2>3. Legal(Forgets(r[k - 1]), c[k]) /\ After(Forgets(r[k - 1]), c[k]) = Forgets(r[k])
    BY <2>1, <2>2, ForgetsByte
  <2>4. q[k - 1] = Forgets(r[k - 1]) /\ q[k] = Forgets(r[k])
    BY <2>1
  <2> HIDE DEF q
  <2> QED
    BY <2>3, <2>4
<1>7. q[0] = Forgets(s) /\ q[n] = Forgets(t)
  BY <1>1, <1>2
<1> HIDE DEF q
<1>8. Trace(q, c)
  BY <1>5, <1>6 DEF Trace
<1>9. t.ended # <<>> /\ Head(t.ended) = Head(s.ended)
  BY <1>1, <1>2, <1>4
<1> QED
  BY <1>2, <1>7, <1>8, <1>9 DEF ReadsTo

-----------------------------------------------------------------------------
(* Frames *)

\* In the middle of a frame with data d so far.
Within(q, d) == [begun |-> TRUE, esc |-> FALSE, data |-> d, ended |-> q]

\* Bytes that end no frame.
NoEnd(c) == \A i \in 1 .. Len(c) : c[i] # END

\* One more byte that does not end a frame.
LEMMA NoEndMore ==
  ASSUME NEW c \in Seq(Bytes), NoEnd(c), NEW b \in Bytes \ {END}
  PROVE  NoEnd(Append(c, b))
<1> DEFINE d == Append(c, b)
           n == Len(c)
<1>1. n \in Nat /\ Len(d) = n + 1 /\ (\A i \in 1 .. n : d[i] = c[i]) /\ d[n + 1] = b
  BY AppendProperties
<1> HIDE DEF d
<1>2. ASSUME NEW i \in 1 .. n + 1 PROVE d[i] # END
  <2>1. CASE i \in 1 .. n
    BY <1>1, <2>1 DEF NoEnd
  <2>2. CASE i = n + 1
    BY <1>1, <2>2
  <2> QED
    BY <1>1, <2>1, <2>2
<1>3. NoEnd(d)
  BY <1>1, <1>2 DEF NoEnd
<1> QED
  BY <1>3 DEF d

\* A byte of a message, stuffed or not, is read as that byte.
LEMMA StuffedReads ==
  ASSUME NEW s, NEW c, NEW q \in Seq(Seq(Bytes)), NEW d \in Seq(Bytes), Len(d) < MaxLen,
         ReadsTo(s, c, Within(q, d)), NoEnd(c), NEW b \in Bytes
  PROVE  ReadsTo(s, c \o Stuffed(b), Within(q, Append(d, b))) /\ NoEnd(c \o Stuffed(b))
<1>0. c \in Seq(Bytes) /\ {BEGIN, END, ESC} \subseteq Bytes /\ Within(q, d) \in Parsers
  BY ReadsEnds, MessagesAssumption DEF BEGIN, END, ESC
<1>1. CASE b \notin {ESC, BEGIN, END}
  <2>1. Stuffed(b) = <<b>> /\ c \o <<b>> = Append(c, b)
    BY <1>0, <1>1, AppendIsConcat DEF Stuffed
  <2>2. Legal(Within(q, d), b)
    BY <1>1 DEF Legal, Within
  <2>3. After(Within(q, d), b) = Within(q, Append(d, b))
    BY <1>1, Zenon DEF After, ReadByte, Within
  <2>4. b \in Bytes \ {END}
    BY <1>1
  <2> QED
    BY <1>0, <2>1, <2>2, <2>3, <2>4, ReadsMore, NoEndMore
<1>2. CASE b \in {ESC, BEGIN, END}
  <2> DEFINE x == Flipped(b)
             h == Append(c, ESC)
             w == [begun |-> TRUE, esc |-> TRUE, data |-> d, ended |-> q]
  <2>1. x \in Bytes /\ x \notin {ESC, BEGIN, END} /\ Flipped(x) = b
    <3>1. Flipped(125) = 93 /\ Flipped(126) = 94 /\ Flipped(127) = 95
          /\ Flipped(93) = 125 /\ Flipped(94) = 126 /\ Flipped(95) = 127
      BY DEF Flipped
    <3>2. b \in {125, 126, 127} /\ x = Flipped(b)
      BY <1>2 DEF ESC, BEGIN, END
    <3> HIDE DEF x
    <3>3. x \in {93, 94, 95} /\ Flipped(x) = b
      BY <3>1, <3>2
    <3> QED
      BY <3>3, MessagesAssumption DEF ESC, BEGIN, END
  <2> HIDE DEF x
  <2>2. Stuffed(b) = <<ESC, x>>
    BY <1>2 DEF Stuffed, x
  <2>3. h \in Seq(Bytes)
    BY <1>0, AppendProperties
  <2>4. c \o <<ESC, x>> = Append(h, x)
    <3>1. <<ESC>> \o <<x>> = <<ESC, x>>
      <4>2. <<ESC>> \in Seq(Bytes)
        BY <1>0
      <4>1. Append(<<ESC>>, x) = <<ESC, x>>
        <5> DEFINE u == Append(<<ESC>>, x)
                   v == <<ESC, x>>
        <5>1. u \in Seq(Bytes) /\ Len(u) = 2 /\ u[1] = ESC /\ u[2] = x
          BY <2>1, <4>2, AppendProperties
        <5>2. v \in Seq(Bytes) /\ Len(v) = 2 /\ v[1] = ESC /\ v[2] = x
          BY <1>0, <2>1
        <5> HIDE DEF u, v
        <5>3. \A i \in 1 .. 2 : u[i] = v[i]
          BY <5>1, <5>2
        <5>4. u = v
          BY <5>1, <5>2, <5>3, SeqEqual
        <5> QED
          BY <5>4 DEF u, v
      <4> QED
        BY <2>1, <4>1, <4>2, AppendIsConcat
    <3>2. Append(h, x) = h \o <<x>> /\ h = c \o <<ESC>>
      BY <1>0, <2>1, <2>3, AppendIsConcat
    <3>3. <<ESC>> \in Seq(Bytes) /\ <<x>> \in Seq(Bytes)
      BY <1>0, <2>1
    <3>4. (c \o <<ESC>>) \o <<x>> = c \o (<<ESC>> \o <<x>>)
      BY <1>0, <3>3, ConcatAssociative
    <3> QED
      BY <3>1, <3>2, <3>4
  <2>5. ReadsTo(s, h, w) /\ NoEnd(h)
    <3>1. Legal(Within(q, d), ESC)
      BY DEF Legal, Within, ESC, BEGIN
    <3>2. After(Within(q, d), ESC) = w
      <4>1. (ESC # END) = TRUE /\ (ESC = ESC) = TRUE /\ ESC \notin {BEGIN, END}
        BY DEF ESC, BEGIN, END
      <4> QED
        BY <4>1, Zenon DEF After, ReadByte, Within
    <3>3. ESC \in Bytes \ {END}
      BY <1>0 DEF ESC, END
    <3> QED
      BY <1>0, <3>1, <3>2, <3>3, ReadsMore, NoEndMore
  <2>6. Legal(w, x)
    BY <2>1 DEF Legal
  <2>7. After(w, x) = Within(q, Append(d, b))
    <3>1. w.esc = TRUE /\ w.data = d /\ w.ended = q
      OBVIOUS
    <3> HIDE DEF w
    <3>2. (x # END) = TRUE /\ (x = ESC) = FALSE /\ x \notin {BEGIN, END}
      BY <2>1
    <3> QED
      BY <2>1, <3>1, <3>2, Zenon DEF After, ReadByte, Within
  <2>8. x \in Bytes \ {END}
    BY <2>1
  <2> HIDE DEF h, w
  <2>9. ReadsTo(s, Append(h, x), Within(q, Append(d, b))) /\ NoEnd(Append(h, x))
    BY <2>1, <2>3, <2>5, <2>6, <2>7, <2>8, ReadsMore, NoEndMore
  <2> QED
    BY <2>2, <2>4, <2>9
<1> QED
  BY <1>1, <1>2

\* A frame is put together byte by byte.
LEMMA FrameRecursion ==
  ASSUME NEW m \in Seq(Bytes)
  PROVE  \E f : /\ f[0] = <<BEGIN>> /\ Frame(m) = Append(f[Len(m)], END)
                /\ \A i \in 1 .. Len(m) : f[i] = f[i - 1] \o Stuffed(m[i])
<1> DEFINE J(p, i) == p \o Stuffed(m[i])
           Good(f, n) == f = [i \in 0 .. n |-> IF i = 0 THEN <<BEGIN>> ELSE J(f[i - 1], i)]
           T == {n \in Nat : \E f : Good(f, n)}
<1>1. 0 \in T
  <2>1. Good([i \in 0 .. 0 |-> <<BEGIN>>], 0)
    OBVIOUS
  <2> QED
    BY <2>1
<1>2. ASSUME NEW n \in T PROVE n + 1 \in T
  <2> HIDE DEF J
  <2>1. PICK f : Good(f, n)
    OBVIOUS
  <2> DEFINE g == [i \in 0 .. n + 1 |-> IF i <= n THEN f[i] ELSE J(f[i - 1], i)]
  <2>2. n \in Nat /\ f = [i \in 0 .. n |-> IF i = 0 THEN <<BEGIN>> ELSE J(f[i - 1], i)]
    BY <2>1
  <2>3. \A i \in 0 .. n + 1 : g[i] = IF i = 0 THEN <<BEGIN>> ELSE J(g[i - 1], i)
    <3>1. ASSUME NEW i \in 0 .. n + 1
          PROVE  g[i] = IF i = 0 THEN <<BEGIN>> ELSE J(g[i - 1], i)
      <4>1. i # 0 => i - 1 \in 0 .. n /\ g[i - 1] = f[i - 1]
        BY <2>2
      <4>2. i <= n => i \in 0 .. n /\ g[i] = f[i]
        BY <2>2
      <4>3. i <= n => f[i] = IF i = 0 THEN <<BEGIN>> ELSE J(f[i - 1], i)
        BY <2>2, <4>2
      <4>4. i > n => i # 0 /\ g[i] = J(f[i - 1], i)
        BY <2>2
      <4> HIDE DEF g
      <4> QED
        BY <2>2, <4>1, <4>2, <4>3, <4>4
    <3> QED
      BY <3>1
  <2>4. Good(g, n + 1)
    <3> DEFINE h == [i \in 0 .. n + 1 |-> IF i = 0 THEN <<BEGIN>> ELSE J(g[i - 1], i)]
    <3>1. DOMAIN g = 0 .. n + 1 /\ g = [i \in DOMAIN g |-> g[i]]
      OBVIOUS
    <3> HIDE DEF g
    <3>2. g = h
      BY <2>3, <3>1, Zenon
    <3> QED
      BY <3>2
  <2> HIDE DEF Good, g
  <2>5. \E h : Good(h, n + 1)
    BY <2>4
  <2> QED
    BY <2>2, <2>5
<1>3. Len(m) \in T
  <2>1. T = Nat
    <3> HIDE DEF J, Good
    <3>1. T \in SUBSET Nat
      OBVIOUS
    <3> HIDE DEF T
    <3> QED
      BY <1>1, <1>2, <3>1, SetInduction
  <2>2. Len(m) \in Nat
    OBVIOUS
  <2> HIDE DEF T
  <2> QED
    BY <2>1, <2>2
<1> DEFINE f == CHOOSE put : Good(put, Len(m))
<1>4. Good(f, Len(m))
  BY <1>3
<1>5. Frame(m) = Append(f[Len(m)], END)
  BY DEF Frame
<1> HIDE DEF f
<1>6. f[0] = <<BEGIN>> /\ \A i \in 1 .. Len(m) : f[i] = J(f[i - 1], i)
  BY <1>4
<1> QED
  BY <1>5, <1>6

\* A frame is read as the message it was made of, and only its last byte ends it.
LEMMA FrameReads ==
  ASSUME NEW m \in Messages, NEW q \in Seq(Seq(Bytes))
  PROVE  /\ ReadsTo(Clean(q), Frame(m), Clean(Append(q, m)))
         /\ Len(Frame(m)) > 0
         /\ \A i \in 1 .. Len(Frame(m)) : Frame(m)[i] = END <=> i = Len(Frame(m))
<1>0. m \in Seq(Bytes) /\ Len(m) \in Nat /\ Len(m) <= MaxLen
  BY MessagesAssumption
<1>1. PICK f : /\ f[0] = <<BEGIN>> /\ Frame(m) = Append(f[Len(m)], END)
               /\ \A i \in 1 .. Len(m) : f[i] = f[i - 1] \o Stuffed(m[i])
  BY <1>0, FrameRecursion
<1> DEFINE n == Len(m)
           P(i) == ReadsTo(Clean(q), f[i], Within(q, SubSeq(m, 1, i))) /\ NoEnd(f[i])
           T == {i \in 0 .. n : P(i)}
<1>2. {BEGIN, END, ESC} \subseteq Bytes
  BY MessagesAssumption DEF BEGIN, END, ESC
<1>3. P(0)
  <2>1. ReadsTo(Clean(q), <<>>, Clean(q)) /\ Clean(q) \in Parsers
    BY CleanOK, ReadsNothing
  <2>2. Legal(Clean(q), BEGIN)
    BY DEF Legal, Clean
  <2>3. After(Clean(q), BEGIN) = Within(q, <<>>)
    <3>1. (BEGIN # END) = TRUE /\ (BEGIN = ESC) = FALSE /\ BEGIN # END
      BY DEF ESC, BEGIN, END
    <3> QED
      BY <3>1, Zenon DEF After, ReadByte, Within, Clean
  <2>4. ReadsTo(Clean(q), Append(<<>>, BEGIN), Within(q, <<>>))
    BY <1>2, <2>1, <2>2, <2>3, ReadsMore
  <2>5. Append(<<>>, BEGIN) = <<BEGIN>> /\ SubSeq(m, 1, 0) = <<>>
    BY SubSeqEmpty
  <2>6. NoEnd(<<BEGIN>>)
    BY DEF NoEnd, BEGIN, END
  <2> QED
    BY <1>1, <2>4, <2>5, <2>6
<1>4. ASSUME NEW i \in 0 .. n - 1, P(i) PROVE P(i + 1)
  <2> DEFINE d == SubSeq(m, 1, i)
  <2>1. i + 1 \in 1 .. n /\ (i + 1) - 1 = i /\ i \in Int /\ m[i + 1] \in Bytes
    BY <1>0
  <2>2. d \in Seq(Bytes) /\ Len(d) = i
    <3>1. \A k \in 1 .. i : m[k] \in Bytes
      BY <1>0
    <3> QED
      BY <2>1, <3>1, SubSeqProperties
  <2>3. SubSeq(m, 1, i + 1) = Append(d, m[i + 1])
    <3>1. SubSeq(m, 1, i + 1) = SubSeq(m, 1, (i + 1) - 1) \o <<m[i + 1]>>
      <4>1. 1 \in 1 .. Len(m) /\ i + 1 \in 1 .. Len(m)
        BY <1>0, <2>1
      <4> QED
        BY <1>0, <4>1, SubSeqRecursiveSecond
    <3> QED
      BY <2>1, <2>2, <3>1, AppendIsConcat
  <2>4. f[i + 1] = f[i] \o Stuffed(m[i + 1])
    BY <1>1, <2>1
  <2>5. Len(d) < MaxLen
    BY <1>0, <2>1, <2>2, MessagesAssumption
  <2> HIDE DEF d
  <2>6. ReadsTo(Clean(q), f[i], Within(q, d)) /\ NoEnd(f[i])
    BY <1>4 DEF d
  <2>7. /\ ReadsTo(Clean(q), f[i] \o Stuffed(m[i + 1]), Within(q, Append(d, m[i + 1])))
        /\ NoEnd(f[i] \o Stuffed(m[i + 1]))
    BY <2>1, <2>2, <2>5, <2>6, StuffedReads
  <2> QED
    BY <2>3, <2>4, <2>7
<1>5. P(n)
  <2>1. 0 \in T /\ \A i \in 0 .. n - 1 : i \in T => i + 1 \in T
    <3> HIDE DEF P
    <3> QED
      BY <1>0, <1>3, <1>4
  <2>2. \A i \in 0 .. n : i \in T
    <3> HIDE DEF T
    <3> QED
      BY <1>0, <2>1, BoundedInduction
  <2> QED
    BY <1>0, <2>2
<1> DEFINE c == f[n]
           w == Within(q, m)
<1>6. ReadsTo(Clean(q), c, w) /\ NoEnd(c) /\ c \in Seq(Bytes) /\ w \in Parsers
  BY <1>0, <1>5, SubSeqFull, ReadsEnds
<1>7. Frame(m) = Append(c, END)
  BY <1>1
<1> HIDE DEF c
<1>8. Legal(w, END)
  BY DEF Legal, Within, BEGIN, END
<1>9. After(w, END) = Clean(Append(q, m))
  <2>1. (END # END) = FALSE /\ (END = ESC) = FALSE
    BY DEF ESC, END
  <2> QED
    BY <2>1, Zenon DEF After, ReadByte, Within, Clean
<1> HIDE DEF w
<1>10. ReadsTo(Clean(q), Append(c, END), Clean(Append(q, m)))
  BY <1>2, <1>6, <1>8, <1>9, ReadsMore
<1> DEFINE k == Len(c)
           e == Append(c, END)
<1>11. k \in Nat /\ Len(e) = k + 1 /\ (\A i \in 1 .. k : e[i] = c[i]) /\ e[k + 1] = END
  BY <1>2, <1>6, AppendProperties
<1> HIDE DEF e
<1>12. ASSUME NEW i \in 1 .. k + 1 PROVE e[i] = END <=> i = k + 1
  <2>1. CASE i \in 1 .. k
    BY <1>6, <1>11, <2>1 DEF NoEnd
  <2>2. CASE i = k + 1
    BY <1>11, <2>2
  <2> QED
    BY <1>11, <2>1, <2>2
<1>13. Len(e) > 0 /\ \A i \in 1 .. Len(e) : e[i] = END <=> i = Len(e)
  BY <1>11, <1>12
<1> QED
  BY <1>7, <1>10, <1>13 DEF e

-----------------------------------------------------------------------------
(* The queue over the ring *)

\* A ring of bytes holds bytes.
LEMMA SlotsAreBytes == Slot = Bytes
  BY MessagesAssumption DEF Slot

\* The content of a ring in order, and of its part before a message being added.
LEMMA ContentIs ==
  RingInv => /\ Content \in Seq(Bytes) /\ Len(Content) = fill_cnt /\ fill_cnt \in 0 .. Size
          /\ (adding => last_fill_cnt \in 0 .. fill_cnt)
<1> SUFFICES ASSUME RingInv
             PROVE  /\ Content \in Seq(Bytes) /\ Len(Content) = fill_cnt /\ fill_cnt \in 0 .. Size
                    /\ (adding => last_fill_cnt \in 0 .. fill_cnt)
  OBVIOUS
<1>1. /\ buf \in [0 .. Size - 1 -> Slot] /\ p_r \in 0 .. Size - 1 /\ fill_cnt \in 0 .. Size
      /\ last_fill_cnt \in 0 .. Size /\ (adding => last_fill_cnt <= fill_cnt)
  BY DEF RingInv, OffsetsOK, BufOK, CopiesAgree, Slot
<1>2. Held(buf, p_r, fill_cnt) \in Seq(Slot) /\ Len(Held(buf, p_r, fill_cnt)) = fill_cnt
  BY <1>1, SlotsHeld
<1>3. Content \in Seq(Bytes) /\ Len(Content) = fill_cnt
  BY <1>2, SlotsAreBytes DEF Content
<1> QED
  BY <1>1, <1>3, SizeAssumption

\* A byte put is the last of the content.
LEMMA ContentPut ==
  ASSUME RingInv, NEW b \in Bytes, RINGBUF_Put(b)
  PROVE  Content' = Append(Content, b) /\ fill_cnt' = fill_cnt + 1
<1>1. /\ fill_cnt \in 0 .. Size - 1 /\ fill_cnt' = fill_cnt + 1 /\ p_r' = p_r
      /\ buf' = [buf EXCEPT ![At(p_r, fill_cnt)] = b]
  BY SizeAssumption DEF RINGBUF_Put, Full, RingInv, OffsetsOK, PointersAgree
<1>2. b \in Slot /\ p_r \in 0 .. Size - 1 /\ buf \in [0 .. Size - 1 -> Slot]
  BY DEF Slot, RingInv, OffsetsOK, BufOK
<1>3. Held([buf EXCEPT ![At(p_r, fill_cnt)] = b], p_r, fill_cnt + 1) = Append(Held(buf, p_r, fill_cnt), b)
  BY ONLY <1>1, <1>2, PutAppends
<1> QED
  BY <1>1, <1>3 DEF Content

\* A byte got was the first of the content.
LEMMA ContentGet ==
  ASSUME RingInv, RINGBUF_Get
  PROVE  Content # <<>> /\ First = Head(Content) /\ Content' = Tail(Content)
<1>1. /\ fill_cnt \in 1 .. Size /\ fill_cnt' = fill_cnt - 1
      /\ p_r' = Advanced(p_r) /\ buf' = buf
      /\ p_r \in 0 .. Size - 1 /\ buf \in [0 .. Size - 1 -> Slot]
  BY SizeAssumption DEF RINGBUF_Get, Empty, RingInv, OffsetsOK, BufOK, Slot
<1> QED
  BY <1>1, GetTakesFirst DEF Content, First

\* A roll-back leaves what was there when the copies were taken.
LEMMA ContentBack ==
  ASSUME RingInv, adding, RollBack
  PROVE  Content' = SubSeq(Content, 1, last_fill_cnt) /\ fill_cnt' = last_fill_cnt
<1>1. /\ last_fill_cnt \in 0 .. fill_cnt /\ fill_cnt' = last_fill_cnt
      /\ p_r' = p_r /\ buf' = buf /\ fill_cnt \in 0 .. Size
      /\ p_r \in 0 .. Size - 1 /\ buf \in [0 .. Size - 1 -> Slot]
  BY SizeAssumption DEF RollBack, CopiesAgree, RingInv, OffsetsOK, BufOK, Slot
<1> QED
  BY <1>1, RollBackCuts DEF Content

\* The types of the callers' variables, and which of them stand for what.
ControlOK ==
  /\ pc \in {"idle", "adding", "parsing", "evicted"}
  /\ adding <=> pc = "adding"
  /\ adding \in BOOLEAN
  /\ message \in Messages \cup {<<>>} /\ todo \in Seq(Bytes)
  /\ evicts \in BOOLEAN /\ isBegin \in BOOLEAN /\ isEsc \in BOOLEAN
  /\ data \in Seq(Bytes) /\ Len(data) <= MaxLen
  /\ pc \in {"adding", "evicted"} \/ (pc = "parsing" /\ evicts) => message \in Messages

\* Every byte of a frame is one.
LEMMA FrameBytes == \A m \in Messages : Frame(m) \in Seq(Bytes) /\ Frame(m) # <<>>
<1> SUFFICES ASSUME NEW m \in Messages PROVE Frame(m) \in Seq(Bytes) /\ Frame(m) # <<>>
  OBVIOUS
<1>1. ReadsTo(Clean(<<>>), Frame(m), Clean(Append(<<>>, m))) /\ Len(Frame(m)) > 0
  <2>1. <<>> \in Seq(Seq(Bytes))
    OBVIOUS
  <2> QED
    BY <2>1, FrameReads
<1> QED
  BY <1>1, ReadsEnds

\* At first all is in order.
LEMMA InitControl == Init => ControlOK /\ RingInv
<1> SUFFICES ASSUME Init PROVE ControlOK /\ RingInv
  OBVIOUS
<1>1. RingInv
  BY InitRing DEF Init
<1> DEFINE none == <<>>
<1>2. none \in Seq(Bytes) /\ Len(none) <= MaxLen
  BY MessagesAssumption
<1>3. message = none /\ todo = none /\ data = none
  BY DEF Init
<1>4. pc = "idle" /\ adding = FALSE /\ evicts = FALSE /\ isBegin = FALSE /\ isEsc = FALSE
  BY DEF Init, RInit
<1>5. message \in Messages \cup {<<>>}
  BY <1>3
<1> HIDE DEF none
<1>6. ControlOK
  BY <1>2, <1>3, <1>4, <1>5 DEF ControlOK
<1> QED
  BY <1>1, <1>6

\* What is read is a byte.
LEMMA FirstByte == RingInv => First \in Bytes
<1> SUFFICES ASSUME RingInv PROVE First \in Bytes
  OBVIOUS
<1>1. buf \in [0 .. Size - 1 -> Slot] /\ p_r \in 0 .. Size - 1
  BY DEF RingInv, OffsetsOK, BufOK, Slot
<1> QED
  BY <1>1, SlotsAreBytes DEF First

\* The callers' variables keep their meaning, and the ring is used as RingBuf says.
LEMMA StepControl ==
  ASSUME RingInv, ControlOK, [Next]_vars
  PROVE  ControlOK' /\ [RNext]_rvars
<1> USE DEF ControlOK
<1>1. CASE QUEUE_Puts
  <2>1. PICK m \in Messages : Save /\ adding' = TRUE /\ pc' = "adding" /\ message' = m /\ todo' = Frame(m)
    BY <1>1 DEF QUEUE_Puts, StartAdding
  <2>2. evicts' \in BOOLEAN /\ pc = "idle" /\ UNCHANGED parser
    BY <1>1 DEF QUEUE_Puts
  <2>3. todo' \in Seq(Bytes)
    BY <2>1, FrameBytes
  <2>4. PutsStart
    BY <2>1, <2>2 DEF PutsStart
  <2> QED
    BY <2>1, <2>2, <2>3, <2>4 DEF RNext, parser
<1>2. CASE PutByte
  <2>1. Head(todo) \in Bytes /\ Tail(todo) \in Seq(Bytes)
    BY <1>2, HeadTailProperties DEF PutByte
  <2>2. PutsByte
    BY <1>2, <2>1 DEF PutByte, PutsByte, last
  <2> QED
    BY <1>2, <2>1, <2>2 DEF PutByte, RNext, parser
<1>3. CASE PutsReturn
  <2>1. PutsDone
    BY <1>3 DEF PutsReturn, PutsDone
  <2> QED
    BY <1>3, <2>1 DEF PutsReturn, RNext, parser
<1>4. CASE PutsFull
  <2>1. PutsFailed
    BY <1>4 DEF PutsFull, PutsFailed
  <2>2. <<>> \in Seq(Bytes) /\ Len(<<>>) <= MaxLen
    BY MessagesAssumption
  <2> QED
    BY <1>4, <2>1, <2>2 DEF PutsFull, RNext, parser, PROTO_Init
<1>5. CASE QUEUE_Gets
  <2>2. <<>> \in Seq(Bytes) /\ Len(<<>>) <= MaxLen
    BY MessagesAssumption
  <2> QED
    BY <1>5, <2>2 DEF QUEUE_Gets, PROTO_Init, rvars
<1>6. CASE GetByte
  <2>1. Gets
    BY <1>6 DEF GetByte, Gets, last
  <2>2. PROTO_ParseByte(First) /\ UNCHANGED <<adding, caller>> /\ First \in Bytes
    BY <1>6, FirstByte DEF GetByte
  <2>3. data' \in Seq(Bytes) /\ Len(data') <= MaxLen /\ isBegin' \in BOOLEAN /\ isEsc' \in BOOLEAN
    <3>1. CASE First = ESC /\ isEsc' = TRUE /\ UNCHANGED <<isBegin, data>>
      BY <3>1
    <3>2. CASE data' = <<>> /\ isEsc' = FALSE /\ isBegin' = TRUE
      <4>1. <<>> \in Seq(Bytes) /\ Len(<<>>) <= MaxLen
        BY MessagesAssumption
      <4> QED
        BY <3>2, <4>1
    <3>3. CASE ParseData(First)
      <4>1. CASE UNCHANGED <<data, isEsc, isBegin>>
        BY <4>1
      <4>2. CASE /\ data' = IF Len(data) < MaxLen
                              THEN Append(data, IF isEsc THEN Flipped(First) ELSE First) ELSE data
                 /\ isEsc' = FALSE /\ isBegin' = isBegin
        <5> DEFINE x == IF isEsc THEN Flipped(First) ELSE First
        <5>1. x \in Bytes
          BY <2>2, FlippedByte
        <5> HIDE DEF x
        <5>2. Append(data, x) \in Seq(Bytes) /\ Len(Append(data, x)) = Len(data) + 1 /\ Len(data) \in Nat
          BY <5>1, AppendProperties
        <5>3. data' = IF Len(data) < MaxLen THEN Append(data, x) ELSE data
          BY <4>2 DEF x
        <5>4. data' \in Seq(Bytes) /\ Len(data') <= MaxLen
          <6>1. CASE Len(data) < MaxLen
            BY <5>2, <5>3, <6>1, MessagesAssumption
          <6>2. CASE ~(Len(data) < MaxLen)
            BY <5>3, <6>2
          <6> QED
            BY <6>1, <6>2
        <5> QED
          BY <4>2, <5>4
      <4> QED
        BY <3>3, <4>1, <4>2 DEF ParseData
    <3> QED
      BY <2>2, <3>1, <3>2, <3>3 DEF PROTO_ParseByte
  <2> QED
    BY <2>1, <2>2, <2>3 DEF RNext, caller
<1>7. CASE GetEnd
  <2>1. Gets
    BY <1>7 DEF GetEnd, Gets, last
  <2> QED
    BY <1>7, <2>1 DEF GetEnd, RNext, parser
<1>8. CASE Retry
  <2>1. todo' = Frame(message) /\ Save /\ adding' = TRUE /\ pc' = "adding" /\ message' = message
    BY <1>8 DEF Retry, StartAdding
  <2>2. PutsStart /\ message \in Messages
    BY <1>8, <2>1 DEF Retry, PutsStart
  <2>3. todo' \in Seq(Bytes)
    BY <2>1, <2>2, FrameBytes
  <2> QED
    BY <1>8, <2>1, <2>2, <2>3 DEF Retry, RNext, parser
<1>9. CASE GetNothing
  BY <1>9 DEF GetNothing, rvars, parser
<1>10. CASE UNCHANGED vars
  BY <1>10 DEF vars, rvars, caller, parser
<1> QED
  BY <1>1, <1>2, <1>3, <1>4, <1>5, <1>6, <1>7, <1>8, <1>9, <1>10 DEF Next

-----------------------------------------------------------------------------
(* Whole messages *)

\* At rest the ring holds the frames of the messages q and nothing else.
AtRest(q) == ReadsTo(Clean(<<>>), Content, Clean(q))

\* The bytes that are still to be put, and only the last of them, end a frame.
EndsLast(c) == \A i \in 1 .. Len(c) : c[i] = END <=> i = Len(c)

\* While a message is added, the copies describe a ring at rest, the ring holds
\* the beginning of one more frame, and the bytes still to be put complete it.
Adding(q) ==
  \E p, u :
    /\ ReadsTo(Clean(<<>>), SubSeq(Content, 1, last_fill_cnt), Clean(p))
    /\ ReadsTo(Clean(<<>>), Content, u) /\ u.ended = q
    /\ ReadsTo(u, todo, Clean(Append(p, message)))
    /\ todo # <<>> => q = p
    /\ EndsLast(todo)
    /\ fill_cnt - last_fill_cnt = Len(Frame(message)) - Len(todo)

\* While a message is taken out, the parser stands where reading goes on, in a
\* frame or before one; only a message too large for the ring makes it look for
\* one that is not there.
Parsing(q) ==
  \E s :
    /\ ReadsTo(s, Content, Clean(q))
    /\ s.ended = <<>> /\ s.data = data /\ s.esc = isEsc
    /\ s.begun => isBegin
    /\ ~s.begun => ~Empty \/ (evicts /\ Len(Frame(message)) > Size)

\* The queue's messages are q.
Stored(q) ==
  /\ pc \in {"idle", "evicted"} => AtRest(q)
  /\ pc = "adding" => Adding(q)
  /\ pc = "parsing" => Parsing(q)

\* Clean states by their messages.
LEMMA CleanParts ==
  /\ \A p, q : Clean(p) = Clean(q) => p = q
  /\ \A q : Clean(q) \in Parsers => q \in Seq(Seq(Bytes))
  /\ \A q : Clean(q).ended = q /\ Clean(q).data = <<>> /\ Clean(q).esc = FALSE /\ Clean(q).begun = FALSE
<1>1. \A q : Clean(q).ended = q /\ Clean(q).data = <<>> /\ Clean(q).esc = FALSE /\ Clean(q).begun = FALSE
  BY DEF Clean
<1>2. \A q : Clean(q) \in Parsers => q \in Seq(Seq(Bytes))
  <2> TAKE q
  <2> HAVE Clean(q) \in Parsers
  <2>1. Clean(q).ended \in Seq(Seq(Bytes))
    BY DEF Parsers
  <2> QED
    BY <1>1, <2>1
<1>3. \A p, q : Clean(p) = Clean(q) => p = q
  <2> TAKE p, q
  <2> HAVE Clean(p) = Clean(q)
  <2>1. Clean(p).ended = p /\ Clean(q).ended = q
    BY <1>1
  <2> QED
    BY <2>1
<1> QED
  BY <1>1, <1>2, <1>3

\* Pending is what Read makes of a ring with a given parser.
LEMMA PendingRead ==
  /\ pc = "parsing" => Pending = Read([ended |-> <<>>, data |-> data, esc |-> isEsc], Content)
  /\ pc # "parsing" => Pending = Read([ended |-> <<>>, data |-> <<>>, esc |-> FALSE], Content)
  BY DEF Pending

\* The abstraction finds the messages.
LEMMA PendingIs ==
  ASSUME ControlOK, NEW q, Stored(q)
  PROVE  Pending = q
<1>1. Known(Clean(<<>>)) = [ended |-> <<>>, data |-> <<>>, esc |-> FALSE]
  BY CleanParts, Zenon DEF Known
<1>2. CASE pc \in {"idle", "evicted"}
  <2>1. Read(Known(Clean(<<>>)), Content) = Clean(q).ended
    BY <1>2, ReadIs DEF Stored, AtRest
  <2>2. Pending = Read(Known(Clean(<<>>)), Content)
    BY <1>1, <1>2, PendingRead
  <2> QED
    BY <2>1, <2>2, CleanParts
<1>3. CASE pc = "adding"
  <2>1. PICK u : ReadsTo(Clean(<<>>), Content, u) /\ u.ended = q
    BY <1>3 DEF Stored, Adding
  <2>2. Read(Known(Clean(<<>>)), Content) = q
    BY <2>1, ReadIs
  <2>3. Pending = Read(Known(Clean(<<>>)), Content)
    BY <1>1, <1>3, PendingRead
  <2> QED
    BY <2>2, <2>3
<1>4. CASE pc = "parsing"
  <2>1. PICK s : ReadsTo(s, Content, Clean(q)) /\ s.ended = <<>> /\ s.data = data /\ s.esc = isEsc
    BY <1>4 DEF Stored, Parsing
  <2>2. Read(Known(s), Content) = Clean(q).ended
    BY <2>1, ReadIs
  <2>3. Known(s) = [ended |-> <<>>, data |-> data, esc |-> isEsc]
    BY <2>1, Zenon DEF Known
  <2>4. Pending = Read(Known(s), Content)
    BY <1>4, <2>3, PendingRead
  <2> QED
    BY <2>2, <2>4, CleanParts
<1> QED
  BY <1>2, <1>3, <1>4 DEF ControlOK

\* A message is about to be added to a ring at rest.
LEMMA StartStored ==
  ASSUME RingInv, RingInv', NEW q, AtRest(q), NEW m \in Messages, StartAdding(m)
  PROVE  Stored(q)' /\ todo' # <<>>
<1>1. /\ Content' = Content /\ fill_cnt' = fill_cnt /\ last_fill_cnt' = fill_cnt
      /\ pc' = "adding" /\ message' = m /\ todo' = Frame(m)
  BY DEF StartAdding, Save, ring, Content
<1>2. Content \in Seq(Bytes) /\ Len(Content) = fill_cnt /\ fill_cnt \in Int
  BY ContentIs, SizeAssumption
<1>3. SubSeq(Content, 1, fill_cnt) = Content
  BY <1>2, SubSeqFull
<1>4. Clean(q) \in Parsers /\ q \in Seq(Seq(Bytes))
  BY ReadsEnds, CleanParts DEF AtRest
<1>5. ReadsTo(Clean(q), Frame(m), Clean(Append(q, m))) /\ EndsLast(Frame(m))
  BY <1>4, FrameReads DEF EndsLast
<1>6. Frame(m) # <<>> /\ Len(Frame(m)) \in Nat
  BY FrameBytes
<1>7. fill_cnt - fill_cnt = Len(Frame(m)) - Len(Frame(m))
  BY <1>2, <1>6
<1>8. Adding(q)'
  <2>1. Clean(q).ended = q
    BY CleanParts
  <2> QED
    BY <1>1, <1>3, <1>5, <1>7, <2>1 DEF Adding, AtRest
<1> QED
  BY <1>1, <1>6, <1>8 DEF Stored

\* A byte put is a byte less to put; the last one adds the message.
LEMMA PutStored ==
  ASSUME RingInv, ControlOK, NEW q, Stored(q), NEW m, m = message, PutByte
  PROVE  /\ todo' # <<>> => Stored(q)'
         /\ todo' = <<>> => Stored(Append(q, m))'
<1> DEFINE b == Head(todo)
<1>1. /\ pc = "adding" /\ todo # <<>> /\ todo \in Seq(Bytes) /\ b \in Bytes /\ RINGBUF_Put(b)
      /\ todo' = Tail(todo) /\ UNCHANGED <<last, pc, message>> /\ adding
  BY HeadTailProperties DEF PutByte, ControlOK
<1>2. Content' = Append(Content, b) /\ fill_cnt' = fill_cnt + 1 /\ last_fill_cnt' = last_fill_cnt
  BY <1>1, ContentPut DEF last
<1>3. PICK p, u :
        /\ ReadsTo(Clean(<<>>), SubSeq(Content, 1, last_fill_cnt), Clean(p))
        /\ ReadsTo(Clean(<<>>), Content, u) /\ u.ended = q
        /\ ReadsTo(u, todo, Clean(Append(p, message)))
        /\ q = p
        /\ EndsLast(todo)
        /\ fill_cnt - last_fill_cnt = Len(Frame(message)) - Len(todo)
  BY <1>1 DEF Stored, Adding
<1> DEFINE v == After(u, b)
           r == Tail(todo)
           n == Len(todo)
<1>4. Legal(u, b) /\ ReadsTo(v, r, Clean(Append(p, message)))
  BY <1>1, <1>3, ReadsFirst
<1>5. ReadsTo(Clean(<<>>), Append(Content, b), v)
  BY <1>1, <1>3, <1>4, ReadsMore
<1>6. SubSeq(Append(Content, b), 1, last_fill_cnt) = SubSeq(Content, 1, last_fill_cnt)
  <2> DEFINE C == Content
             D == Append(Content, b)
             l == last_fill_cnt
  <2>1. C \in Seq(Bytes) /\ Len(C) = fill_cnt /\ fill_cnt \in Nat /\ l \in 0 .. fill_cnt
    BY <1>1, ContentIs, SizeAssumption
  <2>2. D \in Seq(Bytes) /\ Len(D) = Len(C) + 1 /\ \A i \in 1 .. Len(C) : D[i] = C[i]
    BY <1>1, <2>1, AppendProperties
  <2> HIDE DEF C, D, l
  <2>3. 1 \in Int /\ l \in Int /\ (\A i \in 1 .. l : C[i] \in Bytes /\ D[i] \in Bytes /\ D[i] = C[i])
    BY <2>1, <2>2
  <2>4. /\ SubSeq(C, 1, l) \in Seq(Bytes) /\ Len(SubSeq(C, 1, l)) = l
        /\ \A i \in 1 .. l : SubSeq(C, 1, l)[i] = C[i]
    BY <2>1, <2>3, SubSeqProperties
  <2>5. /\ SubSeq(D, 1, l) \in Seq(Bytes) /\ Len(SubSeq(D, 1, l)) = l
        /\ \A i \in 1 .. l : SubSeq(D, 1, l)[i] = D[i]
    BY <2>1, <2>3, SubSeqProperties
  <2>6. SubSeq(D, 1, l) = SubSeq(C, 1, l)
    BY <2>3, <2>4, <2>5, SeqEqual
  <2> QED
    BY <2>6 DEF C, D, l
<1>7. n \in Nat /\ n >= 1 /\ r \in Seq(Bytes) /\ Len(r) = n - 1
      /\ b = todo[1] /\ \A i \in 1 .. n - 1 : r[i] = todo[i + 1]
  BY <1>1, HeadTailProperties
<1> HIDE DEF r, v
<1>8. EndsLast(r)
  <2>1. ASSUME NEW i \in 1 .. n - 1 PROVE r[i] = END <=> i = n - 1
    <3>0. i + 1 \in 1 .. n
      BY <1>7
    <3>1. r[i] = todo[i + 1]
      BY <1>7
    <3>2. todo[i + 1] = END <=> i + 1 = n
      BY <1>3, <3>0 DEF EndsLast
    <3> QED
      BY <1>7, <3>1, <3>2
  <2> QED
    BY <1>7, <2>1 DEF EndsLast
<1>9. /\ fill_cnt \in Int /\ last_fill_cnt \in Int /\ Len(Frame(message)) \in Int
  BY <1>1, ContentIs, FrameBytes, SizeAssumption DEF ControlOK
<1>10. (fill_cnt + 1) - last_fill_cnt = Len(Frame(message)) - Len(r)
  <2> DEFINE f == Len(Frame(message))
             x == fill_cnt
             y == last_fill_cnt
  <2>1. x - y = f - n /\ Len(r) = n - 1 /\ n \in Int /\ f \in Int /\ x \in Int /\ y \in Int
    BY <1>3, <1>7, <1>9
  <2> HIDE DEF f, x, y, n
  <2>2. (x + 1) - y = f - (n - 1)
    BY <2>1
  <2>3. (x + 1) - y = f - Len(r)
    BY <2>1, <2>2
  <2> QED
    BY <2>3 DEF f, x, y
<1>11. CASE r # <<>>
  <2>1. n # 1
    BY <1>7, <1>11
  <2>2. b # END
    BY <1>3, <1>7, <2>1 DEF EndsLast
  <2>3. v.ended = q
    BY <1>3, <2>2, AfterParts DEF v
  <2>4. Adding(q)'
    BY <1>1, <1>2, <1>3, <1>4, <1>5, <1>6, <1>8, <1>10, <2>3 DEF Adding, r
  <2> QED
    BY <1>1, <1>11, <2>4 DEF Stored, r
<1>12. CASE r = <<>>
  <2>1. v = Clean(Append(p, message))
    BY <1>4, <1>12, ReadsNothing
  <2>2. v.ended = Append(q, m)
    BY <1>3, <2>1, CleanParts
  <2>3. todo' = <<>> /\ todo' = r /\ message' = message
    BY <1>1, <1>12 DEF r
  <2>4. Adding(Append(q, m))'
    BY <1>1, <1>2, <1>3, <1>4, <1>5, <1>6, <1>8, <1>10, <2>2, <2>3 DEF Adding
  <2> QED
    BY <1>1, <2>3, <2>4 DEF Stored
<1> QED
  BY <1>1, <1>11, <1>12 DEF r

\* A message added leaves a ring at rest.
LEMMA ReturnStored ==
  ASSUME NEW q, Stored(q), PutsReturn
  PROVE  Stored(q)'
<1>1. /\ pc = "adding" /\ todo = <<>> /\ pc' = "idle" /\ Content' = Content
  BY DEF PutsReturn, ring, Content
<1>2. PICK p, u :
        /\ ReadsTo(Clean(<<>>), Content, u) /\ u.ended = q
        /\ ReadsTo(u, todo, Clean(Append(p, message)))
  BY <1>1 DEF Stored, Adding
<1>3. u = Clean(Append(p, message))
  BY <1>1, <1>2, ReadsNothing
<1>4. u = Clean(q)
  BY <1>2, <1>3, CleanParts
<1> QED
  BY <1>1, <1>2, <1>4 DEF Stored, AtRest

\* A parser that begins at a ring at rest.
LEMMA ParsingBegins ==
  ASSUME NEW q, AtRest(q)', PROTO_Init, fill_cnt' \in Nat,
         fill_cnt' # 0 \/ (evicts' /\ Len(Frame(message'))  > Size)
  PROVE  Parsing(q)'
<1>1. data' = <<>> /\ isEsc' = FALSE
  BY DEF PROTO_Init
<1>2. /\ Clean(<<>>).ended = <<>> /\ Clean(<<>>).data = <<>> /\ Clean(<<>>).esc = FALSE
      /\ Clean(<<>>).begun = FALSE
  BY CleanParts
<1>3. Empty' <=> fill_cnt' = 0
  BY DEF Empty
<1> QED
  BY <1>1, <1>2, <1>3 DEF Parsing, AtRest

\* A ring that is full is rolled back to where it was at rest.
LEMMA FullStored ==
  ASSUME RingInv, ControlOK, NEW q, Stored(q), PutsFull
  PROVE  /\ Stored(q)' /\ todo # <<>>
         /\ fill_cnt' + Len(Frame(message)) > Size
<1>1. /\ pc = "adding" /\ adding /\ todo # <<>> /\ todo \in Seq(Bytes) /\ fill_cnt >= Size /\ RollBack
      /\ message' = message /\ evicts' = evicts /\ evicts \in BOOLEAN
  BY DEF PutsFull, Full, ControlOK
<1>2. Content' = SubSeq(Content, 1, last_fill_cnt) /\ fill_cnt' = last_fill_cnt
  BY <1>1, ContentBack
<1>3. PICK p, u :
        /\ ReadsTo(Clean(<<>>), SubSeq(Content, 1, last_fill_cnt), Clean(p))
        /\ q = p
        /\ fill_cnt - last_fill_cnt = Len(Frame(message)) - Len(todo)
  BY <1>1 DEF Stored, Adding
<1>4. AtRest(q)'
  BY <1>2, <1>3 DEF AtRest
<1>5. /\ fill_cnt \in 0 .. Size /\ Size \in Nat /\ last_fill_cnt \in 0 .. fill_cnt
      /\ Len(Frame(message)) \in Nat /\ Len(todo) \in Nat /\ Len(todo) > 0
  BY <1>1, ContentIs, FrameBytes, SizeAssumption DEF ControlOK
<1>6. last_fill_cnt + Len(Frame(message)) > Size /\ fill_cnt' \in Nat
  BY <1>1, <1>2, <1>3, <1>5
<1>7. CASE evicts /\ pc' = "parsing" /\ PROTO_Init
  <2>1. fill_cnt' # 0 \/ (evicts' /\ Len(Frame(message')) > Size)
    BY <1>1, <1>2, <1>5, <1>6, <1>7
  <2>2. Parsing(q)'
    BY <1>4, <1>6, <1>7, <2>1, ParsingBegins
  <2> QED
    BY <1>1, <1>2, <1>6, <1>7, <2>2 DEF Stored
<1>8. CASE pc' = "idle"
  BY <1>1, <1>2, <1>4, <1>6, <1>8 DEF Stored
<1> QED
  BY <1>7, <1>8 DEF PutsFull

\* The task begins to take out a message if there is one.
LEMMA GetsStored ==
  ASSUME RingInv, NEW q, Stored(q), QUEUE_Gets
  PROVE  Stored(q)'
<1>1. /\ pc = "idle" /\ pc' = "parsing" /\ PROTO_Init /\ Content' = Content /\ fill_cnt' = fill_cnt /\ ~Empty
  BY DEF QUEUE_Gets, rvars, ring, Content
<1>2. fill_cnt \in Nat
  BY ContentIs, SizeAssumption
<1>3. AtRest(q)'
  BY <1>1 DEF Stored, AtRest
<1>4. fill_cnt' \in Nat /\ fill_cnt' # 0
  BY <1>1, <1>2 DEF Empty
<1>5. Parsing(q)'
  BY <1>1, <1>3, <1>4, ParsingBegins
<1> QED
  BY <1>1, <1>5 DEF Stored

\* Every byte got is read as it was meant.
LEMMA GetStored ==
  ASSUME RingInv, ControlOK, NEW q, Stored(q), GetByte
  PROVE  Stored(q)'
<1> DEFINE b == Head(Content)
<1>1. pc = "parsing" /\ RINGBUF_Get /\ PROTO_ParseByte(First) /\ UNCHANGED <<pc, evicts, message>>
  BY DEF GetByte, caller
<1>2. Content # <<>> /\ First = b /\ Content' = Tail(Content)
  BY <1>1, ContentGet
<1>3. PICK s :
        /\ ReadsTo(s, Content, Clean(q))
        /\ s.ended = <<>> /\ s.data = data /\ s.esc = isEsc
        /\ s.begun => isBegin
  BY <1>1 DEF Stored, Parsing
<1> DEFINE v == After(s, b)
<1>4. b \in Bytes /\ Legal(s, b) /\ ReadsTo(v, Tail(Content), Clean(q)) /\ s \in Parsers
  BY <1>2, <1>3, ReadsFirst, ReadsEnds
<1>5. b # END /\ PROTO_ParseByte(b)
  <2>1. {ESC, BEGIN} \subseteq Bytes /\ ESC # END /\ BEGIN # END
    BY MessagesAssumption DEF ESC, BEGIN, END
  <2> QED
    BY <1>1, <1>2, <2>1 DEF PROTO_ParseByte
<1>6. v.begun /\ v.ended = <<>> /\ v.esc \in BOOLEAN /\ (v.esc <=> b = ESC)
  BY <1>3, <1>5, AfterParts
<1>7. v.data = data' /\ v.esc = isEsc' /\ isBegin'
  <2>0. ESC # BEGIN
    BY DEF ESC, BEGIN
  <2>1. CASE b = ESC
    <3>1. s.begun /\ v.data = s.data
      BY <1>4, <2>0, <2>1, AfterParts DEF Legal
    <3>2. isEsc' = TRUE /\ isBegin' = isBegin /\ data' = data
      BY <1>5, <2>0, <2>1 DEF PROTO_ParseByte
    <3> QED
      BY <1>3, <1>6, <2>1, <3>1, <3>2
  <2>2. CASE b = BEGIN
    <3>1. v.data = <<>>
      BY <2>2, AfterParts
    <3>2. isEsc' = FALSE /\ isBegin' = TRUE /\ data' = <<>>
      BY <1>5, <2>0, <2>2 DEF PROTO_ParseByte
    <3> QED
      BY <1>6, <2>0, <2>2, <3>1, <3>2
  <2>3. CASE b \notin {ESC, BEGIN, END}
    <3> DEFINE x == IF isEsc THEN Flipped(b) ELSE b
    <3>1. s.begun /\ Len(s.data) < MaxLen
      BY <1>4, <2>3 DEF Legal
    <3>2. v.data = Append(data, x)
      BY <1>3, <2>3, AfterParts
    <3>3. ParseData(b)
      BY <1>5, <2>3 DEF PROTO_ParseByte
    <3>4. isEsc' = FALSE /\ isBegin' = isBegin /\ data' = Append(data, x)
      BY <1>3, <3>1, <3>3 DEF ParseData
    <3> HIDE DEF x, v
    <3> QED
      BY <1>3, <1>6, <2>3, <3>1, <3>2, <3>4
  <2> QED
    BY <1>5, <2>1, <2>2, <2>3
<1> HIDE DEF v
<1>8. Parsing(q)'
  BY <1>2, <1>4, <1>6, <1>7 DEF Parsing
<1> QED
  BY <1>1, <1>8 DEF Stored

\* The end of a frame hands out the oldest message, and the others stay.
LEMMA EndStored ==
  ASSUME RingInv, ControlOK, NEW q, Stored(q), GetEnd
  PROVE  q # <<>> /\ Head(q) = data /\ Stored(Tail(q))'
<1> DEFINE b == Head(Content)
<1>1. pc = "parsing" /\ RINGBUF_Get /\ First = END /\ pc' \in {"idle", "evicted"}
  BY DEF GetEnd
<1>2. Content # <<>> /\ First = b /\ Content' = Tail(Content)
  BY <1>1, ContentGet
<1>3. PICK s :
        /\ ReadsTo(s, Content, Clean(q))
        /\ s.ended = <<>> /\ s.data = data /\ s.esc = isEsc
  BY <1>1 DEF Stored, Parsing
<1> DEFINE v == After(s, END)
<1>4. ReadsTo(v, Tail(Content), Clean(q))
  <2>1. ReadsTo(After(s, b), Tail(Content), Clean(q))
    BY <1>2, <1>3, ReadsFirst
  <2> QED
    BY <1>1, <1>2, <2>1
<1>5. v.ended = <<data>> /\ v.data = <<>> /\ v.esc = FALSE /\ v.begun = FALSE
  <2>1. END # ESC
    BY DEF END, ESC
  <2>2. Append(<<>>, data) = <<data>>
    OBVIOUS
  <2>3. v.ended = Append(s.ended, s.data)
    BY AfterParts
  <2>4. v.ended = <<data>>
    BY <1>3, <2>2, <2>3
  <2>5. v.data = <<>>
    BY AfterParts
  <2>6. v.esc = FALSE /\ v.begun = FALSE
    <3>1. v.esc \in BOOLEAN /\ v.begun \in BOOLEAN /\ ~v.esc /\ ~v.begun
      BY <2>1, AfterParts
    <3> HIDE DEF v
    <3> QED
      BY <3>1
  <2> QED
    BY <2>4, <2>5, <2>6
<1> HIDE DEF v
<1>6. v.ended # <<>> /\ Head(v.ended) = data /\ Tail(v.ended) = <<>>
  BY <1>5
<1>7. /\ Clean(q).ended # <<>> /\ Head(Clean(q).ended) = Head(v.ended)
      /\ ReadsTo(Forgets(v), Tail(Content), Forgets(Clean(q)))
  BY <1>4, <1>6, ReadsWithoutFirst
<1>8. Forgets(v) = Clean(<<>>) /\ Forgets(Clean(q)) = Clean(Tail(q))
  <2>1. Forgets(v) = Clean(<<>>)
    BY <1>5, <1>6, Zenon DEF Forgets, Clean
  <2>2. Forgets(Clean(q)) = Clean(Tail(q))
    BY CleanParts, Zenon DEF Forgets, Clean
  <2> QED
    BY <2>1, <2>2
<1>9. AtRest(Tail(q))'
  BY <1>2, <1>7, <1>8 DEF AtRest
<1>10. q # <<>> /\ Head(q) = data
  BY <1>6, <1>7, CleanParts
<1>11. Stored(Tail(q))'
  <2>1. pc' # "adding" /\ pc' # "parsing"
    BY <1>1
  <2> QED
    BY <1>9, <2>1 DEF Stored
<1> QED
  BY <1>10, <1>11

\* Nothing is found only when the ring held nothing.
LEMMA NothingStored ==
  ASSUME RingInv, NEW q, pc = "parsing", Stored(q), Empty
  PROVE  evicts /\ data = <<>> /\ Len(Frame(message)) > Size /\ AtRest(q)
<1>1. PICK s :
        /\ ReadsTo(s, Content, Clean(q))
        /\ s.ended = <<>> /\ s.data = data /\ s.esc = isEsc
        /\ ~s.begun => ~Empty \/ (evicts /\ Len(Frame(message)) > Size)
  BY DEF Stored, Parsing
<1>2. Content = <<>>
  <2>1. fill_cnt = 0 /\ Content \in Seq(Bytes) /\ Len(Content) = 0
    BY ContentIs, SizeAssumption DEF Empty
  <2> QED
    BY <2>1
<1>3. s = Clean(q)
  BY <1>1, <1>2, ReadsNothing
<1>4. ~s.begun /\ s.data = <<>> /\ s.ended = q
  BY <1>3, CleanParts
<1>5. q = <<>>
  BY <1>1, <1>4
<1> QED
  BY <1>1, <1>3, <1>4, <1>5 DEF AtRest

\* PendingIs as a formula.
LEMMA PendingAlways == \A q : ControlOK /\ Stored(q) => Pending = q
  BY PendingIs

\* The abstraction after a step.
LEMMA PendingNext == (\A q : ControlOK /\ Stored(q) => Pending = q)'
  BY PendingAlways, PTL

-----------------------------------------------------------------------------
(* The theorems *)

\* The inductive invariant: the ring's, the callers' variables, and in the ring
\* the frames of the pending messages.
QueueInv == RingInv /\ ControlOK /\ Stored(Pending)

\* At first the queue is empty.
LEMMA InitQueue == Init => QueueInv
<1> SUFFICES ASSUME Init PROVE QueueInv
  OBVIOUS
<1>1. RingInv /\ ControlOK
  BY InitControl
<1>2. Content = <<>>
  <2>1. Content \in Seq(Bytes) /\ Len(Content) = 0
    BY <1>1, ContentIs DEF Init, RInit
  <2> QED
    BY <2>1
<1>3. <<>> \in Seq(Seq(Bytes))
  OBVIOUS
<1>4. AtRest(<<>>)
  BY <1>2, <1>3, CleanOK, ReadsNothing DEF AtRest
<1>5. Stored(<<>>)
  BY <1>4 DEF Stored, Init
<1>6. Pending = <<>>
  BY <1>1, <1>5, PendingIs
<1> QED
  BY <1>1, <1>5, <1>6 DEF QueueInv

\* Whether a message is being added, as MsgFifo sees it.
IsAdding == (pc = "adding" /\ todo # <<>>) \/ pc = "evicted" \/ (pc = "parsing" /\ evicts)

\* Every step keeps the ring in order and is a step of MsgFifo or none.
LEMMA StepQueue ==
  ASSUME QueueInv, [Next]_vars
  PROVE  QueueInv' /\ [Abstract!Next]_<<Pending, taken, message, IsAdding>>
<1>0. PICK q : q = Pending
  OBVIOUS
<1>1. RingInv /\ ControlOK /\ Stored(q)
  BY <1>0 DEF QueueInv
<1>2. ControlOK' /\ [RNext]_rvars
  BY <1>1, StepControl
<1>3. RingInv'
  BY <1>1, <1>2, StepRing
<1>4. ASSUME NEW p, Stored(p)' PROVE QueueInv' /\ Pending' = p
  <2>1. Pending' = p
    BY <1>2, <1>4, PendingNext
  <2> QED
    BY <1>2, <1>3, <1>4, <2>1 DEF QueueInv
<1>6. CASE QUEUE_Puts
  <2>1. PICK m \in Messages : StartAdding(m)
    BY <1>6 DEF QUEUE_Puts
  <2>2. pc = "idle" /\ AtRest(q) /\ pc' = "adding" /\ message' = m /\ taken' = taken
    BY <1>1, <1>6, <2>1 DEF QUEUE_Puts, Stored, StartAdding
  <2>3. Stored(q)' /\ todo' # <<>>
    BY <1>1, <1>3, <2>1, <2>2, StartStored
  <2>4. QueueInv' /\ Pending' = q
    BY <1>4, <2>3
  <2>5. ~IsAdding /\ IsAdding'
    BY <2>2, <2>3 DEF IsAdding
  <2>6. Abstract!Offer
    BY <1>0, <2>2, <2>4, <2>5 DEF Abstract!Offer, IsAdding
  <2> QED
    BY <2>4, <2>6 DEF Abstract!Next
<1>7. CASE PutByte
  <2>1. /\ pc = "adding" /\ pc' = "adding" /\ todo # <<>> /\ message' = message /\ taken' = taken
    BY <1>7 DEF PutByte
  <2>2. CASE todo' # <<>>
    <3>1. QueueInv' /\ Pending' = q
      BY <1>1, <1>4, <1>7, <2>2, PutStored
    <3>2. IsAdding' = IsAdding
      BY <2>1, <2>2 DEF IsAdding
    <3> QED
      BY <1>0, <2>1, <3>1, <3>2
  <2>3. CASE todo' = <<>>
    <3>0. PICK m : m = message
      OBVIOUS
    <3>1. Stored(Append(q, m))'
      BY <1>1, <1>7, <2>3, <3>0, PutStored
    <3>2. QueueInv' /\ Pending' = Append(q, message)
      BY <1>4, <3>0, <3>1
    <3>3. IsAdding /\ ~IsAdding'
      BY <2>1, <2>3 DEF IsAdding
    <3>4. Abstract!Add
      BY <1>0, <2>1, <3>2, <3>3 DEF Abstract!Add, IsAdding
    <3> QED
      BY <3>2, <3>4 DEF Abstract!Next
  <2> QED
    BY <2>2, <2>3
<1>8. CASE PutsReturn
  <2>1. pc = "adding" /\ todo = <<>> /\ pc' = "idle" /\ message' = message /\ taken' = taken
    BY <1>8 DEF PutsReturn
  <2>2. QueueInv' /\ Pending' = q
    BY <1>1, <1>4, <1>8, ReturnStored
  <2>3. IsAdding' = IsAdding
    BY <2>1 DEF IsAdding
  <2> QED
    BY <1>0, <2>1, <2>2, <2>3
<1>9. CASE PutsFull
  <2>1. pc = "adding" /\ message' = message /\ taken' = taken /\ evicts' = evicts
    BY <1>9 DEF PutsFull
  <2>2. Stored(q)' /\ todo # <<>>
    BY <1>1, <1>9, FullStored
  <2>3. QueueInv' /\ Pending' = q
    BY <1>4, <2>2
  <2>4. IsAdding
    BY <2>1, <2>2 DEF IsAdding
  <2>5. CASE evicts /\ pc' = "parsing"
    <3>1. IsAdding'
      BY <2>1, <2>5 DEF IsAdding
    <3>2. IsAdding' = IsAdding
      BY <2>4, <3>1 DEF IsAdding
    <3> QED
      BY <1>0, <2>1, <2>3, <3>2
  <2>6. CASE pc' = "idle"
    <3>1. ~IsAdding'
      BY <2>6 DEF IsAdding
    <3>2. Abstract!GiveUp
      BY <1>0, <2>1, <2>3, <2>4, <3>1 DEF Abstract!GiveUp, IsAdding
    <3> QED
      BY <2>3, <3>2 DEF Abstract!Next
  <2> QED
    BY <1>9, <2>5, <2>6 DEF PutsFull
<1>10. CASE QUEUE_Gets
  <2>1. pc = "idle" /\ pc' = "parsing" /\ evicts' = FALSE /\ message' = message /\ taken' = taken
    BY <1>10 DEF QUEUE_Gets
  <2>2. QueueInv' /\ Pending' = q
    BY <1>1, <1>4, <1>10, GetsStored
  <2>3. IsAdding' = IsAdding
    BY <2>1 DEF IsAdding
  <2> QED
    BY <1>0, <2>1, <2>2, <2>3
<1>11. CASE GetByte
  <2>1. UNCHANGED <<pc, message, todo, evicts, taken>>
    BY <1>11 DEF GetByte, caller
  <2>2. QueueInv' /\ Pending' = q
    BY <1>1, <1>4, <1>11, GetStored
  <2>3. IsAdding' = IsAdding
    BY <2>1 DEF IsAdding
  <2> QED
    BY <1>0, <2>1, <2>2, <2>3
<1>12. CASE GetEnd
  <2>1. /\ pc = "parsing" /\ taken' = data /\ pc' = IF evicts THEN "evicted" ELSE "idle"
        /\ UNCHANGED <<message, todo, evicts>>
    BY <1>12 DEF GetEnd
  <2>2. q # <<>> /\ Head(q) = data /\ Stored(Tail(q))'
    BY <1>1, <1>12, EndStored
  <2>3. QueueInv' /\ Pending' = Tail(q)
    BY <1>4, <2>2
  <2>4. IsAdding' = IsAdding
    BY <2>1 DEF IsAdding
  <2>5. Abstract!Take
    BY <1>0, <2>1, <2>2, <2>3, <2>4 DEF Abstract!Take, IsAdding
  <2> QED
    BY <2>3, <2>5 DEF Abstract!Next
<1>13. CASE Retry
  <2>1. /\ pc = "evicted" /\ StartAdding(message) /\ pc' = "adding" /\ message' = message /\ taken' = taken
        /\ message \in Messages
    BY <1>1, <1>13 DEF Retry, StartAdding, ControlOK
  <2>2. AtRest(q)
    BY <1>1, <2>1 DEF Stored
  <2>3. Stored(q)' /\ todo' # <<>>
    BY <1>1, <1>3, <2>1, <2>2, StartStored
  <2>4. QueueInv' /\ Pending' = q
    BY <1>4, <2>3
  <2>5. IsAdding' = IsAdding
    BY <2>1, <2>3 DEF IsAdding
  <2> QED
    BY <1>0, <2>1, <2>4, <2>5
<1>14. CASE GetNothing
  <2>1. pc = "parsing" /\ Empty /\ pc' = "idle" /\ message' = message /\ taken' = taken /\ UNCHANGED rvars
    BY <1>14 DEF GetNothing
  <2>2. evicts /\ AtRest(q)
    BY <1>1, <2>1, NothingStored
  <2>3. Stored(q)'
    BY <2>1, <2>2 DEF Stored, AtRest, Content, rvars, ring
  <2>4. QueueInv' /\ Pending' = q
    BY <1>4, <2>3
  <2>5. IsAdding /\ ~IsAdding'
    BY <2>1, <2>2 DEF IsAdding
  <2>6. Abstract!GiveUp
    BY <1>0, <2>1, <2>4, <2>5 DEF Abstract!GiveUp, IsAdding
  <2> QED
    BY <2>4, <2>6 DEF Abstract!Next
<1>15. CASE UNCHANGED vars
  <2>1. UNCHANGED <<rvars, pc, message, todo, evicts, isBegin, isEsc, data, taken>>
    BY <1>15 DEF vars, caller, parser
  <2>2. Content' = Content /\ last_fill_cnt' = last_fill_cnt /\ fill_cnt' = fill_cnt
    BY <2>1 DEF rvars, ring, last, Content
  <2>3. Stored(q)'
    BY <1>1, <2>1, <2>2 DEF Stored, AtRest, Adding, Parsing, Empty
  <2>4. QueueInv' /\ Pending' = q
    BY <1>4, <2>3
  <2>5. IsAdding' = IsAdding
    BY <2>1 DEF IsAdding
  <2> QED
    BY <1>0, <2>1, <2>4, <2>5
<1> QED
  BY <1>6, <1>7, <1>8, <1>9, <1>10, <1>11, <1>12, <1>13, <1>14, <1>15 DEF Next

\* The invariant holds always.
LEMMA QueueInductive == Spec => []QueueInv
<1>1. QueueInv /\ [Next]_vars => QueueInv'
  BY StepQueue
<1> QED
  BY InitQueue, <1>1, PTL DEF Spec

\* QUEUE_Puts and QUEUE_Gets use the ring as its specification says.
THEOREM QueueUsesRing == Spec => UsesRing
<1>1. Init => RInit
  BY DEF Init
<1>2. QueueInv /\ [Next]_vars => [RNext]_rvars
  BY StepControl DEF QueueInv
<1> QED
  BY <1>1, <1>2, QueueInductive, PTL DEF Spec, UsesRing, RSpec

\* The ring in the queue is a FIFO of bytes.
THEOREM QueueRingIsFifo == Spec => RefinesFifo
  BY QueueUsesRing, RingIsFifo, PTL DEF UsesRing

\* Pointers that agree, no message longer than its buffer, whole frames only.
THEOREM QueueAlwaysConsistent == Spec => []QueueConsistent
<1>1. QueueInv => QueueConsistent
  <2> SUFFICES ASSUME QueueInv PROVE QueueConsistent
    OBVIOUS
  <2>1. RTypeOK /\ PointersAgree
    BY DEF QueueInv, RingInv, OffsetsOK, BufOK, RTypeOK
  <2>2. TypeOK
    BY <2>1 DEF QueueInv, ControlOK, TypeOK
  <2>3. NothingOnlyWhenTooLarge
    BY NothingStored DEF QueueInv, NothingOnlyWhenTooLarge
  <2> QED
    BY <2>1, <2>2, <2>3 DEF QueueConsistent
<1> QED
  BY <1>1, QueueInductive, PTL

\* A message is pushed out only if the new one did not fit behind it.
THEOREM EvictsOnlyFull == Spec => EvictsOnlyWhenFull
<1>1. QueueInv /\ [Next]_vars
        => [pc = "adding" /\ pc' = "parsing" => fill_cnt' + Len(Frame(message)) > Size]_vars
  <2> SUFFICES ASSUME QueueInv, Next, pc = "adding", pc' = "parsing"
               PROVE  fill_cnt' + Len(Frame(message)) > Size
    OBVIOUS
  <2>1. PutsFull
    BY DEF Next, QUEUE_Puts, PutByte, PutsReturn, QUEUE_Gets, GetByte, GetEnd, Retry, GetNothing
  <2> QED
    BY <2>1, FullStored DEF QueueInv
<1> QED
  BY <1>1, QueueInductive, PTL DEF Spec, EvictsOnlyWhenFull

\* The queue implements MsgFifo: whole messages, unchanged, oldest first; adding
\* one appends it or leaves the queue alone; only the oldest are pushed out.
THEOREM QueueImplemented == Spec => RefinesMsgFifo
<1>1. Init => Abstract!Init
  <2> SUFFICES ASSUME Init PROVE Abstract!Init
    OBVIOUS
  <2>1. Stored(<<>>) /\ ControlOK
    <3>1. ControlOK /\ RingInv
      BY InitControl
    <3>2. Content = <<>>
      <4>1. Content \in Seq(Bytes) /\ Len(Content) = 0
        BY <3>1, ContentIs DEF Init, RInit
      <4> QED
        BY <4>1
    <3>3. <<>> \in Seq(Seq(Bytes))
      OBVIOUS
    <3>4. AtRest(<<>>)
      BY <3>2, <3>3, CleanOK, ReadsNothing DEF AtRest
    <3> QED
      BY <3>1, <3>4 DEF Stored, Init
  <2>2. Pending = <<>>
    BY <2>1, PendingIs
  <2> QED
    BY <2>2 DEF Init, Abstract!Init
<1>2. QueueInv /\ [Next]_vars => [Abstract!Next]_<<Pending, taken, message, IsAdding>>
  BY StepQueue
<1> QED
  BY <1>1, <1>2, QueueInductive, PTL DEF Spec, RefinesMsgFifo, Abstract!Spec, Abstract!fifo, IsAdding
=============================================================================
