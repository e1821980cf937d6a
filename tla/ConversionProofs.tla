-------------------------- MODULE ConversionProofs --------------------------
(***************************************************************************)
(* PacketsReadBack and BusShared, of every input the C code can be given.  *)
(*                                                                         *)
(* Packets.  A packet under construction (Builds) grows from the front of  *)
(* the buffer; what was appended stays where it was put (Holds).           *)
(* fini_message puts a header of two or three bytes in front, which is     *)
(* read back as the length (IsHeaded, HeadedReads).  A PUBLISH packet, or  *)
(* what has arrived of it, then has its topic, id and data at places that  *)
(* depend on the header alone (PublishAt), and a CONNECT packet its        *)
(* strings one behind the other (ConnectHolds).                            *)
(*                                                                         *)
(* The bus.  Bit by bit, a byte is what the devices hear of the lines      *)
(* (ByteWritten, ByteSent), so that every call on the bus is one equation  *)
(* between sessions (SendStart, WriteByte, ReadByte, SendStop).  From      *)
(* these, each driver leaves a free bus free (Calm), those of the SHT1x    *)
(* without an I2C device hearing a byte (Deaf), and a transfer can be      *)
(* followed from its first byte to its end (Stands).                       *)
(***************************************************************************)
EXTENDS Packets, BusSharing, SequenceTheorems, WellFoundedInduction, TLAPS

-----------------------------------------------------------------------------
(* The fixed header *)

\* Seven bits, and the bit above them.
LEMMA Remainders ==
  ASSUME NEW x \in 0 .. 127
  PROVE  x % 128 = x /\ (128 + x) % 128 = x
OBVIOUS

\* A length below 128 is one byte.
LEMMA ShortHeader ==
  ASSUME NEW b \in Seq(Nat), NEW low \in 0 .. 127, Len(b) >= 2, b[2] = low
  PROVE  HeaderLen(b) = 2 /\ mqtt_get_total_length(b) = 2 + low
<1>0. ByteAt(b, 1) = low /\ ByteAt(b, 1) % 128 = low
  <2>1. ByteAt(b, 1) = low
    BY DEF ByteAt
  <2>2. low % 128 = low
    BY Remainders
  <2> QED
    BY <2>1, <2>2
<1>1. HeaderLen(b) = 2
  <2> DEFINE ends == {i \in 1 .. Len(b) - 1 : ByteAt(b, i) < 128}
  <2>1. 1 \in ends /\ \A i \in ends : i \in Int /\ 1 <= i
    BY <1>0
  <2>2. Min(ends) = 1
    BY <2>1 DEF Min
  <2> QED
    BY <2>1, <2>2 DEF HeaderLen
<1> DEFINE Good(f) == f = [i \in 1 .. HeaderLen(b) |->
              IF i = HeaderLen(b) THEN 0 ELSE (ByteAt(b, i) % 128) + 128 * f[i + 1]]
           f == CHOOSE length : Good(length)
           g == [i \in 1 .. 2 |-> IF i = 2 THEN 0 ELSE low]
<1>2. Good(g)
  <2>1. g[2] = 0 /\ g[1] = low /\ DOMAIN g = 1 .. 2 /\ g = [i \in DOMAIN g |-> g[i]]
    OBVIOUS
  <2> HIDE DEF g
  <2>2. \A i \in 1 .. 2 : g[i] = IF i = 2 THEN 0 ELSE (ByteAt(b, i) % 128) + 128 * g[i + 1]
    BY <1>0, <2>1
  <2> QED
    BY <1>1, <2>1, <2>2
<1>3. Good(f)
  BY <1>2, Zenon
<1>4. mqtt_get_total_length(b) = HeaderLen(b) + f[1]
  BY DEF mqtt_get_total_length
<1> HIDE DEF f
<1>5. f[2] = 0 /\ f[1] = (ByteAt(b, 1) % 128) + 128 * f[2]
  BY <1>1, <1>3
<1> QED
  BY <1>0, <1>1, <1>4, <1>5

\* A length below 128 * 128 is two bytes.
LongStart(b, low, high) ==
  /\ b \in Seq(Nat) /\ Len(b) >= 3 /\ low \in 0 .. 127 /\ high \in 0 .. 127
  /\ b[2] = 128 + low /\ b[3] = high

\* The bytes of a length of two bytes, and what they count.
LEMMA LongBytes ==
  ASSUME NEW b, NEW low, NEW high, LongStart(b, low, high)
  PROVE  /\ ByteAt(b, 1) = 128 + low /\ ByteAt(b, 1) % 128 = low
         /\ ByteAt(b, 2) = high /\ ByteAt(b, 2) % 128 = high
         /\ low \in 0 .. 127 /\ high \in 0 .. 127 /\ Len(b) >= 3
<1>1. ByteAt(b, 1) = 128 + low /\ ByteAt(b, 2) = high
  BY DEF ByteAt, LongStart
<1>2. (128 + low) % 128 = low /\ high % 128 = high
  BY Remainders DEF LongStart
<1> QED
  BY <1>1, <1>2 DEF LongStart

\* Then the fixed header has three bytes (mqtt_get_total_length's loop).
LEMMA LongHeader ==
  ASSUME NEW b, NEW low, NEW high, LongStart(b, low, high)
  PROVE  HeaderLen(b) = 3
<1> DEFINE ends == {i \in 1 .. Len(b) - 1 : ByteAt(b, i) < 128}
<1>0. Len(b) >= 3 /\ ByteAt(b, 1) = 128 + low /\ ByteAt(b, 2) = high
      /\ low \in 0 .. 127 /\ high \in 0 .. 127
  BY LongBytes
<1>1. 2 \in ends /\ \A i \in ends : i \in Int /\ 2 <= i
  BY <1>0
<1>2. Min(ends) = 2
  BY <1>1 DEF Min
<1> QED
  BY <1>1, <1>2 DEF HeaderLen

\* And the length is read from both, the lower seven bits first.
LEMMA LongLength ==
  ASSUME NEW b, NEW low, NEW high, LongStart(b, low, high)
  PROVE  mqtt_get_total_length(b) = 3 + (low + 128 * high)
<1> DEFINE Good(f) == f = [i \in 1 .. HeaderLen(b) |->
              IF i = HeaderLen(b) THEN 0 ELSE (ByteAt(b, i) % 128) + 128 * f[i + 1]]
           f == CHOOSE length : Good(length)
           g == [i \in 1 .. 3 |-> IF i = 3 THEN 0 ELSE IF i = 2 THEN high ELSE low + 128 * high]
<1>0. /\ ByteAt(b, 1) = 128 + low /\ ByteAt(b, 1) % 128 = low
      /\ ByteAt(b, 2) = high /\ ByteAt(b, 2) % 128 = high
      /\ low \in 0 .. 127 /\ high \in 0 .. 127
  BY LongBytes
<1>1. HeaderLen(b) = 3
  BY LongHeader
<1>2. Good(g)
  <2>1. /\ g[3] = 0 /\ g[2] = high /\ g[1] = low + 128 * high
        /\ DOMAIN g = 1 .. 3 /\ g = [i \in DOMAIN g |-> g[i]]
    OBVIOUS
  <2> HIDE DEF g
  <2>2. ASSUME NEW i \in 1 .. 3
        PROVE  g[i] = IF i = 3 THEN 0 ELSE (ByteAt(b, i) % 128) + 128 * g[i + 1]
    <3>1. i = 1 \/ i = 2 \/ i = 3
      OBVIOUS
    <3>2. CASE i = 1
      BY <1>0, <2>1, <3>2
    <3>3. CASE i = 2
      BY <1>0, <2>1, <3>3
    <3>4. CASE i = 3
      BY <2>1, <3>4
    <3> QED
      BY <3>1, <3>2, <3>3, <3>4
  <2> QED
    BY <1>1, <2>1, <2>2
<1>3. Good(f)
  BY <1>2, Zenon
<1>4. mqtt_get_total_length(b) = HeaderLen(b) + f[1]
  BY DEF mqtt_get_total_length
<1> HIDE DEF f
<1>5. /\ f[3] = 0 /\ f[2] = (ByteAt(b, 2) % 128) + 128 * f[3]
      /\ f[1] = (ByteAt(b, 1) % 128) + 128 * f[2]
  BY <1>1, <1>3
<1>6. f[2] = high
  BY <1>0, <1>5
<1>7. f[1] = low + 128 * high
  BY <1>0, <1>5, <1>6
<1> QED
  BY <1>1, <1>4, <1>7

\* Of a length byte that has not arrived, or that another one should follow, nothing
\* is known.
LEMMA NoHeader ==
  ASSUME NEW b \in Seq(Nat), NEW low \in 0 .. 127, 
         Len(b) = 1 \/ (Len(b) = 2 /\ b[2] = 128 + low)
  PROVE  HeaderLen(b) = Len(b)
<1> DEFINE ends == {i \in 1 .. Len(b) - 1 : ByteAt(b, i) < 128}
<1>1. ends = {}
  <2>1. Len(b) = 2 => ByteAt(b, 1) = 128 + low
    BY DEF ByteAt
  <2>2. ASSUME NEW i \in 1 .. Len(b) - 1 PROVE Len(b) = 2 /\ i = 1
    <3>1. CASE Len(b) = 1
      BY <3>1
    <3>2. CASE Len(b) = 2
      BY <3>2
    <3> QED
      BY <3>1, <3>2
  <2>3. ~(128 + low < 128)
    OBVIOUS
  <2> QED
    BY <2>1, <2>2, <2>3
<1> QED
  BY <1>1 DEF HeaderLen

-----------------------------------------------------------------------------
(* Building *)

Building == [id : Nat, body : Seq(Nat), failed : BOOLEAN]

\* What has been built is whole, or has failed because whole does not fit.
Builds(k, id, whole) ==
  /\ k \in Building /\ whole \in Seq(Nat) /\ k.id = id
  /\ k.failed = TRUE => 3 + Len(whole) > BufferLength
  /\ k.failed = FALSE => 3 + Len(whole) <= BufferLength /\ k.body = whole

\* The packet with its fixed header.
Headed(first, body) ==
  (IF Len(body) > 127 THEN <<first, 128 + (Len(body) % 128), Len(body) \div 128>>
   ELSE <<first, Len(body)>>) \o body

\* What the proofs use of the buffer's size.
LEMMA BufferBounds == BufferLength \in Nat /\ 5 <= BufferLength /\ BufferLength <= 130 + 128 * 127
BY BufferAssumption DEF MQTT_MAX_FIXED_HEADER_SIZE

\* An empty message, of which nothing is missing (init_message).
LEMMA InitBuilds ==
  ASSUME NEW id \in Nat
  PROVE  Builds(init_message(id), id, <<>>)
<1>1. <<>> \in Seq(Nat) /\ Len(<<>>) = 0
  OBVIOUS
<1>2. /\ init_message(id) \in Building /\ init_message(id).id = id
      /\ init_message(id).failed = FALSE /\ init_message(id).body = <<>>
  BY DEF init_message, Building
<1> HIDE DEF init_message
<1>3. 3 + Len(<<>>) <= BufferLength
  BY <1>1, BufferBounds
<1> QED
  BY <1>1, <1>2, <1>3 DEF Builds

\* Appending to it, or failing, keeps what was built before.
LEMMA AddedBuilds ==
  ASSUME NEW k, NEW id, NEW whole, Builds(k, id, whole), NEW s \in Seq(Nat)
  PROVE  Builds(Added(k, s), id, whole \o s)
<1>1. whole \in Seq(Nat) /\ k \in Building /\ k.id = id
  BY DEF Builds
<1>2. k.body \in Seq(Nat) /\ k.failed \in BOOLEAN
  BY <1>1 DEF Building
<1>3. whole \o s \in Seq(Nat) /\ Len(whole \o s) = Len(whole) + Len(s)
  BY <1>1, ConcatProperties
<1>4. k.body \o s \in Seq(Nat)
  BY <1>2, ConcatProperties
<1>5. Len(whole) \in Nat /\ Len(s) \in Nat /\ Len(k.body) \in Nat /\ BufferLength \in Nat
  BY <1>1, <1>2, BufferBounds, LenProperties
<1>6. CASE k.failed = TRUE
  <2>1. Added(k, s) \in Building /\ Added(k, s).id = id /\ Added(k, s).failed = TRUE
    BY <1>1, <1>4, <1>6 DEF Added, Building
  <2>2. 3 + Len(whole) > BufferLength
    BY <1>6 DEF Builds
  <2>3. 3 + Len(whole \o s) > BufferLength
    BY <1>3, <1>5, <2>2
  <2> QED
    BY <1>3, <2>1, <2>3 DEF Builds
<1>7. CASE k.failed = FALSE
  <2>1. k.body = whole
    BY <1>7 DEF Builds
  <2>2. CASE 3 + Len(whole \o s) > BufferLength
    <3>1. Added(k, s) = [k EXCEPT !.failed = TRUE]
      BY <1>3, <1>5, <2>1, <2>2 DEF Added, MQTT_MAX_FIXED_HEADER_SIZE
    <3>2. Added(k, s) \in Building /\ Added(k, s).id = id /\ Added(k, s).failed = TRUE
      BY <1>1, <3>1 DEF Building
    <3> QED
      BY <1>3, <2>2, <3>2 DEF Builds
  <2>3. CASE 3 + Len(whole \o s) <= BufferLength
    <3>1. Added(k, s) = [k EXCEPT !.body = k.body \o s]
      BY <1>3, <1>5, <2>1, <2>3 DEF Added, MQTT_MAX_FIXED_HEADER_SIZE
    <3>2. /\ Added(k, s) \in Building /\ Added(k, s).id = id
          /\ Added(k, s).failed = FALSE /\ Added(k, s).body = whole \o s
      BY <1>1, <1>4, <1>7, <2>1, <3>1 DEF Building
    <3> QED
      BY <1>3, <2>3, <3>2 DEF Builds
  <2> QED
    BY <1>3, <1>5, <2>2, <2>3
<1> QED
  BY <1>2, <1>6, <1>7

\* A number in two bytes, the higher first, and how it is put together again.
LEMMA TwoBytesType ==
  ASSUME NEW n \in Nat
  PROVE  /\ TwoBytes(n) \in Seq(Nat) /\ Len(TwoBytes(n)) = 2
         /\ TwoBytes(n)[1] = n \div 256 /\ TwoBytes(n)[2] = n % 256
         /\ (n \div 256) * 256 + (n % 256) = n /\ n \div 256 \in Nat /\ n % 256 \in Nat
BY DEF TwoBytes

\* Its type, for the proofs that need no more.
LEMMA TwoBytesLen ==
  ASSUME NEW n \in Nat
  PROVE  TwoBytes(n) \in Seq(Nat) /\ Len(TwoBytes(n)) = 2
BY TwoBytesType

\* append_string adds the length and the text, or fails.
LEMMA StringBuilds ==
  ASSUME NEW k, NEW id, NEW whole, Builds(k, id, whole), NEW s \in Seq(Nat)
  PROVE  Builds(append_string(k, s), id, whole \o (TwoBytes(Len(s)) \o s))
<1>1. TwoBytes(Len(s)) \o s \in Seq(Nat)
  BY TwoBytesLen, ConcatProperties, LenProperties
<1> QED
  BY <1>1, AddedBuilds DEF append_string

\* The largest number in two bytes.
LEMMA LastIdType == LastId \in Nat /\ LastId > 0 /\ LastId % LastId = 0
BY SMTT(30) DEF LastId

\* A remainder that changes nothing; LastId is too large a numeral to be expanded.
LEMMA IdsRemain ==
  ASSUME NEW x \in Int, 0 <= x, x < LastId
  PROVE  x % LastId = x
BY SMTT(30) DEF LastId

\* The next id is never 0, and follows from the last one by a remainder.
LEMMA NextIdType ==
  ASSUME NEW id \in 0 .. LastId
  PROVE  NextId(id) \in Nat /\ NextId(id) = 1 + (id % LastId) /\ NextId(id) # 0
<1>1. LastId \in Nat /\ LastId > 0
  BY LastIdType
<1>2. CASE id = LastId
  <2>1. LastId % LastId = 0
    BY LastIdType
  <2> QED
    BY <1>2, <2>1 DEF NextId
<1>3. CASE id # LastId
  <2>1. id \in Int /\ 0 <= id /\ id < LastId
    BY <1>1, <1>3
  <2>2. id % LastId = id
    BY <2>1, IdsRemain
  <2> QED
    BY <1>1, <1>3, <2>1, <2>2 DEF NextId
<1> QED
  BY <1>2, <1>3

\* append_message_id without an id takes the next one.
LEMMA IdBuilds ==
  ASSUME NEW k, NEW id \in 0 .. LastId, NEW whole, Builds(k, id, whole)
  PROVE  Builds(append_message_id(k, 0), NextId(id), whole \o TwoBytes(NextId(id)))
<1>1. NextId(id) \in Nat
  BY NextIdType
<1> DEFINE next == [k EXCEPT !.id = NextId(k.id)]
<1>2. k \in Building /\ k.id = id
  BY DEF Builds
<1>3. next \in Building /\ next.id = NextId(id) /\ next.failed = k.failed /\ next.body = k.body
  <2>1. next = [k EXCEPT !.id = NextId(id)]
    BY <1>2
  <2> HIDE DEF next
  <2> QED
    BY <1>1, <1>2, <2>1 DEF Building
<1>4. append_message_id(k, 0) = Added(next, TwoBytes(NextId(id)))
  BY <1>2 DEF append_message_id
<1> HIDE DEF next
<1>5. Builds(next, NextId(id), whole)
  BY <1>3 DEF Builds
<1>6. TwoBytes(NextId(id)) \in Seq(Nat)
  BY <1>1, TwoBytesLen
<1> QED
  BY <1>4, <1>5, <1>6, AddedBuilds

First(type, qos, retain) == 16 * type + 2 * qos + retain

\* The packet, or nothing if it does not fit.
Fini(first, whole) == IF 3 + Len(whole) > BufferLength THEN <<>> ELSE Headed(first, whole)

\* fini_message puts the header in front of what was built, or gives nothing.
LEMMA FiniBuilds ==
  ASSUME NEW k, NEW id, NEW whole, Builds(k, id, whole), NEW type, NEW qos, NEW retain
  PROVE  fini_message(k, type, qos, retain) = Fini(First(type, qos, retain), whole)
<1>1. k.failed \in BOOLEAN /\ Len(whole) \in Nat /\ BufferLength \in Nat
  BY BufferBounds, LenProperties DEF Builds, Building
<1>2. CASE k.failed = TRUE
  BY <1>2 DEF fini_message, Builds, Fini
<1>3. CASE k.failed = FALSE
  <2>1. k.body = whole /\ ~(3 + Len(whole) > BufferLength)
    BY <1>1, <1>3 DEF Builds
  <2>2. fini_message(k, type, qos, retain) = Headed(First(type, qos, retain), whole)
    BY <1>3, <2>1, Zenon DEF fini_message, Headed, First
  <2> QED
    BY <2>1, <2>2 DEF Fini
<1> QED
  BY <1>1, <1>2, <1>3

-----------------------------------------------------------------------------
(* Where the parts of a packet are *)

\* The bytes of s are in b behind position pos.
Holds(b, pos, s) ==
  /\ b \in Seq(Nat) /\ s \in Seq(Nat) /\ pos \in Nat /\ pos + Len(s) <= Len(b)
  /\ \A j \in 1 .. Len(s) : b[pos + j] = s[j]

\* What was appended last is at the end.
LEMMA HoldsLast ==
  ASSUME NEW u \in Seq(Nat), NEW s \in Seq(Nat)
  PROVE  Holds(u \o s, Len(u), s)
<1> DEFINE w == u \o s
<1>1. /\ w \in Seq(Nat) /\ Len(w) = Len(u) + Len(s)
      /\ \A i \in 1 .. Len(u) + Len(s) : w[i] = IF i <= Len(u) THEN u[i] ELSE s[i - Len(u)]
  BY ConcatProperties
<1>2. Len(u) \in Nat /\ Len(s) \in Nat
  BY LenProperties
<1> HIDE DEF w
<1>3. ASSUME NEW j \in 1 .. Len(s) PROVE w[Len(u) + j] = s[j]
  <2>1. Len(u) + j \in 1 .. Len(u) + Len(s) /\ ~(Len(u) + j <= Len(u)) /\ (Len(u) + j) - Len(u) = j
    BY <1>2
  <2> QED
    BY <1>1, <2>1
<1>4. Holds(w, Len(u), s)
  BY <1>1, <1>2, <1>3 DEF Holds
<1> QED
  BY <1>4 DEF w

\* What is in a text stays there when something is appended.
LEMMA HoldsStill ==
  ASSUME NEW u, NEW pos, NEW t, Holds(u, pos, t), NEW s \in Seq(Nat)
  PROVE  Holds(u \o s, pos, t)
<1> DEFINE w == u \o s
<1>0. u \in Seq(Nat) /\ t \in Seq(Nat) /\ pos \in Nat /\ pos + Len(t) <= Len(u)
  BY DEF Holds
<1>1. /\ w \in Seq(Nat) /\ Len(w) = Len(u) + Len(s)
      /\ \A i \in 1 .. Len(u) + Len(s) : w[i] = IF i <= Len(u) THEN u[i] ELSE s[i - Len(u)]
  BY <1>0, ConcatProperties
<1>2. Len(u) \in Nat /\ Len(s) \in Nat /\ Len(t) \in Nat
  BY <1>0, LenProperties
<1> HIDE DEF w
<1>3. ASSUME NEW j \in 1 .. Len(t) PROVE w[pos + j] = t[j]
  <2>1. pos + j \in 1 .. Len(u) + Len(s) /\ pos + j <= Len(u)
    BY <1>0, <1>2
  <2>2. u[pos + j] = t[j]
    BY DEF Holds
  <2> QED
    BY <1>1, <2>1, <2>2
<1>4. pos + Len(t) <= Len(w)
  BY <1>0, <1>1, <1>2
<1>5. Holds(w, pos, t)
  BY <1>0, <1>1, <1>3, <1>4 DEF Holds
<1> QED
  BY <1>5 DEF w

\* What is in a part is in the whole.
LEMMA HoldsPart ==
  ASSUME NEW b, NEW pos, NEW u, Holds(b, pos, u), NEW q, NEW s, Holds(u, q, s)
  PROVE  Holds(b, pos + q, s)
<1>1. /\ b \in Seq(Nat) /\ u \in Seq(Nat) /\ s \in Seq(Nat) /\ pos \in Nat /\ q \in Nat
      /\ pos + Len(u) <= Len(b) /\ q + Len(s) <= Len(u)
  BY DEF Holds
<1>2. Len(b) \in Nat /\ Len(u) \in Nat /\ Len(s) \in Nat
  BY <1>1, LenProperties
<1>3. ASSUME NEW j \in 1 .. Len(s) PROVE b[pos + q + j] = s[j]
  <2>1. q + j \in 1 .. Len(u) /\ pos + (q + j) = pos + q + j
    BY <1>1, <1>2
  <2>2. b[pos + (q + j)] = u[q + j] /\ u[q + j] = s[j]
    BY <2>1 DEF Holds
  <2> QED
    BY <2>1, <2>2
<1>4. pos + q \in Nat /\ pos + q + Len(s) <= Len(b)
  BY <1>1, <1>2
<1> QED
  BY <1>1, <1>3, <1>4 DEF Holds

\* If two texts are there one behind the other, each is there.
LEMMA HoldsBoth ==
  ASSUME NEW b, NEW pos, NEW u \in Seq(Nat), NEW v \in Seq(Nat), Holds(b, pos, u \o v)
  PROVE  Holds(b, pos, u) /\ Holds(b, pos + Len(u), v)
<1>1. Holds(u \o v, Len(u), v)
  BY HoldsLast
<1>2. Holds(u, 0, u)
  <2>1. Len(u) \in Nat /\ \A j \in 1 .. Len(u) : 0 + j = j
    BY LenProperties
  <2> QED
    BY <2>1 DEF Holds
<1>3. Holds(u \o v, 0, u)
  BY <1>2, HoldsStill
<1>4. Holds(b, pos + Len(u), v)
  BY <1>1, HoldsPart
<1>5. Holds(b, pos + 0, u)
  BY <1>3, HoldsPart
<1>6. pos + 0 = pos
  BY DEF Holds
<1> QED
  BY <1>4, <1>5, <1>6

\* What is in the bytes that have arrived.
LEMMA HoldsArrived ==
  ASSUME NEW b, NEW pos, NEW s, Holds(b, pos, s), NEW n \in 0 .. Len(b), pos + Len(s) <= n
  PROVE  Holds(SubSeq(b, 1, n), pos, s)
<1> DEFINE a == SubSeq(b, 1, n)
<1>1. b \in Seq(Nat) /\ s \in Seq(Nat) /\ pos \in Nat
  BY DEF Holds
<1>2. Len(b) \in Nat /\ Len(s) \in Nat /\ n \in Int
  BY <1>1, LenProperties
<1>3. \A i \in 1 .. n : b[i] \in Nat
  BY <1>1, <1>2, ElementOfSeq
<1>4. a \in Seq(Nat) /\ Len(a) = n /\ \A i \in 1 .. n : a[i] = b[i]
  <2>1. /\ a \in Seq(Nat) /\ Len(a) = (IF 1 <= n THEN n - 1 + 1 ELSE 0)
        /\ \A i \in 1 .. n - 1 + 1 : a[i] = b[1 + i - 1]
    BY <1>2, <1>3, SubSeqProperties
  <2> HIDE DEF a
  <2>2. n - 1 + 1 = n /\ \A i \in 1 .. n : 1 + i - 1 = i
    BY <1>2
  <2> QED
    BY <1>2, <2>1, <2>2
<1> HIDE DEF a
<1>5. ASSUME NEW j \in 1 .. Len(s) PROVE a[pos + j] = s[j]
  <2>1. pos + j \in 1 .. n
    BY <1>1, <1>2
  <2> QED
    BY <1>4, <2>1 DEF Holds
<1>6. Holds(a, pos, s)
  BY <1>1, <1>4, <1>5 DEF Holds
<1> QED
  BY <1>6 DEF a

\* What is there is what is copied from there.
LEMMA HoldsSubSeq ==
  ASSUME NEW b, NEW pos, NEW s, Holds(b, pos, s)
  PROVE  SubSeq(b, pos + 1, pos + Len(s)) = s
<1> DEFINE a == SubSeq(b, pos + 1, pos + Len(s))
<1>1. b \in Seq(Nat) /\ s \in Seq(Nat) /\ pos \in Nat /\ pos + Len(s) <= Len(b)
  BY DEF Holds
<1>2. Len(b) \in Nat /\ Len(s) \in Nat
  BY <1>1, LenProperties
<1>3. \A i \in pos + 1 .. pos + Len(s) : b[i] \in Nat
  BY <1>1, <1>2, ElementOfSeq
<1>4. /\ a \in Seq(Nat)
      /\ Len(a) = (IF pos + 1 <= pos + Len(s) THEN (pos + Len(s)) - (pos + 1) + 1 ELSE 0)
      /\ \A i \in 1 .. (pos + Len(s)) - (pos + 1) + 1 : a[i] = b[(pos + 1) + i - 1]
  BY <1>1, <1>2, <1>3, SubSeqProperties
<1> HIDE DEF a
<1>5. Len(a) = Len(s)
  BY <1>1, <1>2, <1>4
<1>6. ASSUME NEW i \in 1 .. Len(s) PROVE a[i] = s[i]
  <2>1. i \in 1 .. (pos + Len(s)) - (pos + 1) + 1 /\ (pos + 1) + i - 1 = pos + i
    BY <1>1, <1>2
  <2>2. a[i] = b[pos + i]
    BY <1>4, <2>1
  <2> QED
    BY <2>2 DEF Holds
<1>7. a = s
  BY <1>1, <1>4, <1>5, <1>6, SeqEqual
<1> QED
  BY <1>7 DEF a

\* A number in two bytes is read as that number.
LEMMA HoldsId ==
  ASSUME NEW b, NEW pos, NEW n \in Nat, Holds(b, pos, TwoBytes(n))
  PROVE  IdAt(b, pos) = n
<1>1. Len(TwoBytes(n)) = 2 /\ TwoBytes(n)[1] = n \div 256 /\ TwoBytes(n)[2] = n % 256
      /\ (n \div 256) * 256 + (n % 256) = n
  BY TwoBytesType
<1>2. pos \in Nat /\ \A j \in 1 .. Len(TwoBytes(n)) : b[pos + j] = TwoBytes(n)[j]
  BY DEF Holds
<1>3. b[pos + 1] = n \div 256 /\ b[pos + 2] = n % 256
  <2>1. 1 \in 1 .. 2 /\ 2 \in 1 .. 2
    OBVIOUS
  <2> QED
    BY <1>1, <1>2, <2>1
<1>4. (pos + 1) + 1 = pos + 2
  BY <1>2
<1>5. IdAt(b, pos) = b[pos + 1] * 256 + b[pos + 2]
  BY <1>4 DEF IdAt, ByteAt
<1> QED
  BY <1>1, <1>3, <1>5

-----------------------------------------------------------------------------
(* Reading the header of what has arrived *)

HeaderOf(body) == IF Len(body) > 127 THEN 3 ELSE 2

\* A packet with its header; h is the length of the header and m that of the body.
IsHeaded(p, first, body, h, m) ==
  /\ p \in Seq(Nat) /\ Len(p) = h + m /\ h \in {2, 3} /\ p[1] = first /\ Holds(p, h, body)
  /\ h = 2 => p[2] = m /\ m \in 0 .. 127
  /\ h = 3 => \E low, high \in 0 .. 127 :
                p[2] = 128 + low /\ p[3] = high /\ m = low + 128 * high

\* What the first n bytes of it say.
ReadsHeader(b, n, first, h, m) ==
  /\ b \in Seq(Nat) /\ Len(b) = n /\ b[1] = first
  /\ n < h => HeaderLen(b) = n
  /\ n >= h => HeaderLen(b) = h /\ mqtt_get_total_length(b) = h + m

\* Header and body in bytes, of a header of two and of three bytes.
LEMMA HeadedIs ==
  ASSUME NEW first \in Nat, NEW body \in Seq(Nat), Len(body) <= 127 + 128 * 127
  PROVE  IsHeaded(Headed(first, body), first, body, HeaderOf(body), Len(body))
<1> DEFINE n == Len(body)
           low == n % 128
           high == n \div 128
<1>1. n \in Nat /\ n <= 127 + 128 * 127
  BY LenProperties
<1>0. /\ Headed(first, body) = (IF n > 127 THEN <<first, 128 + low, high>> ELSE <<first, n>>) \o body
      /\ HeaderOf(body) = IF n > 127 THEN 3 ELSE 2
  BY Zenon DEF Headed, HeaderOf
<1> HIDE DEF n
<1>2. low \in 0 .. 127 /\ high \in 0 .. 127 /\ n = low + 128 * high
  BY <1>1
<1> HIDE DEF low, high
<1>3. CASE n > 127
  <2> DEFINE u == <<first, 128 + low, high>>
  <2>1. u \in Seq(Nat) /\ Len(u) = 3 /\ u[1] = first /\ u[2] = 128 + low /\ u[3] = high
    BY <1>2
  <2>2. Headed(first, body) = u \o body /\ HeaderOf(body) = 3
    BY <1>0, <1>3, Zenon
  <2> HIDE DEF u
  <2>4. /\ u \o body \in Seq(Nat) /\ Len(u \o body) = 3 + n
        /\ (u \o body)[1] = first /\ (u \o body)[2] = 128 + low /\ (u \o body)[3] = high
    <3>1. /\ u \o body \in Seq(Nat) /\ Len(u \o body) = Len(u) + Len(body)
          /\ \A i \in 1 .. Len(u) + Len(body) :
               (u \o body)[i] = IF i <= Len(u) THEN u[i] ELSE body[i - Len(u)]
      BY <2>1, ConcatProperties, ZenonT(40)
    <3> QED
      BY <1>1, <2>1, <3>1 DEF n
  <2>5. Holds(u \o body, 3, body)
    BY <2>1, HoldsLast
  <2>6. \E l, k \in 0 .. 127 : (u \o body)[2] = 128 + l /\ (u \o body)[3] = k /\ n = l + 128 * k
    BY <1>2, <2>4, ZenonT(40)
  <2>7. 3 # 2 /\ 3 \in {2, 3}
    OBVIOUS
  <2>8. IsHeaded(u \o body, first, body, 3, n)
    BY <2>4, <2>5, <2>6, <2>7, Zenon DEF IsHeaded
  <2> QED
    BY <2>2, <2>8 DEF n
<1>4. CASE n <= 127
  <2> DEFINE u == <<first, n>>
  <2>1. u \in Seq(Nat) /\ Len(u) = 2 /\ u[1] = first /\ u[2] = n
    BY <1>1
  <2>0. ~(n > 127) /\ n \in 0 .. 127
    BY <1>1, <1>4
  <2>2. Headed(first, body) = u \o body /\ HeaderOf(body) = 2
    BY <1>0, <2>0, Zenon
  <2> HIDE DEF u
  <2>4. u \o body \in Seq(Nat) /\ Len(u \o body) = 2 + n
        /\ (u \o body)[1] = first /\ (u \o body)[2] = n
    <3>1. /\ u \o body \in Seq(Nat) /\ Len(u \o body) = Len(u) + Len(body)
          /\ \A i \in 1 .. Len(u) + Len(body) :
               (u \o body)[i] = IF i <= Len(u) THEN u[i] ELSE body[i - Len(u)]
      BY <2>1, ConcatProperties, ZenonT(40)
    <3> QED
      BY <1>1, <2>1, <3>1 DEF n
  <2>5. Holds(u \o body, 2, body)
    BY <2>1, HoldsLast
  <2>6. IsHeaded(u \o body, first, body, 2, n)
    BY <2>0, <2>4, <2>5 DEF IsHeaded
  <2> QED
    BY <2>2, <2>6 DEF n
<1> QED
  BY <1>1, <1>3, <1>4

\* The header is known as soon as it has arrived, and so is the length of the packet.
LEMMA HeadedReads ==
  ASSUME NEW p, NEW first, NEW body, NEW h, NEW m \in Nat, IsHeaded(p, first, body, h, m),
         NEW n \in 1 .. Len(p)
  PROVE  ReadsHeader(SubSeq(p, 1, n), n, first, h, m)
<1> DEFINE b == SubSeq(p, 1, n)
<1>1. /\ p \in Seq(Nat) /\ Len(p) = h + m /\ h \in {2, 3} /\ p[1] = first
      /\ h = 2 => p[2] = m /\ m \in 0 .. 127
  BY DEF IsHeaded
<1>2. n \in 1 .. h + m
  BY <1>1
<1>3. b \in Seq(Nat) /\ Len(b) = n /\ \A i \in 1 .. n : b[i] = p[i]
  <2>1. \A i \in 1 .. n : p[i] \in Nat
    BY <1>1, <1>2, ElementOfSeq
  <2>2. /\ b \in Seq(Nat) /\ Len(b) = (IF 1 <= n THEN n - 1 + 1 ELSE 0)
        /\ \A i \in 1 .. n - 1 + 1 : b[i] = p[1 + i - 1]
    BY <1>1, <1>2, <2>1, SubSeqProperties
  <2> HIDE DEF b
  <2>3. n - 1 + 1 = n /\ 1 <= n /\ \A i \in 1 .. n : 1 + i - 1 = i
    BY <1>1, <1>2
  <2> QED
    BY <2>2, <2>3
<1> HIDE DEF b
<1>4. b[1] = first
  BY <1>1, <1>2, <1>3
<1>5. CASE h = 2
  <2>1. CASE n < h
    <3>1. n = 1
      BY <1>2, <1>5, <2>1
    <3>2. m \in 0 .. 127
      BY <1>1, <1>5
    <3>3. HeaderLen(b) = Len(b)
      BY <1>3, <3>1, <3>2, NoHeader
    <3> QED
      BY <1>3, <1>4, <1>5, <3>1, <3>3 DEF ReadsHeader, b
  <2>2. CASE n >= h
    <3>1. Len(b) >= 2 /\ b[2] = m /\ m \in 0 .. 127
      BY <1>1, <1>2, <1>3, <1>5, <2>2
    <3>2. HeaderLen(b) = 2 /\ mqtt_get_total_length(b) = 2 + m
      BY <1>3, <3>1, ShortHeader
    <3> QED
      BY <1>2, <1>3, <1>4, <1>5, <2>2, <3>2 DEF ReadsHeader, b
  <2> QED
    BY <1>2, <1>5, <2>1, <2>2
<1>6. CASE h = 3
  <2>0. PICK low \in 0 .. 127, high \in 0 .. 127 :
          p[2] = 128 + low /\ p[3] = high /\ m = low + 128 * high
    BY <1>6 DEF IsHeaded
  <2>1. CASE n < h
    <3>1. n = 1 \/ n = 2
      BY <1>2, <1>6, <2>1
    <3>2. n = 2 => b[2] = 128 + low
      BY <1>3, <2>0
    <3>3. HeaderLen(b) = Len(b)
      BY <1>3, <3>1, <3>2, NoHeader
    <3> QED
      BY <1>3, <1>4, <1>6, <3>1, <3>3 DEF ReadsHeader, b
  <2>2. CASE n >= h
    <3>1. LongStart(b, low, high)
      BY <1>2, <1>3, <1>6, <2>0, <2>2 DEF LongStart
    <3>0. b \in Seq(Nat)
      BY <1>3
    <3>2. HeaderLen(b) = 3
      BY <3>1, LongHeader
    <3>3. mqtt_get_total_length(b) = 3 + (low + 128 * high)
      BY <3>1, LongLength
    <3>4. mqtt_get_total_length(b) = 3 + m
      BY <2>0, <3>3
    <3> QED
      BY <1>2, <1>3, <1>4, <1>6, <2>2, <3>2, <3>4 DEF ReadsHeader, b
  <2> QED
    BY <1>2, <1>6, <2>1, <2>2
<1> QED
  BY <1>1, <1>5, <1>6

\* The beginning of what is there is there too.
LEMMA HoldsPrefix ==
  ASSUME NEW b, NEW pos, NEW s, Holds(b, pos, s), NEW k \in 0 .. Len(s)
  PROVE  Holds(b, pos, SubSeq(s, 1, k)) /\ Len(SubSeq(s, 1, k)) = k
<1> DEFINE a == SubSeq(s, 1, k)
<1>1. b \in Seq(Nat) /\ s \in Seq(Nat) /\ pos \in Nat /\ pos + Len(s) <= Len(b)
  BY DEF Holds
<1>2. Len(b) \in Nat /\ Len(s) \in Nat /\ k \in Int /\ 0 <= k /\ k <= Len(s)
  BY <1>1, LenProperties
<1>3. \A i \in 1 .. k : s[i] \in Nat
  BY <1>1, <1>2, ElementOfSeq, SMTT(30)
<1>4. a \in Seq(Nat) /\ Len(a) = k /\ \A i \in 1 .. k : a[i] = s[i]
  <2>1. /\ a \in Seq(Nat) /\ Len(a) = (IF 1 <= k THEN k - 1 + 1 ELSE 0)
        /\ \A i \in 1 .. k - 1 + 1 : a[i] = s[1 + i - 1]
    BY <1>2, <1>3, SubSeqProperties
  <2> HIDE DEF a
  <2>2. k - 1 + 1 = k /\ \A i \in 1 .. k : 1 + i - 1 = i
    BY <1>2
  <2> QED
    BY <1>2, <2>1, <2>2
<1> HIDE DEF a
<1>5. ASSUME NEW j \in 1 .. k PROVE b[pos + j] = a[j]
  <2>1. j \in 1 .. Len(s)
    BY <1>2
  <2> QED
    BY <1>4, <2>1 DEF Holds
<1>6. pos + k <= Len(b)
  BY <1>1, <1>2
<1>7. Holds(b, pos, a) /\ Len(a) = k
  BY <1>1, <1>4, <1>5, <1>6 DEF Holds
<1> QED
  BY <1>7 DEF a

-----------------------------------------------------------------------------
(* PUBLISH *)

StringOf(s) == TwoBytes(Len(s)) \o s

\* A string is its length in two bytes and its bytes.
LEMMA StringOfType ==
  ASSUME NEW s \in Seq(Nat)
  PROVE  StringOf(s) \in Seq(Nat) /\ Len(StringOf(s)) = 2 + Len(s)
<1> DEFINE t == TwoBytes(Len(s))
<1>1. t \in Seq(Nat) /\ Len(t) = 2
  BY TwoBytesLen, LenProperties
<1> HIDE DEF t
<1>2. t \o s \in Seq(Nat) /\ Len(t \o s) = Len(t) + Len(s)
  BY <1>1, ConcatProperties
<1> QED
  BY <1>1, <1>2 DEF StringOf, t

\* Where a string is, its length and its bytes are.
LEMMA StringHeld ==
  ASSUME NEW b, NEW pos \in Nat, NEW s \in Seq(Nat), Holds(b, pos, StringOf(s))
  PROVE  Holds(b, pos, TwoBytes(Len(s))) /\ Holds(b, pos + 2, s) /\ IdAt(b, pos) = Len(s)
<1>1. TwoBytes(Len(s)) \in Seq(Nat) /\ Len(TwoBytes(Len(s))) = 2 /\ Len(s) \in Nat
  BY TwoBytesLen, LenProperties
<1>2. Holds(b, pos, TwoBytes(Len(s)) \o s)
  BY DEF StringOf
<1>3. Holds(b, pos, TwoBytes(Len(s))) /\ Holds(b, pos + Len(TwoBytes(Len(s))), s)
  BY <1>1, <1>2, HoldsBoth
<1>4. IdAt(b, pos) = Len(s)
  BY <1>1, <1>3, HoldsId
<1> QED
  BY <1>1, <1>3, <1>4

NamedBody(id, topic, qos) ==
  IF qos > 0 THEN (<<>> \o StringOf(topic)) \o TwoBytes(NextId(id)) ELSE <<>> \o StringOf(topic)

PublishBody(id, topic, data, qos) == NamedBody(id, topic, qos) \o data

IdSize(qos) == IF qos > 0 THEN 2 ELSE 0

\* The body of a PUBLISH packet before its data: the topic, and the id if there is one.
LEMMA NamedBodyHolds ==
  ASSUME NEW id \in 0 .. LastId, NEW topic \in Seq(Nat), NEW qos \in 0 .. 2
  PROVE  LET body == NamedBody(id, topic, qos)
         IN /\ body \in Seq(Nat) /\ Len(body) = 2 + Len(topic) + IdSize(qos)
            /\ Holds(body, 0, StringOf(topic))
            /\ qos > 0 => Holds(body, 2 + Len(topic), TwoBytes(NextId(id)))
<1> DEFINE body == NamedBody(id, topic, qos)
           s == <<>> \o StringOf(topic)
           t == TwoBytes(NextId(id))
<1>1. StringOf(topic) \in Seq(Nat) /\ Len(StringOf(topic)) = 2 + Len(topic) /\ Len(topic) \in Nat
  BY StringOfType, LenProperties
<1>2. t \in Seq(Nat) /\ Len(t) = 2
  BY NextIdType, TwoBytesLen
<1>3. s \in Seq(Nat) /\ Len(s) = 2 + Len(topic) /\ Holds(s, 0, StringOf(topic))
  <2>1. <<>> \in Seq(Nat) /\ Len(<<>>) = 0
    OBVIOUS
  <2>2. Holds(s, Len(<<>>), StringOf(topic))
    BY <1>1, <2>1, HoldsLast
  <2>3. s \in Seq(Nat) /\ Len(s) = 0 + (2 + Len(topic))
    BY <1>1, <2>1, ConcatProperties
  <2> HIDE DEF s
  <2> QED
    BY <1>1, <2>1, <2>2, <2>3
<1>4. body = IF qos > 0 THEN s \o t ELSE s
  BY DEF NamedBody
<1> HIDE DEF body, s, t
<1>5. CASE qos > 0
  <2>1. body = s \o t
    BY <1>4, <1>5
  <2>2. s \o t \in Seq(Nat) /\ Len(s \o t) = Len(s) + Len(t)
    BY <1>2, <1>3, ConcatProperties
  <2>3. Holds(s \o t, 0, StringOf(topic)) /\ Holds(s \o t, Len(s), t)
    BY <1>2, <1>3, HoldsStill, HoldsLast
  <2>4. /\ body \in Seq(Nat) /\ Len(body) = 2 + Len(topic) + IdSize(qos)
        /\ Holds(body, 0, StringOf(topic)) /\ Holds(body, 2 + Len(topic), t)
    BY <1>1, <1>2, <1>3, <1>5, <2>1, <2>2, <2>3 DEF IdSize
  <2> QED
    BY <2>4 DEF body, t
<1>6. CASE ~(qos > 0)
  <2>1. body = s
    BY <1>4, <1>6
  <2>4. /\ body \in Seq(Nat) /\ Len(body) = 2 + Len(topic) + IdSize(qos)
        /\ Holds(body, 0, StringOf(topic))
    BY <1>1, <1>3, <1>6, <2>1 DEF IdSize
  <2> QED
    BY <1>6, <2>4 DEF body, t
<1> QED
  BY <1>5, <1>6

\* Where the parts of a PUBLISH packet are: i is the position of the data.
PublishAt(p, first, topic, data, qos, next, h, i) ==
  /\ topic \in Seq(Nat) /\ data \in Seq(Nat) /\ topic # <<>> /\ next \in Nat /\ qos \in 0 .. 2
  /\ h \in {2, 3} /\ i = h + 2 + Len(topic) + IdSize(qos)
  /\ \E body : IsHeaded(p, first, body, h, (i - h) + Len(data))
  /\ Holds(p, h, StringOf(topic))
  /\ qos > 0 => Holds(p, h + 2 + Len(topic), TwoBytes(next))
  /\ Holds(p, i, data)

\* The body of a PUBLISH packet, and that the packet is that body with its header.
LEMMA PublishBuilt ==
  ASSUME NEW id \in 0 .. LastId, NEW topic \in Seq(Nat), NEW data \in Seq(Nat),
         NEW qos \in 0 .. 2, NEW retain \in 0 .. 1, topic # <<>>
  PROVE  LET p     == mqtt_msg_publish(id, topic, data, qos, retain)
             first == First(PUBLISH, qos, retain)
             body  == PublishBody(id, topic, data, qos)
         IN /\ body \in Seq(Nat) /\ Len(body) = 2 + Len(topic) + IdSize(qos) + Len(data)
            /\ p = Fini(first, body)
<1> DEFINE whole == NamedBody(id, topic, qos)
           body == PublishBody(id, topic, data, qos)
           named == append_string(init_message(id), topic)
           numbered == IF qos > 0 THEN append_message_id(named, 0) ELSE named
           first == First(PUBLISH, qos, retain)
<1>0. id \in Nat
  BY LastIdType
<1>1. whole \in Seq(Nat) /\ Len(whole) = 2 + Len(topic) + IdSize(qos)
  BY NamedBodyHolds
<1>2. Builds(named, id, <<>> \o StringOf(topic))
  BY <1>0, InitBuilds, StringBuilds DEF StringOf
<1>3. \E any : Builds(numbered, any, whole)
  <2>1. CASE qos > 0
    <3>1. numbered = append_message_id(named, 0) /\ whole = (<<>> \o StringOf(topic)) \o TwoBytes(NextId(id))
      BY <2>1 DEF NamedBody
    <3> QED
      BY <1>2, <3>1, IdBuilds
  <2>2. CASE ~(qos > 0)
    <3>1. numbered = named /\ whole = <<>> \o StringOf(topic)
      BY <2>2 DEF NamedBody
    <3> QED
      BY <1>2, <3>1
  <2> QED
    BY <2>1, <2>2
<1>4. mqtt_msg_publish(id, topic, data, qos, retain) = fini_message(Added(numbered, data), PUBLISH, qos, retain)
  BY DEF mqtt_msg_publish
<1>5. body = whole \o data
  BY DEF PublishBody
<1> HIDE DEF whole, body, named, numbered
<1>6. PICK any : Builds(numbered, any, whole)
  BY <1>3
<1>7. Builds(Added(numbered, data), any, whole \o data)
  BY <1>6, AddedBuilds
<1>8. mqtt_msg_publish(id, topic, data, qos, retain) = Fini(first, body)
  <2>1. fini_message(Added(numbered, data), PUBLISH, qos, retain)
          = Fini(first, whole \o data)
    BY <1>7, FiniBuilds
  <2> QED
    BY <1>4, <1>5, <2>1, Zenon
<1>9. body \in Seq(Nat) /\ Len(body) = Len(whole) + Len(data)
  BY <1>1, <1>5, ConcatProperties
<1>10. Len(topic) \in Nat /\ Len(data) \in Nat /\ IdSize(qos) \in Nat
  BY LenProperties DEF IdSize
<1>11. Len(body) = 2 + Len(topic) + IdSize(qos) + Len(data)
  BY <1>1, <1>9, <1>10
<1> QED
  BY <1>8, <1>9, <1>11 DEF body

\* Where topic, id and data of a PUBLISH packet are that was built.
LEMMA PublishLayout ==
  ASSUME NEW id \in 0 .. LastId, NEW topic \in Seq(Nat), NEW data \in Seq(Nat),
         NEW qos \in 0 .. 2, NEW retain \in 0 .. 1, topic # <<>>,
         mqtt_msg_publish(id, topic, data, qos, retain) # <<>>
  PROVE  \E h, i : PublishAt(mqtt_msg_publish(id, topic, data, qos, retain),
                             First(PUBLISH, qos, retain), topic, data, qos, NextId(id), h, i)
<1> DEFINE p == mqtt_msg_publish(id, topic, data, qos, retain)
           first == First(PUBLISH, qos, retain)
           body == PublishBody(id, topic, data, qos)
           named == NamedBody(id, topic, qos)
           h == HeaderOf(body)
           i == h + 2 + Len(topic) + IdSize(qos)
<1>0. Len(topic) \in Nat /\ Len(data) \in Nat /\ IdSize(qos) \in Nat /\ first \in Nat
  BY LenProperties DEF IdSize, PUBLISH, First
<1> HIDE DEF first
<1>1. /\ body \in Seq(Nat) /\ Len(body) = 2 + Len(topic) + IdSize(qos) + Len(data)
      /\ p = Fini(first, body)
  BY PublishBuilt DEF first
<1>2. ~(3 + Len(body) > BufferLength) /\ p = Headed(first, body)
  BY <1>1 DEF Fini
<1>3. Len(body) <= 127 + 128 * 127
  BY <1>0, <1>1, <1>2, BufferBounds, SMTT(30)
<1>4. IsHeaded(p, first, body, h, Len(body))
  BY <1>0, <1>1, <1>2, <1>3, HeadedIs
<1>5. /\ named \in Seq(Nat) /\ Len(named) = 2 + Len(topic) + IdSize(qos)
      /\ Holds(named, 0, StringOf(topic))
      /\ qos > 0 => Holds(named, 2 + Len(topic), TwoBytes(NextId(id)))
  BY NamedBodyHolds
<1>6. body = named \o data
  BY DEF PublishBody
<1>7. h \in {2, 3}
  BY DEF HeaderOf
<1> HIDE DEF p, body, named, h
<1>8. Holds(p, h, named \o data)
  BY <1>4, <1>6 DEF IsHeaded
<1>9. Holds(p, h, named) /\ Holds(p, h + Len(named), data)
  BY <1>5, <1>8, HoldsBoth
<1>10. Holds(p, h + 0, StringOf(topic))
  BY <1>5, <1>9, HoldsPart
<1>11. qos > 0 => Holds(p, h + (2 + Len(topic)), TwoBytes(NextId(id)))
  BY <1>5, <1>9, HoldsPart
<1>12. h + 0 = h /\ h + (2 + Len(topic)) = h + 2 + Len(topic) /\ h + Len(named) = i
       /\ (i - h) + Len(data) = Len(body)
  <2>1. h \in Nat
    BY <1>7
  <2>2. h + 0 = h /\ h + (2 + Len(topic)) = h + 2 + Len(topic)
    BY <1>0, <2>1
  <2>3. h + Len(named) = i
    BY <1>0, <1>5, <2>1
  <2>4. (i - h) + Len(data) = Len(body)
    BY <1>0, <1>1, <2>1
  <2> QED
    BY <2>2, <2>3, <2>4
<1>13. NextId(id) \in Nat
  BY NextIdType
<1>14. Holds(p, h, StringOf(topic)) /\ Holds(p, i, data)
       /\ (qos > 0 => Holds(p, h + 2 + Len(topic), TwoBytes(NextId(id))))
  BY <1>9, <1>10, <1>11, <1>12
<1>15. \E any : IsHeaded(p, first, any, h, (i - h) + Len(data))
  BY <1>4, <1>12
<1>16. PublishAt(p, first, topic, data, qos, NextId(id), h, i)
  BY <1>7, <1>13, <1>14, <1>15 DEF PublishAt
<1> QED
  BY <1>16 DEF p, first

\* What the first n bytes of a PUBLISH packet say of its parts.
LEMMA PublishTopicEnd ==
  ASSUME NEW p, NEW first, NEW topic, NEW data, NEW qos, NEW next, NEW h, NEW i,
         PublishAt(p, first, topic, data, qos, next, h, i), NEW n \in 1 .. Len(p)
  PROVE  LET b == SubSeq(p, 1, n)
             e == h + 2 + Len(topic)
         IN /\ Len(b) = n /\ b \in Seq(Nat) /\ b[1] = first
            /\ Len(topic) \in Nat \ {0} /\ Len(data) \in Nat /\ IdSize(qos) \in {0, 2}
            /\ Len(p) = i + Len(data) /\ i = e + IdSize(qos)
            /\ n >= h => HeaderLen(b) = h /\ mqtt_get_total_length(b) = Len(p)
            /\ TopicEnd(b) = IF n <= h + 2 THEN 0 ELSE e
<1> DEFINE b == SubSeq(p, 1, n)
           e == h + 2 + Len(topic)
           m == (i - h) + Len(data)
<1>1. /\ topic \in Seq(Nat) /\ data \in Seq(Nat) /\ topic # <<>> /\ h \in {2, 3}
      /\ i = e + IdSize(qos) /\ Holds(p, h, StringOf(topic)) /\ qos \in 0 .. 2
  BY DEF PublishAt
<1>2. Len(topic) \in Nat \ {0} /\ Len(data) \in Nat /\ IdSize(qos) \in {0, 2}
  BY <1>1, EmptySeq, LenProperties DEF IdSize
<1>3. m \in Nat /\ h \in Nat /\ e \in Nat /\ i \in Nat
  <2>1. h \in Nat /\ e \in Nat
    BY <1>1, <1>2
  <2> HIDE DEF e
  <2>2. i = e + IdSize(qos) /\ IdSize(qos) \in Nat
    BY <1>1, <1>2
  <2>3. i \in Nat
    BY <2>1, <2>2
  <2>4. i - h = 2 + Len(topic) + IdSize(qos)
    BY <1>2, <2>1, <2>2 DEF e
  <2>5. m \in Nat
    BY <1>2, <2>2, <2>4
  <2> QED
    BY <2>1, <2>3, <2>5
<1>4. PICK body : IsHeaded(p, first, body, h, m)
  BY DEF PublishAt
<1>5. Len(p) = h + m
  BY <1>4 DEF IsHeaded
<1>6. Len(p) = i + Len(data) /\ n \in Nat /\ n <= Len(p) /\ Len(p) \in Nat
  BY <1>2, <1>3, <1>5
<1> HIDE DEF m
<1>7. ReadsHeader(b, n, first, h, m)
  BY <1>3, <1>4, HeadedReads
<1>8. /\ b \in Seq(Nat) /\ Len(b) = n /\ b[1] = first
      /\ n < h => HeaderLen(b) = n
      /\ n >= h => HeaderLen(b) = h /\ mqtt_get_total_length(b) = Len(p)
  BY <1>5, <1>7 DEF ReadsHeader
<1>9. TopicEnd(b) = IF n <= h + 2 THEN 0 ELSE e
  <2>1. TopicEnd(b) = IF HeaderLen(b) + 2 >= n THEN 0 ELSE HeaderLen(b) + 2 + IdAt(b, HeaderLen(b))
    <3>1. TopicEnd(b) = IF HeaderLen(b) + 2 >= n THEN 0
            ELSE HeaderLen(b) + 2 + ByteAt(b, HeaderLen(b)) * 256 + ByteAt(b, HeaderLen(b) + 1)
      BY <1>8, Zenon DEF TopicEnd
    <3>2. CASE n < h
      BY <1>3, <1>6, <1>8, <3>1, <3>2
    <3>3. CASE n >= h /\ h + 2 >= n
      BY <1>3, <1>6, <1>8, <3>1, <3>3
    <3>4. CASE n > h + 2
      <4>1. h \in Int /\ h + 1 \in 1 .. Len(b) /\ h + 2 \in 1 .. Len(b)
        BY <1>3, <1>6, <1>8, <3>4
      <4>2. ByteAt(b, h) \in Nat /\ ByteAt(b, h + 1) \in Nat
        <5>1. b[h + 1] \in Nat /\ b[h + 2] \in Nat /\ (h + 1) + 1 = h + 2
          BY <1>8, <4>1, ElementOfSeq
        <5> QED
          BY <5>1 DEF ByteAt
      <4> QED
        BY <1>3, <1>6, <1>8, <3>1, <3>4, <4>2 DEF IdAt
    <3> QED
      BY <1>3, <1>6, <3>2, <3>3, <3>4
  <2>2. CASE n <= h + 2
    <3>1. HeaderLen(b) + 2 >= n
      BY <1>3, <1>6, <1>8, <2>2
    <3> QED
      BY <2>1, <2>2, <3>1
  <2>3. CASE n > h + 2
    <3>1. Holds(p, h, TwoBytes(Len(topic))) /\ Len(TwoBytes(Len(topic))) = 2
      BY <1>1, <1>2, <1>3, StringHeld, TwoBytesLen
    <3>0. n \in 0 .. Len(p) /\ h + Len(TwoBytes(Len(topic))) <= n
      BY <1>3, <1>6, <2>3, <3>1
    <3>2. Holds(b, h, TwoBytes(Len(topic)))
      BY <3>0, <3>1, HoldsArrived
    <3>3. IdAt(b, h) = Len(topic)
      BY <1>2, <3>2, HoldsId
    <3>4. HeaderLen(b) = h /\ ~(h + 2 >= n) /\ ~(n <= h + 2)
      BY <1>3, <1>6, <1>8, <2>3
    <3> QED
      BY <2>1, <3>3, <3>4
  <2> QED
    BY <1>3, <1>6, <2>2, <2>3
<1> QED
  BY <1>1, <1>2, <1>6, <1>8, <1>9

BeginsWith(b, type, qos, retain) == b[1] = First(type, qos, retain)

\* Type, qos and retain are read from the first byte.
LEMMA FirstReads ==
  ASSUME NEW type \in 1 .. 14, NEW qos \in 0 .. 2, NEW retain \in 0 .. 1,
         NEW b, BeginsWith(b, type, qos, retain)
  PROVE  mqtt_get_type(b) = type /\ mqtt_get_qos(b) = qos /\ mqtt_get_retain(b) = retain
<1>1. /\ (16 * type + 2 * qos + retain) \div 16 = type
      /\ ((16 * type + 2 * qos + retain) \div 2) % 4 = qos
      /\ (16 * type + 2 * qos + retain) % 2 = retain
  OBVIOUS
<1> QED
  BY <1>1, Zenon DEF First, BeginsWith, mqtt_get_type, mqtt_get_qos, mqtt_get_retain

\* The topic is there as soon as its last byte is.
LEMMA PublishTopic ==
  ASSUME NEW p, NEW first, NEW topic, NEW data, NEW qos, NEW next, NEW h, NEW i,
         PublishAt(p, first, topic, data, qos, next, h, i), NEW n \in 1 .. Len(p)
  PROVE  mqtt_get_publish_topic(SubSeq(p, 1, n)) = IF n < h + 2 + Len(topic) THEN NULL ELSE topic
<1> DEFINE b == SubSeq(p, 1, n)
           e == h + 2 + Len(topic)
<1>1. /\ Len(b) = n /\ b \in Seq(Nat) /\ Len(topic) \in Nat \ {0}
      /\ n >= h => HeaderLen(b) = h /\ mqtt_get_total_length(b) = Len(p)
      /\ TopicEnd(b) = IF n <= h + 2 THEN 0 ELSE e
      /\ i = e + IdSize(qos) /\ Len(p) = i + Len(data) /\ Len(data) \in Nat /\ IdSize(qos) \in {0, 2}
  BY PublishTopicEnd
<1>2. h \in Nat /\ topic \in Seq(Nat) /\ Holds(p, h, StringOf(topic)) /\ n \in Nat
  BY DEF PublishAt
<1>3. Holds(p, h + 2, topic)
  BY <1>2, StringHeld
<1>4. mqtt_get_publish_topic(b) =
        IF TopicEnd(b) = 0 \/ TopicEnd(b) > Len(b) THEN NULL
        ELSE SubSeq(b, HeaderLen(b) + 3, TopicEnd(b))
  BY DEF mqtt_get_publish_topic
<1>5. e \in Nat /\ e # 0 /\ e > h + 2 /\ n \in 0 .. Len(p)
  <2>1. e \in Nat /\ e # 0 /\ e > h + 2
    BY <1>1, <1>2
  <2> HIDE DEF e
  <2>2. Len(p) \in Nat
    BY <1>1, <2>1
  <2> QED
    BY <2>1, <2>2
<1>6. CASE n < e
  <2>1. TopicEnd(b) = 0 \/ TopicEnd(b) > Len(b)
    BY <1>1, <1>2, <1>5, <1>6
  <2> QED
    BY <1>4, <1>6, <2>1
<1>7. CASE n >= e
  <2>1. TopicEnd(b) = e /\ HeaderLen(b) = h
    BY <1>1, <1>2, <1>5, <1>7
  <2>2. ~(TopicEnd(b) = 0 \/ TopicEnd(b) > Len(b))
    BY <1>1, <1>2, <1>5, <1>7, <2>1
  <2>3. h + 2 + Len(topic) <= n
    BY <1>7
  <2>4. Holds(b, h + 2, topic)
    BY <1>3, <1>5, <2>3, HoldsArrived
  <2>5. SubSeq(b, (h + 2) + 1, (h + 2) + Len(topic)) = topic
    BY <2>4, HoldsSubSeq
  <2>6. (h + 2) + 1 = h + 3 /\ ~(n < e)
    BY <1>2, <1>5, <1>7
  <2> QED
    BY <1>4, <2>1, <2>2, <2>5, <2>6
<1> QED
  BY <1>2, <1>5, <1>6, <1>7

\* Of the data the beginning is there that has arrived.
LEMMA PublishData ==
  ASSUME NEW p, NEW first, NEW topic, NEW data, NEW qos, NEW next, NEW h, NEW i,
         PublishAt(p, first, topic, data, qos, next, h, i), NEW n \in 1 .. Len(p),
         mqtt_get_qos(SubSeq(p, 1, n)) = qos
  PROVE  mqtt_get_publish_data(SubSeq(p, 1, n)) = IF n <= i THEN NULL ELSE SubSeq(data, 1, n - i)
<1> DEFINE b == SubSeq(p, 1, n)
           e == h + 2 + Len(topic)
           j == TopicEnd(b) + (IF mqtt_get_qos(b) > 0 THEN 2 ELSE 0)
<1>1. /\ Len(b) = n /\ b \in Seq(Nat) /\ Len(topic) \in Nat \ {0}
      /\ n >= h => HeaderLen(b) = h /\ mqtt_get_total_length(b) = Len(p)
      /\ TopicEnd(b) = IF n <= h + 2 THEN 0 ELSE e
      /\ i = e + IdSize(qos) /\ Len(p) = i + Len(data) /\ Len(data) \in Nat /\ IdSize(qos) \in {0, 2}
  BY PublishTopicEnd
<1>2. h \in Nat /\ Holds(p, i, data) /\ n \in Nat /\ qos \in 0 .. 2
  BY DEF PublishAt
<1>3. mqtt_get_publish_data(b) =
        IF \/ TopicEnd(b) = 0 \/ TopicEnd(b) >= Len(b)
           \/ mqtt_get_qos(b) > 0 /\ j >= Len(b)
           \/ mqtt_get_total_length(b) < j
          THEN NULL ELSE SubSeq(b, j + 1, Min({mqtt_get_total_length(b), Len(b)}))
  BY DEF mqtt_get_publish_data
<1>4. e \in Nat /\ e > h + 2 /\ i \in Nat /\ e <= i /\ n \in 0 .. Len(p) /\ Len(p) \in Nat
  <2>1. e \in Nat /\ e > h + 2
    BY <1>1, <1>2
  <2> HIDE DEF e
  <2>2. i \in Nat /\ e <= i
    BY <1>1, <2>1
  <2>3. Len(p) \in Nat
    BY <1>1, <2>2
  <2> QED
    BY <2>1, <2>2, <2>3
<1>5. qos > 0 => i = e + 2
  BY <1>1 DEF IdSize
<1>6. ~(qos > 0) => i = e
  BY <1>1, <1>4 DEF IdSize
<1>7. n > h + 2 => TopicEnd(b) = e /\ j = i
  <2> HIDE DEF e
  <2>1. n > h + 2 => TopicEnd(b) = e
    BY <1>1, <1>2
  <2>2. e + 2 = i \/ e + 0 = i
    BY <1>4, <1>5, <1>6
  <2> QED
    BY <1>2, <1>4, <1>5, <1>6, <2>1
<1> HIDE DEF b, e, j
<1>8. CASE n <= i
  <2>1. \/ TopicEnd(b) = 0 \/ TopicEnd(b) >= Len(b)
        \/ mqtt_get_qos(b) > 0 /\ j >= Len(b)
    <3>1. CASE n <= h + 2
      BY <1>1, <3>1 DEF b
    <3>2. CASE n > h + 2 /\ qos > 0
      BY <1>1, <1>7, <1>8, <3>2, <1>2, <1>4 DEF b
    <3>3. CASE n > h + 2 /\ ~(qos > 0)
      BY <1>1, <1>2, <1>4, <1>6, <1>7, <1>8, <3>3 DEF b
    <3> QED
      BY <1>2, <3>1, <3>2, <3>3
  <2>2. mqtt_get_publish_data(b) = NULL
    BY <1>3, <2>1
  <2> QED
    BY <1>8, <2>2 DEF b
<1>9. CASE n > i
  <2>1. n > h + 2 /\ n >= h
    BY <1>2, <1>4, <1>9
  <2>2. /\ TopicEnd(b) = e /\ j = i /\ mqtt_get_total_length(b) = Len(p) /\ Len(b) = n
        /\ mqtt_get_qos(b) = qos
    BY <1>1, <1>7, <2>1 DEF b
  <2>3. ~ \/ TopicEnd(b) = 0 \/ TopicEnd(b) >= Len(b)
          \/ mqtt_get_qos(b) > 0 /\ j >= Len(b)
          \/ mqtt_get_total_length(b) < j
    BY <1>2, <1>4, <1>9, <2>2
  <2>4. Min({mqtt_get_total_length(b), Len(b)}) = n
    <3> DEFINE S == {Len(p), n}
    <3>1. n \in S /\ \A x \in S : n =< x
      BY <1>2, <1>4
    <3>2. \A x \in S : (\A y \in S : x =< y) => x = n
      BY <1>2, <1>4
    <3> HIDE DEF S
    <3>3. Min(S) = n
      BY <3>1, <3>2 DEF Min
    <3> QED
      BY <2>2, <3>3 DEF S
  <2>5. mqtt_get_publish_data(b) = SubSeq(b, i + 1, n)
    BY <1>3, <2>2, <2>3, <2>4
  <2> DEFINE k == n - i
             part == SubSeq(data, 1, k)
  <2>6. k \in 0 .. Len(data) /\ i + k = n
    BY <1>1, <1>2, <1>4, <1>9, SMTT(30)
  <2>7. Holds(p, i, part) /\ Len(part) = k
    BY <1>2, <2>6, HoldsPrefix
  <2> HIDE DEF part
  <2>8. Holds(b, i, part)
    <3>1. i + Len(part) <= n
      BY <1>2, <1>4, <2>6, <2>7
    <3> QED
      BY <1>4, <2>7, <3>1, HoldsArrived DEF b
  <2>9. SubSeq(b, i + 1, i + Len(part)) = part
    BY <2>8, HoldsSubSeq
  <2>10. mqtt_get_publish_data(b) = part /\ ~(n <= i)
    BY <1>2, <1>4, <1>9, <2>5, <2>6, <2>7, <2>9
  <2> QED
    BY <2>10 DEF b, part
<1> QED
  BY <1>2, <1>4, <1>8, <1>9

\* The message id is there as soon as the data are.
LEMMA PublishId ==
  ASSUME NEW p, NEW first, NEW topic, NEW data, NEW qos, NEW next, NEW h, NEW i,
         PublishAt(p, first, topic, data, qos, next, h, i), NEW n \in 1 .. Len(p),
         mqtt_get_qos(SubSeq(p, 1, n)) = qos, mqtt_get_type(SubSeq(p, 1, n)) = PUBLISH
  PROVE  mqtt_get_id(SubSeq(p, 1, n)) = IF qos > 0 /\ n > i THEN next ELSE 0
<1> DEFINE b == SubSeq(p, 1, n)
           e == h + 2 + Len(topic)
<1>1. /\ Len(b) = n /\ b \in Seq(Nat) /\ Len(topic) \in Nat \ {0}
      /\ TopicEnd(b) = IF n <= h + 2 THEN 0 ELSE e
      /\ i = e + IdSize(qos) /\ Len(p) = i + Len(data) /\ Len(data) \in Nat /\ IdSize(qos) \in {0, 2}
  BY PublishTopicEnd
<1>2. h \in Nat /\ n \in Nat /\ n >= 1 /\ qos \in 0 .. 2 /\ next \in Nat
      /\ (qos > 0 => Holds(p, e, TwoBytes(next)))
  BY DEF PublishAt
<1>3. mqtt_get_id(b) =
        IF \/ TopicEnd(b) = 0 \/ TopicEnd(b) >= Len(b)
           \/ mqtt_get_qos(b) = 0 \/ TopicEnd(b) + 2 >= Len(b)
          THEN 0 ELSE IdAt(b, TopicEnd(b))
  <2>1. ~(Len(b) < 1)
    BY <1>1, <1>2
  <2> QED
    BY <2>1 DEF mqtt_get_id
<1>4. e \in Nat /\ e > h + 2 /\ n \in 0 .. Len(p)
  <2>1. e \in Nat /\ e > h + 2
    BY <1>1, <1>2
  <2> HIDE DEF e
  <2>2. Len(p) \in Nat
    BY <1>1, <2>1
  <2> QED
    BY <2>1, <2>2
<1> HIDE DEF b, e
<1>5. CASE qos = 0
  BY <1>3, <1>5 DEF b
<1>6. CASE qos > 0 /\ n <= i
  <2>1. i = e + 2 /\ TopicEnd(b) = IF n <= h + 2 THEN 0 ELSE e
    BY <1>1, <1>6 DEF IdSize, b, e
  <2>2. TopicEnd(b) = 0 \/ TopicEnd(b) + 2 >= Len(b)
    BY <1>1, <1>2, <1>4, <1>6, <2>1 DEF b
  <2> QED
    BY <1>2, <1>3, <1>6, <2>2, <1>4, <2>1 DEF b
<1>7. CASE qos > 0 /\ n > i
  <2>1. i = e + 2 /\ n > h + 2 /\ Len(b) = n
    BY <1>1, <1>2, <1>4, <1>7 DEF IdSize, b, e
  <2>2. TopicEnd(b) = e
    BY <1>1, <1>2, <1>4, <2>1 DEF b, e
  <2>3. ~ \/ TopicEnd(b) = 0 \/ TopicEnd(b) >= Len(b)
          \/ mqtt_get_qos(b) = 0 \/ TopicEnd(b) + 2 >= Len(b)
    BY <1>2, <1>4, <1>7, <2>1, <2>2 DEF b
  <2>4. Holds(b, e, TwoBytes(next))
    <3>1. Len(TwoBytes(next)) = 2 /\ Holds(p, e, TwoBytes(next))
      BY <1>2, <1>7, TwoBytesLen
    <3>2. e + Len(TwoBytes(next)) <= n
      BY <1>2, <1>4, <1>7, <2>1, <3>1
    <3> QED
      BY <1>4, <3>1, <3>2, HoldsArrived DEF b
  <2>5. IdAt(b, e) = next
    BY <1>2, <2>4, HoldsId
  <2> QED
    BY <1>3, <1>7, <2>2, <2>3, <2>5 DEF b
<1> QED
  <2>1. i \in Int
    BY <1>1, <1>4 DEF e
  <2> QED
    BY <1>2, <1>5, <1>6, <1>7, <2>1

PublishInputType == [id : 0 .. LastId, topic : Seq(Nat), data : Seq(Nat), qos : 0 .. 2, retain : 0 .. 1]

\* A packet is the beginning of itself that has all its bytes.
LEMMA WholePacket ==
  ASSUME NEW p \in Seq(Nat)
  PROVE  SubSeq(p, 1, Len(p)) = p
<1>1. Holds(p, 0, p)
  <2>1. Len(p) \in Nat /\ \A j \in 1 .. Len(p) : 0 + j = j
    BY LenProperties
  <2> QED
    BY <2>1 DEF Holds
<1>2. SubSeq(p, 0 + 1, 0 + Len(p)) = p
  BY <1>1, HoldsSubSeq
<1> QED
  BY <1>2, LenProperties

\* A packet is not empty.
LEMMA HeadedNonEmpty ==
  ASSUME NEW p, NEW first, NEW body, NEW h, NEW m \in Nat, IsHeaded(p, first, body, h, m)
  PROVE  p # <<>> /\ p \in Seq(Nat) /\ Len(p) \in Nat \ {0} /\ Len(p) = h + m
<1>1. p \in Seq(Nat) /\ Len(p) = h + m /\ h \in {2, 3}
  BY DEF IsHeaded
<1>2. Len(p) # 0 /\ Len(p) \in Nat
  BY <1>1
<1> QED
  BY <1>1, <1>2, EmptySeq

\* A PUBLISH packet is built exactly if it has a topic and fits the buffer.
LEMMA PublishFits ==
  ASSUME NEW m \in PublishInputType
  PROVE  mqtt_msg_publish(m.id, m.topic, m.data, m.qos, m.retain) # <<>>
           <=> m.topic # <<>>
                 /\ 3 + Size(m.topic) + (IF m.qos > 0 THEN 2 ELSE 0) + Len(m.data) <= BufferLength
<1> DEFINE p == mqtt_msg_publish(m.id, m.topic, m.data, m.qos, m.retain)
           body == PublishBody(m.id, m.topic, m.data, m.qos)
           first == First(PUBLISH, m.qos, m.retain)
<1>1. /\ m.id \in 0 .. LastId /\ m.topic \in Seq(Nat) /\ m.data \in Seq(Nat)
      /\ m.qos \in 0 .. 2 /\ m.retain \in 0 .. 1
  BY DEF PublishInputType
<1>2. CASE m.topic = <<>>
  BY <1>2 DEF mqtt_msg_publish
<1>3. CASE m.topic # <<>>
  <2>1. /\ body \in Seq(Nat) /\ Len(body) = 2 + Len(m.topic) + IdSize(m.qos) + Len(m.data)
        /\ p = Fini(first, body)
    BY <1>1, <1>3, PublishBuilt
  <2>2. Len(m.topic) \in Nat /\ Len(m.data) \in Nat /\ IdSize(m.qos) \in Nat /\ first \in Nat
    BY <1>1, LenProperties DEF IdSize, First, PUBLISH
  <2> HIDE DEF p, body, first
  <2>3. Len(body) \in Nat
    BY <2>1, LenProperties
  <2>4. 3 + Len(body) = 3 + Size(m.topic) + (IF m.qos > 0 THEN 2 ELSE 0) + Len(m.data)
    <3>1. IdSize(m.qos) = (IF m.qos > 0 THEN 2 ELSE 0) /\ Size(m.topic) = 2 + Len(m.topic)
      BY DEF Size, IdSize
    <3>2. 3 + Len(body) = 3 + (2 + Len(m.topic)) + IdSize(m.qos) + Len(m.data)
      BY <2>1, <2>2, <2>3, SMTT(30)
    <3> QED
      BY <3>1, <3>2, Zenon
  <2>5. CASE 3 + Len(body) > BufferLength
    <3>1. p = <<>> /\ ~(3 + Len(body) <= BufferLength)
      BY <2>1, <2>3, <2>5, BufferBounds DEF Fini
    <3> QED
      BY <2>4, <3>1 DEF p
  <2>6. CASE 3 + Len(body) <= BufferLength
    <3>1. p = Headed(first, body)
      BY <2>1, <2>3, <2>6, BufferBounds DEF Fini
    <3>2. Len(body) <= 127 + 128 * 127
      BY <2>3, <2>6, BufferBounds
    <3>3. p # <<>>
      BY <2>1, <2>2, <2>3, <3>1, <3>2, HeadedIs, HeadedNonEmpty
    <3> QED
      BY <1>3, <2>4, <2>6, <3>3 DEF p
  <2> QED
    BY <2>3, <2>5, <2>6, BufferBounds
<1> QED
  BY <1>2, <1>3

\* What is read out of a whole packet.
LEMMA PublishAtWhole ==
  ASSUME NEW p, NEW type \in 1 .. 14, NEW topic, NEW data, NEW qos \in 0 .. 2, NEW retain \in 0 .. 1,
         NEW next, NEW h, NEW i, type = PUBLISH,
         PublishAt(p, First(type, qos, retain), topic, data, qos, next, h, i)
  PROVE  /\ <<mqtt_get_type(p), mqtt_get_qos(p), mqtt_get_retain(p)>> = <<PUBLISH, qos, retain>>
         /\ mqtt_get_total_length(p) = Len(p)
         /\ mqtt_get_publish_topic(p) = topic
         /\ mqtt_get_publish_data(p) = IF data # <<>> THEN data ELSE NULL
         /\ mqtt_get_id(p) = IF qos > 0 /\ data # <<>> THEN next ELSE 0
<1> DEFINE n == Len(p)
           b == SubSeq(p, 1, n)
           e == h + 2 + Len(topic)
           m == (i - h) + Len(data)
<1>1. /\ topic \in Seq(Nat) /\ data \in Seq(Nat) /\ h \in {2, 3} /\ i = e + IdSize(qos)
      /\ \E first, body : IsHeaded(p, first, body, h, m)
  BY DEF PublishAt
<1>2. Len(topic) \in Nat /\ Len(data) \in Nat /\ IdSize(qos) \in Nat
  BY <1>1, LenProperties DEF IdSize
<1>3. h \in Nat /\ e \in Nat /\ e >= h
  BY <1>1, <1>2
<1> HIDE DEF e
<1>4. i \in Nat /\ i >= e
  BY <1>1, <1>2, <1>3
<1>5. m \in Nat
  BY <1>2, <1>3, <1>4
<1>6. p \in Seq(Nat) /\ n \in Nat \ {0}
  BY <1>1, <1>5, HeadedNonEmpty
<1>7. b = p
  BY <1>6, WholePacket
<1>8. n \in 1 .. Len(p)
  BY <1>6
<1>9. /\ b[1] = First(type, qos, retain)
      /\ n >= h => HeaderLen(b) = h /\ mqtt_get_total_length(b) = Len(p)
      /\ Len(p) = i + Len(data)
  BY <1>8, PublishTopicEnd
<1>10. n = i + Len(data) /\ n >= h /\ ~(n < e)
  BY <1>2, <1>3, <1>4, <1>9
<1>11. mqtt_get_type(b) = PUBLISH /\ mqtt_get_qos(b) = qos /\ mqtt_get_retain(b) = retain
  <2>1. BeginsWith(b, type, qos, retain)
    BY <1>9, Zenon DEF BeginsWith
  <2> HIDE DEF b
  <2> QED
    BY <2>1, FirstReads
<1>12. mqtt_get_publish_topic(b) = IF n < e THEN NULL ELSE topic
  BY <1>8, PublishTopic DEF e
<1>13. mqtt_get_publish_data(b) = IF n <= i THEN NULL ELSE SubSeq(data, 1, n - i)
  BY <1>8, <1>11, PublishData
<1>14. mqtt_get_id(b) = IF qos > 0 /\ n > i THEN next ELSE 0
  BY <1>8, <1>11, PublishId
<1> HIDE DEF b, n
<1>15. (data # <<>> <=> n > i) /\ (data # <<>> <=> ~(n <= i))
  <2>1. data # <<>> <=> Len(data) # 0
    BY <1>1, EmptySeq
  <2> QED
    BY <1>2, <1>4, <1>10, <2>1
<1>16. SubSeq(data, 1, n - i) = data
  <2>1. n - i = Len(data)
    BY <1>2, <1>4, <1>10
  <2> QED
    BY <1>1, <2>1, WholePacket
<1>17. mqtt_get_publish_data(b) = IF data # <<>> THEN data ELSE NULL
  BY <1>13, <1>15, <1>16
<1>18. mqtt_get_id(b) = IF qos > 0 /\ data # <<>> THEN next ELSE 0
  BY <1>14, <1>15
<1>19. mqtt_get_publish_topic(b) = topic /\ mqtt_get_total_length(b) = Len(p)
  BY <1>9, <1>10, <1>12
<1> QED
  BY <1>7, <1>11, <1>17, <1>18, <1>19

\* What is read out of a PUBLISH packet.
PublishReadAs(p, id, topic, data, qos, retain) ==
  /\ <<mqtt_get_type(p), mqtt_get_qos(p), mqtt_get_retain(p)>> = <<PUBLISH, qos, retain>>
  /\ mqtt_get_total_length(p) = Len(p)
  /\ mqtt_get_publish_topic(p) = topic
  /\ mqtt_get_publish_data(p) = IF data # <<>> THEN data ELSE NULL
  /\ mqtt_get_id(p) = IF qos > 0 /\ data # <<>> THEN id ELSE 0

\* A PUBLISH packet that has arrived as a whole is read as what it was made of.
LEMMA PublishWhole ==
  ASSUME NEW id \in 0 .. LastId, NEW topic \in Seq(Nat), NEW data \in Seq(Nat),
         NEW qos \in 0 .. 2, NEW retain \in 0 .. 1, topic # <<>>,
         mqtt_msg_publish(id, topic, data, qos, retain) # <<>>
  PROVE  PublishReadAs(mqtt_msg_publish(id, topic, data, qos, retain),
                       NextId(id), topic, data, qos, retain)
<1> DEFINE p == mqtt_msg_publish(id, topic, data, qos, retain)
<1>1. PUBLISH \in 1 .. 14
  BY DEF PUBLISH
<1>2. \E h, i : PublishAt(p, First(PUBLISH, qos, retain), topic, data, qos, NextId(id), h, i)
  BY PublishLayout
<1> HIDE DEF p
<1>3. /\ <<mqtt_get_type(p), mqtt_get_qos(p), mqtt_get_retain(p)>> = <<PUBLISH, qos, retain>>
      /\ mqtt_get_total_length(p) = Len(p)
      /\ mqtt_get_publish_topic(p) = topic
      /\ mqtt_get_publish_data(p) = IF data # <<>> THEN data ELSE NULL
      /\ mqtt_get_id(p) = IF qos > 0 /\ data # <<>> THEN NextId(id) ELSE 0
  BY <1>1, <1>2, PublishAtWhole
<1>4. PublishReadAs(p, NextId(id), topic, data, qos, retain)
  BY <1>3, Zenon DEF PublishReadAs
<1> QED
  BY <1>4 DEF p

\* PublishReadsBack, of every input.
LEMMA PublishRead ==
  ASSUME input.kind = "publish" => input.of \in PublishInputType
  PROVE  PublishReadsBack
<1> SUFFICES ASSUME input.kind = "publish" PROVE PublishReadsBack
  BY DEF PublishReadsBack
<1> DEFINE m == input.of
           p == mqtt_msg_publish(m.id, m.topic, m.data, m.qos, m.retain)
<1>0. m \in PublishInputType
  OBVIOUS
<1> HIDE DEF m
<1>1. /\ m.id \in 0 .. LastId /\ m.topic \in Seq(Nat) /\ m.data \in Seq(Nat)
      /\ m.qos \in 0 .. 2 /\ m.retain \in 0 .. 1
  BY <1>0 DEF PublishInputType
<1>2. p # <<>> <=> m.topic # <<>>
            /\ 3 + Size(m.topic) + (IF m.qos > 0 THEN 2 ELSE 0) + Len(m.data) <= BufferLength
  BY <1>0, PublishFits
<1>3. p # <<>> => PublishReadAs(p, NextId(m.id), m.topic, m.data, m.qos, m.retain)
  BY <1>1, <1>2, PublishWhole
<1>4. NextId(m.id) = 1 + (m.id % LastId)
  BY <1>1, NextIdType
<1> HIDE DEF p
<1>5. p # <<>> =>
        /\ <<mqtt_get_type(p), mqtt_get_qos(p), mqtt_get_retain(p)>> = <<PUBLISH, m.qos, m.retain>>
        /\ mqtt_get_total_length(p) = Len(p)
        /\ mqtt_get_publish_topic(p) = m.topic
        /\ mqtt_get_publish_data(p) = IF m.data # <<>> THEN m.data ELSE NULL
        /\ mqtt_get_id(p) = IF m.qos > 0 /\ m.data # <<>> THEN 1 + (m.id % LastId) ELSE 0
  BY <1>3, <1>4, Zenon DEF PublishReadAs
<1> QED
  BY <1>2, <1>5, Zenon DEF PublishReadsBack, m, p

\* The first bytes of a text are a prefix of it.
LEMMA BeginningIsPrefix ==
  ASSUME NEW s \in Seq(Nat), NEW k \in 0 .. Len(s)
  PROVE  IsPrefix(SubSeq(s, 1, k), s)
<1> DEFINE a == SubSeq(s, 1, k)
<1>1. Len(s) \in Nat /\ k \in Int /\ \A i \in 1 .. k : s[i] \in Nat
  BY LenProperties, ElementOfSeq
<1>2. a \in Seq(Nat) /\ Len(a) = k
  <2>1. a \in Seq(Nat) /\ Len(a) = (IF 1 <= k THEN k - 1 + 1 ELSE 0)
    BY <1>1, SubSeqProperties
  <2> HIDE DEF a
  <2> QED
    BY <1>1, <2>1
<1>3. SubSeq(a, 1, Len(a)) = a
  BY <1>2, WholePacket
<1>4. Len(a) <= Len(s) /\ SubSeq(a, 1, Len(a)) = SubSeq(s, 1, Len(a))
  BY <1>1, <1>2, <1>3
<1> QED
  BY <1>4 DEF IsPrefix

\* The data read, if any, are a beginning of the data sent.
PartReadAs(b, topic, data) ==
  /\ mqtt_get_publish_topic(b) \in {NULL, topic}
  /\ mqtt_get_publish_data(b) # NULL => IsPrefix(mqtt_get_publish_data(b), data)

\* The first n bytes of a PUBLISH packet are read as the whole topic or none, and as a
\* beginning of the data or none.
LEMMA PublishAtPart ==
  ASSUME NEW p, NEW type \in 1 .. 14, NEW topic, NEW data, NEW qos \in 0 .. 2, NEW retain \in 0 .. 1,
         NEW next, NEW h, NEW i, type = PUBLISH,
         PublishAt(p, First(type, qos, retain), topic, data, qos, next, h, i),
         NEW n \in 1 .. Len(p)
  PROVE  PartReadAs(SubSeq(p, 1, n), topic, data)
<1> DEFINE b == SubSeq(p, 1, n)
           d == mqtt_get_publish_data(b)
<1>1. data \in Seq(Nat) /\ Len(data) \in Nat
  BY LenProperties DEF PublishAt
<1>2. b[1] = First(type, qos, retain) /\ Len(p) = i + Len(data)
  BY PublishTopicEnd
<1>3. mqtt_get_qos(b) = qos
  <2>1. BeginsWith(b, type, qos, retain)
    BY <1>2, Zenon DEF BeginsWith
  <2> HIDE DEF b
  <2> QED
    BY <2>1, FirstReads
<1>4. mqtt_get_publish_topic(b) = NULL \/ mqtt_get_publish_topic(b) = topic
  BY PublishTopic
<1>5. d = IF n <= i THEN NULL ELSE SubSeq(data, 1, n - i)
  BY <1>3, PublishData
<1>6. i \in Nat
  <2>1. /\ h \in {2, 3} /\ topic \in Seq(Nat) /\ i = h + 2 + Len(topic) + IdSize(qos)
        /\ IdSize(qos) \in Nat
    BY DEF PublishAt, IdSize
  <2>2. h \in Nat /\ Len(topic) \in Nat
    BY <2>1, LenProperties
  <2> QED
    BY <2>1, <2>2
<1>7. n \in Nat /\ n <= i + Len(data)
  BY <1>1, <1>2, <1>6
<1>8. d # NULL => IsPrefix(d, data)
  <2>1. SUFFICES ASSUME d # NULL PROVE IsPrefix(d, data)
    OBVIOUS
  <2>2. ~(n <= i) /\ d = SubSeq(data, 1, n - i)
    BY <1>5, <2>1
  <2>3. n - i \in 0 .. Len(data)
    BY <1>1, <1>6, <1>7, <2>2
  <2>4. IsPrefix(SubSeq(data, 1, n - i), data)
    BY <1>1, <2>3, BeginningIsPrefix
  <2> QED
    BY <2>2, <2>4
<1> QED
  BY <1>4, <1>8 DEF PartReadAs

\* The same of every packet that mqtt_msg_publish builds.
LEMMA PublishParts ==
  ASSUME NEW id \in 0 .. LastId, NEW topic \in Seq(Nat), NEW data \in Seq(Nat),
         NEW qos \in 0 .. 2, NEW retain \in 0 .. 1,
         NEW n \in 1 .. Len(mqtt_msg_publish(id, topic, data, qos, retain)) - 1
  PROVE  PartReadAs(SubSeq(mqtt_msg_publish(id, topic, data, qos, retain), 1, n), topic, data)
<1> DEFINE p == mqtt_msg_publish(id, topic, data, qos, retain)
<1>1. PUBLISH \in 1 .. 14
  BY DEF PUBLISH
<1>2. p # <<>>
  <2>1. Len(<<>>) = 0
    OBVIOUS
  <2>2. p = <<>> => 1 .. Len(p) - 1 = {}
    BY <2>1
  <2> QED
    BY <2>2
<1>3. topic # <<>>
  BY <1>2 DEF mqtt_msg_publish
<1>4. PICK h, i : PublishAt(p, First(PUBLISH, qos, retain), topic, data, qos, NextId(id), h, i)
  BY <1>2, <1>3, PublishLayout
<1>5. n \in 1 .. Len(p)
  <2>1. p \in Seq(Nat)
    BY <1>4 DEF PublishAt, Holds
  <2> HIDE DEF p
  <2>2. Len(p) \in Nat
    BY <2>1, LenProperties
  <2> QED
    BY <2>2 DEF p
<1> HIDE DEF p
<1>6. PartReadAs(SubSeq(p, 1, n), topic, data)
  BY <1>1, <1>4, <1>5, PublishAtPart
<1> QED
  BY <1>6 DEF p

\* PartReadsPart, of every input.
LEMMA PartRead ==
  ASSUME input.kind = "part" => input.of \in PublishInputType
  PROVE  PartReadsPart
<1> SUFFICES ASSUME input.kind = "part" PROVE PartReadsPart
  BY DEF PartReadsPart
<1> DEFINE m == input.of
           p == mqtt_msg_publish(m.id, m.topic, m.data, m.qos, m.retain)
<1>0. m \in PublishInputType
  OBVIOUS
<1> HIDE DEF m
<1>1. /\ m.id \in 0 .. LastId /\ m.topic \in Seq(Nat) /\ m.data \in Seq(Nat)
      /\ m.qos \in 0 .. 2 /\ m.retain \in 0 .. 1
  BY <1>0 DEF PublishInputType
<1>2. \A n \in 1 .. Len(p) - 1 : PartReadAs(SubSeq(p, 1, n), m.topic, m.data)
  BY <1>1, PublishParts
<1> HIDE DEF p
<1> QED
  BY <1>2, Zenon DEF PartReadsPart, PartReadAs, m, p

-----------------------------------------------------------------------------
(* Acknowledgements, SUBSCRIBE and UNSUBSCRIBE *)

\* What is read out of any packet; h is the length of its header.
BodyReadAs(p, type, body, h) ==
  /\ p \in Seq(Nat) /\ mqtt_get_type(p) = type /\ mqtt_get_total_length(p) = Len(p)
  /\ Len(p) = h + Len(body) /\ HeaderLen(p) = h /\ Holds(p, h, body)
  /\ h = 2 => ByteAt(p, 1) < 128
  /\ h = 3 => ~(ByteAt(p, 1) < 128)

\* Type and length of any packet, and where its body is.
LEMMA BodyRead ==
  ASSUME NEW body \in Seq(Nat), NEW type \in 1 .. 14, NEW qos \in 0 .. 2, NEW retain \in 0 .. 1,
         Fini(First(type, qos, retain), body) # <<>>
  PROVE  BodyReadAs(Fini(First(type, qos, retain), body), type, body, HeaderOf(body))
<1> DEFINE p == Fini(First(type, qos, retain), body)
<1> DEFINE first == First(type, qos, retain)
           h == HeaderOf(body)
           m == Len(body)
<1>0. first \in Nat
  BY DEF First
<1>1. m \in Nat /\ h \in {2, 3}
  BY LenProperties DEF HeaderOf
<1> HIDE DEF first, p
<1>2. 3 + m <= BufferLength /\ p = Headed(first, body)
  BY <1>1, BufferBounds DEF Fini, first, p
<1>3. m <= 127 + 128 * 127
  BY <1>1, <1>2, BufferBounds
<1>4. IsHeaded(p, first, body, h, m)
  BY <1>0, <1>2, <1>3, HeadedIs
<1> HIDE DEF h, m
<1>5. p \in Seq(Nat) /\ Len(p) \in Nat \ {0} /\ Len(p) = h + m /\ Holds(p, h, body)
  <2>1. Holds(p, h, body)
    BY <1>4 DEF IsHeaded
  <2> QED
    BY <1>1, <1>4, <2>1, HeadedNonEmpty
<1>6. ReadsHeader(SubSeq(p, 1, Len(p)), Len(p), first, h, m)
  <2>1. Len(p) \in 1 .. Len(p)
    BY <1>5
  <2> QED
    BY <1>1, <1>4, <2>1, HeadedReads
<1>7. ReadsHeader(p, Len(p), first, h, m)
  BY <1>5, <1>6, WholePacket
<1>8. Len(p) >= h
  BY <1>1, <1>5
<1>9. p[1] = first /\ HeaderLen(p) = h /\ mqtt_get_total_length(p) = Len(p)
  BY <1>5, <1>7, <1>8 DEF ReadsHeader
<1>10. mqtt_get_type(p) = type
  <2>1. BeginsWith(p, type, qos, retain)
    BY <1>9, Zenon DEF BeginsWith, first
  <2> QED
    BY <2>1, FirstReads
<1>11. ByteAt(p, 1) = p[2]
  BY DEF ByteAt
<1>12. h = 2 => ByteAt(p, 1) < 128
  <2>1. h = 2 => p[2] = m /\ m \in 0 .. 127
    BY <1>4 DEF IsHeaded
  <2>2. m \in 0 .. 127 => m < 128
    OBVIOUS
  <2> QED
    BY <1>11, <2>1, <2>2
<1>13. h = 3 => ~(ByteAt(p, 1) < 128)
  <2>1. h = 3 => \E low \in 0 .. 127 : p[2] = 128 + low
    BY <1>4 DEF IsHeaded
  <2>2. \A low \in 0 .. 127 : ~(128 + low < 128)
    OBVIOUS
  <2> QED
    BY <1>11, <2>1, <2>2, Zenon
<1> QED
  BY <1>5, <1>9, <1>10, <1>12, <1>13, Zenon DEF BodyReadAs, h, m, p, first

AckTypes == {PUBACK, PUBREC, PUBREL, PUBCOMP}

\* What the id of a packet other than PUBLISH is read from.
LEMMA IdBehindHeader ==
  ASSUME NEW p, p \in Seq(Nat), Len(p) >= 4, ByteAt(p, 1) < 128, NEW n \in Nat,
         Holds(p, 2, TwoBytes(n)), mqtt_get_type(p) \in AckTypes \cup {SUBSCRIBE}
  PROVE  mqtt_get_id(p) = n
<1>1. mqtt_get_type(p) \in {PUBACK, PUBREC, PUBREL, PUBCOMP, SUBACK, UNSUBACK, SUBSCRIBE}
  BY DEF AckTypes
<1>2. mqtt_get_type(p) # PUBLISH
  BY DEF AckTypes, PUBLISH, PUBACK, PUBREC, PUBREL, PUBCOMP, SUBSCRIBE
<1>3. ~(Len(p) < 1)
  BY LenProperties
<1>4. mqtt_get_id(p) = IdAt(p, 2)
  BY <1>1, <1>2, <1>3, Zenon DEF mqtt_get_id
<1>5. IdAt(p, 2) = n
  BY HoldsId
<1> QED
  BY <1>4, <1>5

\* An acknowledgement is built whatever the size of the buffer.
LEMMA AckBuilt ==
  ASSUME NEW type, NEW id \in Nat \ {0}
  PROVE  Ack(type, id) = Fini(First(type, IF type = PUBREL THEN 1 ELSE 0, 0), TwoBytes(id))
<1> DEFINE k == append_message_id(init_message(0), id)
<1>1. TwoBytes(id) \in Seq(Nat)
  BY TwoBytesLen
<1>2. k = Added(init_message(0), TwoBytes(id))
  BY DEF append_message_id
<1>3. Builds(init_message(0), 0, <<>>)
  BY InitBuilds
<1>4. Builds(k, 0, <<>> \o TwoBytes(id))
  BY <1>1, <1>2, <1>3, AddedBuilds
<1>5. <<>> \o TwoBytes(id) = TwoBytes(id)
  BY <1>1, ConcatEmptySeq
<1>6. Ack(type, id) = fini_message(k, type, IF type = PUBREL THEN 1 ELSE 0, 0)
  BY DEF Ack
<1> HIDE DEF k
<1>7. Builds(k, 0, TwoBytes(id))
  BY <1>4, <1>5
<1> QED
  BY <1>6, <1>7, FiniBuilds

\* An acknowledgement is read as its type and id.
LEMMA AckRead ==
  ASSUME NEW type \in AckTypes, NEW id \in Nat \ {0}
  PROVE  /\ mqtt_get_type(Ack(type, id)) = type
         /\ mqtt_get_id(Ack(type, id)) = id
         /\ mqtt_get_total_length(Ack(type, id)) = 4
<1> DEFINE p == Ack(type, id)
           body == TwoBytes(id)
           qos == IF type = PUBREL THEN 1 ELSE 0
<1>1. type \in 1 .. 14 /\ qos \in 0 .. 2 /\ id \in Nat
  BY DEF AckTypes, PUBACK, PUBREC, PUBREL, PUBCOMP
<1>2. body \in Seq(Nat) /\ Len(body) = 2
  BY TwoBytesLen
<1>3. p = Fini(First(type, qos, 0), body)
  BY AckBuilt
<1>4. HeaderOf(body) = 2
  BY <1>2 DEF HeaderOf
<1> HIDE DEF body, p, qos
<1>5. p # <<>>
  <2>1. First(type, qos, 0) \in Nat
    BY <1>1 DEF First
  <2>2. p = Headed(First(type, qos, 0), body)
    <3>1. ~(3 + 2 > BufferLength)
      BY BufferBounds
    <3> QED
      BY <1>2, <1>3, <3>1 DEF Fini
  <2>3. IsHeaded(p, First(type, qos, 0), body, 2, 2)
    <3>1. Len(body) <= 127 + 128 * 127
      BY <1>2
    <3> QED
      BY <1>2, <1>4, <2>1, <2>2, <3>1, HeadedIs
  <2> QED
    BY <2>3, HeadedNonEmpty
<1>6. BodyReadAs(p, type, body, 2)
  <2>1. 0 \in 0 .. 1
    OBVIOUS
  <2> QED
    BY <1>1, <1>2, <1>3, <1>4, <1>5, <2>1, BodyRead
<1>7. /\ p \in Seq(Nat) /\ mqtt_get_type(p) = type /\ mqtt_get_total_length(p) = 4
      /\ Len(p) = 4 /\ Holds(p, 2, TwoBytes(id)) /\ ByteAt(p, 1) < 128
  BY <1>2, <1>6 DEF BodyReadAs, body
<1>8. mqtt_get_id(p) = id
  <2>1. mqtt_get_type(p) \in AckTypes \cup {SUBSCRIBE} /\ Len(p) >= 4
    BY <1>7
  <2> QED
    BY <1>1, <1>7, <2>1, IdBehindHeader
<1> QED
  BY <1>7, <1>8 DEF p

\* The bytes of SUBSCRIBE and UNSUBSCRIBE packets: the id and what follows it.
LEMMA NumberedBuilt ==
  ASSUME NEW id \in 0 .. LastId
  PROVE  \E any : Builds(append_message_id(init_message(id), 0), any, TwoBytes(NextId(id)))
<1>0. id \in Nat /\ NextId(id) \in Nat
  <2>1. LastId \in Nat
    BY LastIdType
  <2> QED
    BY <2>1, NextIdType
<1>1. Builds(append_message_id(init_message(id), 0), NextId(id), <<>> \o TwoBytes(NextId(id)))
  BY <1>0, InitBuilds, IdBuilds
<1>2. <<>> \o TwoBytes(NextId(id)) = TwoBytes(NextId(id))
  BY <1>0, TwoBytesLen, ConcatEmptySeq
<1> QED
  BY <1>1, <1>2

\* The id of a SUBSCRIBE packet is found as long as one length byte is enough.
LEMMA SubscribeRead ==
  ASSUME NEW id \in 0 .. LastId, NEW topic \in Seq(Nat), mqtt_msg_subscribe(id, topic, 1) # <<>>
  PROVE  mqtt_get_id(mqtt_msg_subscribe(id, topic, 1))
           = IF Len(topic) + 5 <= 127 THEN NextId(id) ELSE 0
<1> DEFINE p == mqtt_msg_subscribe(id, topic, 1)
           k == append_message_id(init_message(id), 0)
           ready == Added(append_string(k, topic), <<1>>)
           t == TwoBytes(NextId(id))
           u == t \o StringOf(topic)
           body == u \o <<1>>
<1>1. NextId(id) \in Nat /\ Len(topic) \in Nat
  BY NextIdType, LenProperties
<1>2. t \in Seq(Nat) /\ Len(t) = 2 /\ StringOf(topic) \in Seq(Nat) /\ Len(StringOf(topic)) = 2 + Len(topic)
  BY <1>1, TwoBytesLen, StringOfType
<1>3. <<1>> \in Seq(Nat) /\ Len(<<1>>) = 1
  OBVIOUS
<1>4. PICK any : Builds(k, any, t)
  BY NumberedBuilt
<1>5. p = fini_message(ready, SUBSCRIBE, 1, 0)
  BY DEF mqtt_msg_subscribe
<1> HIDE DEF p, k, t
<1>6. Builds(ready, any, body)
  <2>1. Builds(append_string(k, topic), any, u)
    BY <1>4, StringBuilds DEF StringOf
  <2> QED
    BY <1>3, <2>1, AddedBuilds
<1>7. p = Fini(First(SUBSCRIBE, 1, 0), body)
  BY <1>5, <1>6, FiniBuilds
<1>8. u \in Seq(Nat) /\ Len(u) = 4 + Len(topic) /\ Holds(u, 0, t)
  <2>1. u \in Seq(Nat) /\ Len(u) = Len(t) + Len(StringOf(topic))
    BY <1>2, ConcatProperties
  <2>2. Holds(t, 0, t)
    <3>1. \A j \in 1 .. Len(t) : 0 + j = j
      BY <1>2
    <3> QED
      BY <1>2, <3>1 DEF Holds
  <2>3. Holds(u, 0, t)
    BY <1>2, <2>2, HoldsStill
  <2> HIDE DEF u
  <2> QED
    BY <1>1, <1>2, <2>1, <2>3
<1> HIDE DEF u
<1>9. body \in Seq(Nat) /\ Len(body) = 5 + Len(topic) /\ Holds(body, 0, t)
  <2>1. body \in Seq(Nat) /\ Len(body) = Len(u) + 1
    BY <1>3, <1>8, ConcatProperties
  <2>2. Holds(body, 0, t)
    BY <1>3, <1>8, HoldsStill
  <2> HIDE DEF body
  <2> QED
    BY <1>1, <1>8, <2>1, <2>2
<1> HIDE DEF body, ready
<1>10. SUBSCRIBE \in 1 .. 14 /\ 1 \in 0 .. 2 /\ 0 \in 0 .. 1
  BY DEF SUBSCRIBE
<1>11. /\ p \in Seq(Nat) /\ mqtt_get_type(p) = SUBSCRIBE
       /\ Len(p) = HeaderOf(body) + Len(body) /\ Holds(p, HeaderOf(body), body)
       /\ HeaderOf(body) = 2 => ByteAt(p, 1) < 128
       /\ HeaderOf(body) = 3 => ~(ByteAt(p, 1) < 128)
  <2>1. p # <<>>
    BY DEF p
  <2>2. BodyReadAs(p, SUBSCRIBE, body, HeaderOf(body))
    BY <1>7, <1>9, <1>10, <2>1, BodyRead
  <2> QED
    BY <2>2, Zenon DEF BodyReadAs
<1>12. CASE Len(topic) + 5 <= 127
  <2>1. HeaderOf(body) = 2
    BY <1>1, <1>9, <1>12 DEF HeaderOf
  <2>2. Holds(p, 2 + 0, t)
    BY <1>9, <1>11, <2>1, HoldsPart
  <2>3. Holds(p, 2, TwoBytes(NextId(id)))
    BY <2>2 DEF t
  <2>4. Len(p) >= 4
    BY <1>1, <1>9, <1>11, <2>1
  <2>5. mqtt_get_type(p) \in AckTypes \cup {SUBSCRIBE} /\ ByteAt(p, 1) < 128
    BY <1>11, <2>1
  <2>6. mqtt_get_id(p) = NextId(id)
    BY <1>1, <1>11, <2>3, <2>4, <2>5, IdBehindHeader
  <2> QED
    BY <1>12, <2>6 DEF p
<1>13. CASE ~(Len(topic) + 5 <= 127)
  <2>1. HeaderOf(body) = 3
    BY <1>1, <1>9, <1>13 DEF HeaderOf
  <2>2. ~(ByteAt(p, 1) < 128)
    BY <1>11, <2>1
  <2>3. SUBSCRIBE # PUBLISH
    BY DEF SUBSCRIBE, PUBLISH
  <2>4. mqtt_get_id(p) = 0
    BY <1>11, <2>2, <2>3, Zenon DEF mqtt_get_id
  <2> QED
    BY <1>13, <2>4 DEF p
<1> QED
  BY <1>12, <1>13

\* The id of an UNSUBSCRIBE packet is not looked for.
LEMMA UnsubscribeRead ==
  ASSUME NEW id \in 0 .. LastId, NEW topic \in Seq(Nat), mqtt_msg_unsubscribe(id, topic) # <<>>
  PROVE  mqtt_get_id(mqtt_msg_unsubscribe(id, topic)) = 0
<1> DEFINE p == mqtt_msg_unsubscribe(id, topic)
           k == append_message_id(init_message(id), 0)
           t == TwoBytes(NextId(id))
           body == t \o StringOf(topic)
<1>1. NextId(id) \in Nat
  BY NextIdType
<1>2. t \in Seq(Nat) /\ StringOf(topic) \in Seq(Nat)
  BY <1>1, TwoBytesLen, StringOfType
<1>3. PICK any : Builds(k, any, t)
  BY NumberedBuilt
<1>4. p = fini_message(append_string(k, topic), UNSUBSCRIBE, 1, 0)
  BY DEF mqtt_msg_unsubscribe
<1> HIDE DEF p, k, t
<1>5. Builds(append_string(k, topic), any, body)
  BY <1>3, StringBuilds DEF StringOf
<1>6. p = Fini(First(UNSUBSCRIBE, 1, 0), body)
  BY <1>4, <1>5, FiniBuilds
<1>7. body \in Seq(Nat)
  BY <1>2, ConcatProperties
<1> HIDE DEF body
<1>8. UNSUBSCRIBE \in 1 .. 14 /\ 1 \in 0 .. 2 /\ 0 \in 0 .. 1 /\ p # <<>>
  BY DEF UNSUBSCRIBE, p
<1>9. mqtt_get_type(p) = UNSUBSCRIBE
  <2>1. BodyReadAs(p, UNSUBSCRIBE, body, HeaderOf(body))
    BY <1>6, <1>7, <1>8, BodyRead
  <2> QED
    BY <2>1, Zenon DEF BodyReadAs
<1>10. /\ UNSUBSCRIBE # PUBLISH
       /\ UNSUBSCRIBE \notin {PUBACK, PUBREC, PUBREL, PUBCOMP, SUBACK, UNSUBACK, SUBSCRIBE}
  BY DEF UNSUBSCRIBE, PUBLISH, PUBACK, PUBREC, PUBREL, PUBCOMP, SUBACK, UNSUBACK, SUBSCRIBE
<1>11. mqtt_get_id(p) = 0
  BY <1>9, <1>10, Zenon DEF mqtt_get_id
<1> QED
  BY <1>11 DEF p

AckInputType == [id : 1 .. LastId, topic : Seq(Nat)]

\* AcksReadBack, of every input.
LEMMA AcksRead ==
  ASSUME input.kind = "ack" => input.of \in AckInputType
  PROVE  AcksReadBack
<1> SUFFICES ASSUME input.kind = "ack" PROVE AcksReadBack
  BY DEF AcksReadBack
<1> DEFINE m == input.of
           s == mqtt_msg_subscribe(m.id, m.topic, 1)
           u == mqtt_msg_unsubscribe(m.id, m.topic)
<1>0. m \in AckInputType
  OBVIOUS
<1> HIDE DEF m
<1>1. m.id \in 1 .. LastId /\ m.topic \in Seq(Nat)
  BY <1>0 DEF AckInputType
<1>2. m.id \in 0 .. LastId /\ m.id \in Nat \ {0}
  <2>1. LastId \in Nat
    BY SMT DEF LastId
  <2> QED
    BY <1>1, <2>1
<1>3. NextId(m.id) = 1 + (m.id % LastId)
  BY <1>2, NextIdType
<1>4. \A type \in AckTypes : /\ mqtt_get_type(Ack(type, m.id)) = type
                             /\ mqtt_get_id(Ack(type, m.id)) = m.id
                             /\ mqtt_get_total_length(Ack(type, m.id)) = 4
  BY <1>2, AckRead
<1>5. s # <<>> => mqtt_get_id(s) = IF Len(m.topic) + 5 <= 127 THEN NextId(m.id) ELSE 0
  BY <1>1, <1>2, SubscribeRead
<1>6. u # <<>> => mqtt_get_id(u) = 0
  BY <1>1, <1>2, UnsubscribeRead
<1> HIDE DEF s, u
<1>7. s # <<>> => mqtt_get_id(s) = IF Len(m.topic) + 5 <= 127 THEN 1 + (m.id % LastId) ELSE 0
  BY <1>3, <1>5, Zenon
<1> QED
  BY <1>4, <1>6, <1>7, Zenon DEF AcksReadBack, AckTypes, m, s, u

-----------------------------------------------------------------------------
(* CONNECT *)

ConnectInputType ==
  [client_id : Seq(Nat), will_topic : Seq(Nat), will_message : Seq(Nat), username : Seq(Nat),
   password : Seq(Nat), clean_session : BOOLEAN, will_retain : BOOLEAN, will_qos : 0 .. 3,
   keepalive : 0 .. LastId]

Bit(f, bit) == (f \div bit) % 2 = 1

SumOf(f, c, w, q, r, u, d) == f = 2 * c + 4 * w + 8 * q + 32 * r + 128 * u + 64 * d

\* A sum of flags is read flag by flag.
LEMMA BitsOf ==
  ASSUME NEW c \in 0 .. 1, NEW w \in 0 .. 1, NEW q \in 0 .. 3, NEW r \in 0 .. 1,
         NEW u \in 0 .. 1, NEW d \in 0 .. 1,
         NEW f, SumOf(f, c, w, q, r, u, d)
  PROVE  /\ f \in Nat
         /\ (f \div 2) % 2 = c /\ (f \div 4) % 2 = w /\ (f \div 8) % 4 = q
         /\ (f \div 32) % 2 = r /\ (f \div 128) % 2 = u /\ (f \div 64) % 2 = d
<1>1. /\ f \in Nat
      /\ f \div 2 = c + 2 * (w + 2 * q + 8 * r + 32 * u + 16 * d)
      /\ f \div 4 = w + 2 * (q + 4 * r + 16 * u + 8 * d)
      /\ f \div 8 = q + 4 * (r + 4 * u + 2 * d)
      /\ f \div 32 = r + 2 * (2 * u + d)
      /\ f \div 64 = d + 2 * u
      /\ f \div 128 = u
  BY DEF SumOf
<1>2. \A x \in 0 .. 1 : \A y \in Nat : (x + 2 * y) % 2 = x
  OBVIOUS
<1>3. \A x \in 0 .. 3 : \A y \in Nat : (x + 4 * y) % 4 = x
  OBVIOUS
<1>4. /\ w + 2 * q + 8 * r + 32 * u + 16 * d \in Nat /\ q + 4 * r + 16 * u + 8 * d \in Nat
      /\ r + 4 * u + 2 * d \in Nat /\ 2 * u + d \in Nat /\ u \in Nat
  OBVIOUS
<1>5. u % 2 = u
  OBVIOUS
<1> QED
  BY <1>1, <1>2, <1>3, <1>4, <1>5

FlagsOf(clean, will, retain, user, pass, qos) ==
  Flag(clean, 2) + Flag(will, 4 + Flag(retain, 32) + 8 * qos) + Flag(user, 128) + Flag(pass, 64)

FlagsSay(f, clean, will, retain, user, pass, qos) ==
  /\ f \in Nat
  /\ Bit(f, 2) <=> clean
  /\ Bit(f, 4) <=> will
  /\ will => (f \div 8) % 4 = qos /\ (Bit(f, 32) <=> retain)
  /\ Bit(f, 128) <=> user
  /\ Bit(f, 64) <=> pass

\* The flags say what they are set for.
LEMMA FlagsRead ==
  ASSUME NEW clean \in BOOLEAN, NEW will \in BOOLEAN, NEW retain \in BOOLEAN,
         NEW user \in BOOLEAN, NEW pass \in BOOLEAN, NEW qos \in 0 .. 3
  PROVE  FlagsSay(FlagsOf(clean, will, retain, user, pass, qos), clean, will, retain, user, pass, qos)
<1> DEFINE f == FlagsOf(clean, will, retain, user, pass, qos)
           One(b) == IF b THEN 1 ELSE 0
           q == IF will THEN qos ELSE 0
           r == IF will THEN One(retain) ELSE 0
<1>1. /\ One(clean) \in 0 .. 1 /\ One(will) \in 0 .. 1 /\ One(user) \in 0 .. 1 /\ One(pass) \in 0 .. 1
      /\ q \in 0 .. 3 /\ r \in 0 .. 1
  OBVIOUS
<1>2. /\ Flag(clean, 2) = 2 * One(clean) /\ Flag(user, 128) = 128 * One(user)
      /\ Flag(pass, 64) = 64 * One(pass)
      /\ Flag(will, 4 + Flag(retain, 32) + 8 * qos) = 4 * One(will) + 8 * q + 32 * r
  BY DEF Flag
<1>3. f = 2 * One(clean) + (4 * One(will) + 8 * q + 32 * r) + 128 * One(user) + 64 * One(pass)
  BY <1>2 DEF FlagsOf
<1>4. f = 2 * One(clean) + 4 * One(will) + 8 * q + 32 * r + 128 * One(user) + 64 * One(pass)
  <2> DEFINE c == One(clean)
             w == One(will)
             u == One(user)
             d == One(pass)
  <2>1. c \in Int /\ w \in Int /\ q \in Int /\ r \in Int /\ u \in Int /\ d \in Int
    BY <1>1
  <2>2. f = 2 * c + (4 * w + 8 * q + 32 * r) + 128 * u + 64 * d
    BY <1>3
  <2> HIDE DEF c, w, u, d, q, r
  <2>3. f = 2 * c + 4 * w + 8 * q + 32 * r + 128 * u + 64 * d
    BY <2>1, <2>2
  <2> QED
    BY <2>3 DEF c, w, u, d
<1>5. /\ (One(clean) = 1 <=> clean) /\ (One(will) = 1 <=> will) /\ (One(user) = 1 <=> user)
      /\ (One(pass) = 1 <=> pass) /\ (will => q = qos /\ (r = 1 <=> retain))
  OBVIOUS
<1> HIDE DEF f, One, q, r
<1>7. SumOf(f, One(clean), One(will), q, r, One(user), One(pass))
  BY <1>4 DEF SumOf
<1>6. /\ f \in Nat
      /\ (f \div 2) % 2 = One(clean) /\ (f \div 4) % 2 = One(will) /\ (f \div 8) % 4 = q
      /\ (f \div 32) % 2 = r /\ (f \div 128) % 2 = One(user) /\ (f \div 64) % 2 = One(pass)
  BY <1>1, <1>7, BitsOf
<1> QED
  BY <1>5, <1>6, ZenonT(40) DEF Bit, FlagsSay, f

\* A text is in itself.
LEMMA HoldsAll ==
  ASSUME NEW b \in Seq(Nat)
  PROVE  Holds(b, 0, b)
<1>1. Len(b) \in Nat /\ \A j \in 1 .. Len(b) : 0 + j = j
  BY LenProperties
<1> QED
  BY <1>1 DEF Holds

\* What is in the beginning of a packet.
LEMMA HoldsIn ==
  ASSUME NEW b, NEW u, Holds(b, 0, u), NEW pos, NEW s, Holds(u, pos, s)
  PROVE  Holds(b, pos, s)
<1>1. pos \in Nat
  BY DEF Holds
<1>2. Holds(b, 0 + pos, s) /\ 0 + pos = pos
  BY <1>1, HoldsPart
<1> QED
  BY <1>2

With(w, s) == w \o StringOf(s)

MaybeWith(w, s) == IF s # <<>> THEN With(w, s) ELSE w

SizeIf(b, s) == IF b THEN Size(s) ELSE 0

\* A string behind a text.
LEMMA WithHolds ==
  ASSUME NEW w \in Seq(Nat), NEW s \in Seq(Nat)
  PROVE  /\ With(w, s) \in Seq(Nat) /\ Len(With(w, s)) = Len(w) + Size(s)
         /\ Holds(With(w, s), 0, w) /\ Holds(With(w, s), Len(w), StringOf(s))
<1>1. StringOf(s) \in Seq(Nat) /\ Len(StringOf(s)) = Size(s)
  BY StringOfType DEF Size
<1>2. With(w, s) \in Seq(Nat) /\ Len(With(w, s)) = Len(w) + Len(StringOf(s))
  BY <1>1, ConcatProperties DEF With
<1>3. Holds(w, 0, w)
  BY HoldsAll
<1>4. Holds(With(w, s), 0, w) /\ Holds(With(w, s), Len(w), StringOf(s))
  BY <1>1, <1>3, HoldsStill, HoldsLast DEF With
<1> QED
  BY <1>1, <1>2, <1>4

\* A string that is left out if it is empty.
LEMMA MaybeWithHolds ==
  ASSUME NEW w \in Seq(Nat), NEW s \in Seq(Nat)
  PROVE  /\ MaybeWith(w, s) \in Seq(Nat) /\ Len(MaybeWith(w, s)) = Len(w) + SizeIf(s # <<>>, s)
         /\ Holds(MaybeWith(w, s), 0, w)
         /\ s # <<>> => Holds(MaybeWith(w, s), Len(w), StringOf(s))
<1>1. CASE s # <<>>
  BY <1>1, WithHolds DEF MaybeWith, SizeIf
<1>2. CASE s = <<>>
  <2>1. MaybeWith(w, s) = w /\ SizeIf(s # <<>>, s) = 0
    BY <1>2 DEF MaybeWith, SizeIf
  <2>2. Len(w) + 0 = Len(w) /\ Holds(w, 0, w)
    BY HoldsAll, LenProperties
  <2> QED
    BY <1>2, <2>1, <2>2
<1> QED
  BY <1>1, <1>2

ConnectHeader(flags, keepalive) == TwoBytes(6) \o Magic \o <<3, flags>> \o TwoBytes(keepalive)

\* Flags and keepalive are the 10th, and the 11th and 12th byte of a CONNECT packet's body.
LEMMA ConnectHeaderHolds ==
  ASSUME NEW flags \in Nat, NEW keepalive \in Nat
  PROVE  LET header == ConnectHeader(flags, keepalive)
         IN /\ header \in Seq(Nat) /\ Len(header) = 12
            /\ Holds(header, 9, <<flags>>) /\ Holds(header, 10, TwoBytes(keepalive))
<1> DEFINE six == TwoBytes(6)
           name == Magic
           a == six \o name
           f == <<3, flags>>
           u == a \o f
           t == TwoBytes(keepalive)
           header == u \o t
<1>1. name \in Seq(Nat) /\ Len(name) = 6 /\ six \in Seq(Nat) /\ Len(six) = 2
  BY TwoBytesLen DEF Magic
<1> HIDE DEF six, name
<1>2. a \in Seq(Nat) /\ Len(a) = 8
  <2>1. a \in Seq(Nat) /\ Len(a) = Len(six) + Len(name)
    BY <1>1, ConcatProperties
  <2> HIDE DEF a
  <2> QED
    BY <1>1, <2>1
<1>3. f \in Seq(Nat) /\ Len(f) = 2 /\ f[2] = flags
  OBVIOUS
<1>4. t \in Seq(Nat) /\ Len(t) = 2
  BY TwoBytesType
<1> HIDE DEF a, f, t
<1>5. u \in Seq(Nat) /\ Len(u) = 10 /\ Holds(u, 8, f)
  <2>1. u \in Seq(Nat) /\ Len(u) = Len(a) + Len(f) /\ Holds(u, Len(a), f)
    BY <1>2, <1>3, ConcatProperties, HoldsLast
  <2> HIDE DEF u
  <2> QED
    BY <1>2, <1>3, <2>1
<1> HIDE DEF u
<1>6. header \in Seq(Nat) /\ Len(header) = 12 /\ Holds(header, 10, t) /\ Holds(header, 8, f)
  <2>1. header \in Seq(Nat) /\ Len(header) = Len(u) + Len(t) /\ Holds(header, Len(u), t)
    BY <1>4, <1>5, ConcatProperties, HoldsLast
  <2>2. Holds(header, 8, f)
    BY <1>4, <1>5, HoldsStill
  <2> HIDE DEF header
  <2> QED
    BY <1>4, <1>5, <2>1, <2>2
<1>7. Holds(f, 1, <<flags>>)
  <2>1. <<flags>> \in Seq(Nat) /\ Len(<<flags>>) = 1 /\ <<flags>>[1] = flags
    OBVIOUS
  <2> DEFINE one == <<flags>>
  <2> HIDE DEF one
  <2>2. one \in Seq(Nat) /\ Len(one) = 1 /\ one[1] = flags
    BY <2>1 DEF one
  <2>3. \A j \in 1 .. Len(one) : j = 1
    BY <2>2
  <2>4. Holds(f, 1, one)
    BY <1>3, <2>2, <2>3 DEF Holds
  <2> QED
    BY <2>4 DEF one
<1> HIDE DEF header
<1>8. Holds(header, 8 + 1, <<flags>>)
  BY <1>6, <1>7, HoldsPart
<1>9. header = ConnectHeader(flags, keepalive)
  BY DEF header, u, a, six, name, f, t, ConnectHeader
<1> QED
  BY <1>6, <1>8, <1>9 DEF t

ConnectNamed(info) == With(<<>> \o ConnectHeader(ConnectFlags(info), info.keepalive), info.client_id)

ConnectWilled(info) ==
  IF info.will_topic = <<>> THEN ConnectNamed(info)
  ELSE With(With(ConnectNamed(info), info.will_topic), info.will_message)

ConnectUser(info) == MaybeWith(ConnectWilled(info), info.username)

ConnectBody(info) == MaybeWith(ConnectUser(info), info.password)

\* The flags say what there is (ConnectFlags).
LEMMA ConnectFlagsSay ==
  ASSUME NEW info \in ConnectInputType
  PROVE  FlagsSay(ConnectFlags(info), info.clean_session, info.will_topic # <<>>, info.will_retain,
                  info.username # <<>>, info.password # <<>>, info.will_qos)
<1>1. info.clean_session \in BOOLEAN /\ info.will_retain \in BOOLEAN /\ info.will_qos \in 0 .. 3
  BY DEF ConnectInputType
<1> DEFINE w == info.will_topic # <<>>
           u == info.username # <<>>
           p == info.password # <<>>
<1>2. w \in BOOLEAN /\ u \in BOOLEAN /\ p \in BOOLEAN
  OBVIOUS
<1>3. ConnectFlags(info) = FlagsOf(info.clean_session, w, info.will_retain, u, p, info.will_qos)
  BY Zenon DEF ConnectFlags, FlagsOf
<1> HIDE DEF w, u, p
<1>4. FlagsSay(ConnectFlags(info), info.clean_session, w, info.will_retain, u, p, info.will_qos)
  <2> DEFINE f == FlagsOf(info.clean_session, w, info.will_retain, u, p, info.will_qos)
  <2>1. FlagsSay(f, info.clean_session, w, info.will_retain, u, p, info.will_qos)
    BY <1>1, <1>2, FlagsRead
  <2> HIDE DEF f
  <2> QED
    BY <1>3, <2>1 DEF f
<1> QED
  BY <1>4, Zenon DEF w, u, p

\* Where the strings behind the client id are, counted from the first byte behind the
\* fixed header.
WillAt(info) == 12 + Size(info.client_id)

UserAt(info) ==
  WillAt(info) + SizeIf(info.will_topic # <<>>, info.will_topic)
    + SizeIf(info.will_topic # <<>>, info.will_message)

PassAt(info) == UserAt(info) + SizeIf(info.username # <<>>, info.username)

ConnectEnd(info) == PassAt(info) + SizeIf(info.password # <<>>, info.password)

\* The parts of a CONNECT packet behind position h.
ConnectHolds(b, h, info) ==
  /\ Holds(b, h + 9, <<ConnectFlags(info)>>)
  /\ Holds(b, h + 10, TwoBytes(info.keepalive))
  /\ Holds(b, h + 12, StringOf(info.client_id))
  /\ info.will_topic # <<>> =>
       /\ Holds(b, h + WillAt(info), StringOf(info.will_topic))
       /\ Holds(b, h + (WillAt(info) + Size(info.will_topic)), StringOf(info.will_message))
  /\ info.username # <<>> => Holds(b, h + UserAt(info), StringOf(info.username))
  /\ info.password # <<>> => Holds(b, h + PassAt(info), StringOf(info.password))

\* The texts and places of a CONNECT packet.
LEMMA ConnectTypes ==
  ASSUME NEW info \in ConnectInputType
  PROVE  /\ info.client_id \in Seq(Nat) /\ info.will_topic \in Seq(Nat)
         /\ info.will_message \in Seq(Nat) /\ info.username \in Seq(Nat)
         /\ info.password \in Seq(Nat) /\ info.keepalive \in Nat /\ ConnectFlags(info) \in Nat
         /\ WillAt(info) \in Nat /\ UserAt(info) \in Nat /\ PassAt(info) \in Nat
         /\ ConnectEnd(info) \in Nat
<1>1. /\ info.client_id \in Seq(Nat) /\ info.will_topic \in Seq(Nat)
      /\ info.will_message \in Seq(Nat) /\ info.username \in Seq(Nat)
      /\ info.password \in Seq(Nat) /\ info.keepalive \in Nat
  BY DEF ConnectInputType
<1>2. ConnectFlags(info) \in Nat
  <2>1. FlagsSay(ConnectFlags(info), info.clean_session, info.will_topic # <<>>, info.will_retain,
                 info.username # <<>>, info.password # <<>>, info.will_qos)
    BY ConnectFlagsSay
  <2> QED
    BY <2>1 DEF FlagsSay
<1>3. \A s \in Seq(Nat) : Size(s) \in Nat
  BY LenProperties DEF Size
<1>4. \A b : \A s \in Seq(Nat) : SizeIf(b, s) \in Nat
  BY <1>3 DEF SizeIf
<1>5. WillAt(info) \in Nat
  BY <1>1, <1>3 DEF WillAt
<1>6. UserAt(info) \in Nat
  BY <1>1, <1>4, <1>5 DEF UserAt
<1>7. PassAt(info) \in Nat
  BY <1>1, <1>4, <1>6 DEF PassAt
<1>8. ConnectEnd(info) \in Nat
  BY <1>1, <1>4, <1>7 DEF ConnectEnd
<1> QED
  BY <1>1, <1>2, <1>5, <1>6, <1>7, <1>8

\* The body of a CONNECT packet has all parts at their places and nothing else.
LEMMA ConnectBodyHolds ==
  ASSUME NEW info \in ConnectInputType
  PROVE  /\ ConnectBody(info) \in Seq(Nat) /\ Len(ConnectBody(info)) = ConnectEnd(info)
         /\ ConnectHolds(ConnectBody(info), 0, info)
<1> DEFINE flags == ConnectFlags(info)
           header == ConnectHeader(flags, info.keepalive)
           bare == <<>> \o header
           named == ConnectNamed(info)
           one == With(named, info.will_topic)
           willed == ConnectWilled(info)
           user == ConnectUser(info)
           body == ConnectBody(info)
           wt == info.will_topic
           wm == info.will_message
<1>1. /\ info.client_id \in Seq(Nat) /\ wt \in Seq(Nat) /\ wm \in Seq(Nat)
      /\ info.username \in Seq(Nat) /\ info.password \in Seq(Nat) /\ info.keepalive \in Nat
      /\ flags \in Nat
      /\ WillAt(info) \in Nat /\ UserAt(info) \in Nat /\ PassAt(info) \in Nat
  BY ConnectTypes
<1>2. /\ named = With(bare, info.client_id)
      /\ willed = IF wt = <<>> THEN named ELSE With(one, wm)
      /\ user = MaybeWith(willed, info.username)
      /\ body = MaybeWith(user, info.password)
  BY DEF ConnectNamed, ConnectWilled, ConnectUser, ConnectBody
<1> HIDE DEF flags
<1>3. /\ header \in Seq(Nat) /\ Len(header) = 12
      /\ Holds(header, 9, <<flags>>) /\ Holds(header, 10, TwoBytes(info.keepalive))
  BY <1>1, ConnectHeaderHolds
<1> HIDE DEF header
<1>4. bare = header
  BY <1>3, ConcatEmptySeq
<1> HIDE DEF bare, named, one, willed, user, body
<1>5. /\ named \in Seq(Nat) /\ Len(named) = 12 + Size(info.client_id)
      /\ Holds(named, 0, header) /\ Holds(named, 12, StringOf(info.client_id))
  <2>1. named = With(header, info.client_id)
    BY <1>2, <1>4, Zenon
  <2>2. LET v == With(header, info.client_id)
        IN /\ v \in Seq(Nat) /\ Len(v) = Len(header) + Size(info.client_id)
           /\ Holds(v, 0, header) /\ Holds(v, Len(header), StringOf(info.client_id))
    BY <1>1, <1>3, WithHolds, Zenon
  <2> QED
    BY <1>3, <2>1, <2>2, Zenon
<1>6. /\ willed \in Seq(Nat) /\ Len(willed) = UserAt(info) /\ Holds(willed, 0, named)
      /\ wt # <<>> => /\ Holds(willed, WillAt(info), StringOf(wt))
                      /\ Holds(willed, WillAt(info) + Size(wt), StringOf(wm))
  <2>1. CASE wt = <<>>
    <3>1. willed = named /\ UserAt(info) = WillAt(info) + 0 + 0
      BY <1>2, <2>1 DEF UserAt, SizeIf
    <3>2. UserAt(info) = WillAt(info)
      BY <1>1, <3>1
    <3>3. Holds(named, 0, named)
      BY <1>5, HoldsAll
    <3> QED
      BY <1>5, <2>1, <3>1, <3>2, <3>3 DEF WillAt
  <2>2. CASE wt # <<>>
    <3>1. willed = With(one, wm)
      BY <1>2, <2>2
    <3>2. /\ one \in Seq(Nat) /\ Len(one) = Len(named) + Size(wt)
          /\ Holds(one, 0, named) /\ Holds(one, Len(named), StringOf(wt))
      BY <1>1, <1>5, WithHolds DEF one
    <3>3. /\ willed \in Seq(Nat) /\ Len(willed) = Len(one) + Size(wm)
          /\ Holds(willed, 0, one) /\ Holds(willed, Len(one), StringOf(wm))
      BY <1>1, <3>1, <3>2, WithHolds
    <3>4. Len(named) = WillAt(info)
      BY <1>5 DEF WillAt
    <3>5. UserAt(info) = WillAt(info) + Size(wt) + Size(wm)
      BY <2>2 DEF UserAt, SizeIf
    <3>6. Holds(willed, 0, named) /\ Holds(willed, WillAt(info), StringOf(wt))
      BY <3>2, <3>3, <3>4, HoldsIn
    <3> QED
      BY <3>2, <3>3, <3>4, <3>5, <3>6
  <2> QED
    BY <2>1, <2>2
<1>7. /\ user \in Seq(Nat) /\ Len(user) = PassAt(info) /\ Holds(user, 0, willed)
      /\ info.username # <<>> => Holds(user, UserAt(info), StringOf(info.username))
  <2>1. /\ user \in Seq(Nat) /\ Len(user) = Len(willed) + SizeIf(info.username # <<>>, info.username)
        /\ Holds(user, 0, willed)
        /\ info.username # <<>> => Holds(user, Len(willed), StringOf(info.username))
    BY <1>1, <1>2, <1>6, MaybeWithHolds
  <2> QED
    BY <1>6, <2>1 DEF PassAt
<1>8. /\ body \in Seq(Nat) /\ Len(body) = ConnectEnd(info) /\ Holds(body, 0, user)
      /\ info.password # <<>> => Holds(body, PassAt(info), StringOf(info.password))
  <2>1. /\ body \in Seq(Nat) /\ Len(body) = Len(user) + SizeIf(info.password # <<>>, info.password)
        /\ Holds(body, 0, user)
        /\ info.password # <<>> => Holds(body, Len(user), StringOf(info.password))
    BY <1>1, <1>2, <1>7, MaybeWithHolds
  <2> QED
    BY <1>7, <2>1 DEF ConnectEnd
<1>9. Holds(body, 0, willed)
  BY <1>7, <1>8, HoldsIn
<1>10. Holds(body, 0, named)
  BY <1>6, <1>9, HoldsIn
<1>11. Holds(body, 0, header) /\ Holds(body, 12, StringOf(info.client_id))
  BY <1>5, <1>10, HoldsIn
<1>12. Holds(body, 9, <<flags>>) /\ Holds(body, 10, TwoBytes(info.keepalive))
  BY <1>3, <1>11, HoldsIn
<1>13. wt # <<>> => /\ Holds(body, WillAt(info), StringOf(wt))
                    /\ Holds(body, WillAt(info) + Size(wt), StringOf(wm))
  BY <1>6, <1>9, HoldsIn
<1>14. info.username # <<>> => Holds(body, UserAt(info), StringOf(info.username))
  BY <1>7, <1>8, HoldsIn
<1>15. /\ 0 + 9 = 9 /\ 0 + 10 = 10 /\ 0 + 12 = 12 /\ 0 + WillAt(info) = WillAt(info)
       /\ 0 + UserAt(info) = UserAt(info) /\ 0 + PassAt(info) = PassAt(info)
  BY <1>1
<1>16. 0 + (WillAt(info) + Size(wt)) = WillAt(info) + Size(wt)
  <2>1. Size(wt) \in Nat
    BY <1>1, LenProperties DEF Size
  <2> QED
    BY <1>1, <2>1
<1>17. ConnectHolds(body, 0, info)
  BY <1>8, <1>11, <1>12, <1>13, <1>14, <1>15, <1>16, Zenon DEF ConnectHolds, flags
<1> QED
  BY <1>8, <1>17 DEF body

\* mqtt_msg_connect builds that body.
LEMMA ConnectBuilt ==
  ASSUME NEW info \in ConnectInputType, info.client_id # <<>>
  PROVE  mqtt_msg_connect(info) = Fini(First(CONNECT, 0, 0), ConnectBody(info))
<1> DEFINE header == ConnectHeader(ConnectFlags(info), info.keepalive)
           named == append_string(Added(init_message(0), header), info.client_id)
           one == append_string(named, info.will_topic)
           willed == IF info.will_topic = <<>> THEN named
                     ELSE append_string(one, info.will_message)
           user == IF info.username # <<>> THEN append_string(willed, info.username) ELSE willed
           complete == IF info.password # <<>> THEN append_string(user, info.password) ELSE user
<1>1. /\ info.client_id \in Seq(Nat) /\ info.will_topic \in Seq(Nat)
      /\ info.will_message \in Seq(Nat) /\ info.username \in Seq(Nat)
      /\ info.password \in Seq(Nat) /\ info.keepalive \in Nat /\ ConnectFlags(info) \in Nat
  BY ConnectTypes
<1>2. mqtt_msg_connect(info) = fini_message(complete, CONNECT, 0, 0)
  BY Zenon DEF mqtt_msg_connect, ConnectHeader
<1>3. header \in Seq(Nat)
  BY <1>1, ConnectHeaderHolds
<1> HIDE DEF header
<1>4. Builds(named, 0, ConnectNamed(info))
  <2>1. Builds(Added(init_message(0), header), 0, <<>> \o header)
    BY <1>3, InitBuilds, AddedBuilds
  <2> QED
    BY <1>1, <2>1, StringBuilds DEF ConnectNamed, With, StringOf, header
<1> HIDE DEF named
<1>5. Builds(one, 0, With(ConnectNamed(info), info.will_topic))
  BY <1>1, <1>4, StringBuilds DEF With, StringOf
<1> HIDE DEF one
<1>6. Builds(willed, 0, ConnectWilled(info))
  <2>1. CASE info.will_topic = <<>>
    BY <1>4, <2>1 DEF ConnectWilled
  <2>2. CASE info.will_topic # <<>>
    <3>1. Builds(append_string(one, info.will_message), 0,
                 With(With(ConnectNamed(info), info.will_topic), info.will_message))
      BY <1>1, <1>5, StringBuilds DEF With, StringOf
    <3> QED
      BY <2>2, <3>1, Zenon DEF ConnectWilled
  <2> QED
    BY <2>1, <2>2
<1> HIDE DEF willed
<1>7. Builds(user, 0, ConnectUser(info))
  <2>1. Builds(append_string(willed, info.username), 0, With(ConnectWilled(info), info.username))
    BY <1>1, <1>6, StringBuilds DEF With, StringOf
  <2> QED
    BY <1>6, <2>1, Zenon DEF ConnectUser, MaybeWith
<1> HIDE DEF user
<1>8. Builds(complete, 0, ConnectBody(info))
  <2>1. Builds(append_string(user, info.password), 0, With(ConnectUser(info), info.password))
    BY <1>1, <1>7, StringBuilds DEF With, StringOf
  <2> QED
    BY <1>7, <2>1, Zenon DEF ConnectBody, MaybeWith
<1> HIDE DEF complete
<1> QED
  BY <1>2, <1>8, FiniBuilds

\* All parts are still at their places behind the fixed header.
LEMMA HoldsBehind ==
  ASSUME NEW b, NEW h, NEW body, Holds(b, h, body), NEW info \in ConnectInputType,
         ConnectHolds(body, 0, info)
  PROVE  ConnectHolds(b, h, info)
<1> DEFINE Fact(pos, s) == Holds(b, h + pos, s)
<1>1. /\ WillAt(info) \in Nat /\ UserAt(info) \in Nat /\ PassAt(info) \in Nat
      /\ Size(info.will_topic) \in Nat
  BY ConnectTypes, LenProperties DEF Size
<1>2. /\ 0 + 9 = 9 /\ 0 + 10 = 10 /\ 0 + 12 = 12 /\ 0 + WillAt(info) = WillAt(info)
      /\ 0 + UserAt(info) = UserAt(info) /\ 0 + PassAt(info) = PassAt(info)
      /\ 0 + (WillAt(info) + Size(info.will_topic)) = WillAt(info) + Size(info.will_topic)
  BY <1>1
<1>3. \A pos, s : Holds(body, pos, s) => Holds(b, h + pos, s)
  BY HoldsPart
<1> QED
  BY <1>2, <1>3, Zenon DEF ConnectHolds

\* A broker that reads a string there gets the string and its end.
LEMMA StringRead ==
  ASSUME NEW b, NEW pos \in Nat, NEW s \in Seq(Nat), Holds(b, pos, StringOf(s))
  PROVE  StringAt(b, pos) = s /\ EndOf(b, pos) = pos + Size(s)
<1>1. Holds(b, pos + 2, s) /\ IdAt(b, pos) = Len(s) /\ Len(s) \in Nat
  BY StringHeld, LenProperties
<1>2. SubSeq(b, (pos + 2) + 1, (pos + 2) + Len(s)) = s
  BY <1>1, HoldsSubSeq
<1>3. (pos + 2) + 1 = pos + 3 /\ pos + 2 + Len(s) = pos + (2 + Len(s))
  BY <1>1
<1>4. StringAt(b, pos) = s
  BY <1>1, <1>2, <1>3, Zenon DEF StringAt
<1> QED
  BY <1>1, <1>3, <1>4, Zenon DEF EndOf, Size

\* A single byte is read where it is.
LEMMA ByteRead ==
  ASSUME NEW b, NEW pos \in Nat, NEW x \in Nat, Holds(b, pos, <<x>>)
  PROVE  ByteAt(b, pos) = x
<1> DEFINE one == <<x>>
<1>1. Len(one) = 1 /\ one[1] = x
  OBVIOUS
<1>2. \A j \in 1 .. Len(one) : b[pos + j] = one[j]
  BY DEF Holds
<1> HIDE DEF one
<1>3. b[pos + 1] = x
  BY <1>1, <1>2
<1> QED
  BY <1>3 DEF ByteAt

\* What is read out of a CONNECT packet.
ConnectReadAs(p, info) ==
  LET h     == HeaderLen(p)
      Has(bit) == (ByteAt(p, h + 9) \div bit) % 2 = 1
      will  == EndOf(p, h + 12)
      user  == IF Has(4) THEN EndOf(p, EndOf(p, will)) ELSE will
      pass  == IF Has(128) THEN EndOf(p, user) ELSE user
      end   == IF Has(64) THEN EndOf(p, pass) ELSE pass
      willed == info.will_topic # <<>>
  IN /\ mqtt_get_type(p) = CONNECT /\ mqtt_get_total_length(p) = Len(p)
     /\ IdAt(p, h + 10) = info.keepalive
     /\ StringAt(p, h + 12) = info.client_id
     /\ Has(2) = info.clean_session
     /\ Has(4) = willed
     /\ Has(4) => /\ StringAt(p, will) = info.will_topic
                  /\ StringAt(p, EndOf(p, will)) = info.will_message
                  /\ (ByteAt(p, h + 9) \div 8) % 4 = info.will_qos
                  /\ Has(32) = info.will_retain
     /\ Has(128) = (info.username # <<>>)
     /\ Has(128) => StringAt(p, user) = info.username
     /\ Has(64) = (info.password # <<>>)
     /\ Has(64) => StringAt(p, pass) = info.password
     /\ end = Len(p)

\* A packet with all parts at their places is read as what it was made of.
LEMMA ConnectHoldsRead ==
  ASSUME NEW info \in ConnectInputType, NEW p, mqtt_get_type(p) = CONNECT,
         mqtt_get_total_length(p) = Len(p), NEW h \in Nat, HeaderLen(p) = h,
         ConnectHolds(p, h, info), Len(p) = h + ConnectEnd(info)
  PROVE  ConnectReadAs(p, info)
<1> DEFINE flags == ConnectFlags(info)
           Has(bit) == (flags \div bit) % 2 = 1
           w == info.will_topic # <<>>
           u == info.username # <<>>
           d == info.password # <<>>
           will == h + WillAt(info)
           message == h + (WillAt(info) + Size(info.will_topic))
           user == h + UserAt(info)
           pass == h + PassAt(info)
<1>1. /\ info.client_id \in Seq(Nat) /\ info.will_topic \in Seq(Nat)
      /\ info.will_message \in Seq(Nat) /\ info.username \in Seq(Nat)
      /\ info.password \in Seq(Nat) /\ info.keepalive \in Nat /\ flags \in Nat
      /\ WillAt(info) \in Nat /\ UserAt(info) \in Nat /\ PassAt(info) \in Nat
      /\ ConnectEnd(info) \in Nat
  BY ConnectTypes
<1>2. /\ info.clean_session \in BOOLEAN /\ info.will_retain \in BOOLEAN
  BY DEF ConnectInputType
<1>3. FlagsSay(flags, info.clean_session, w, info.will_retain, u, d, info.will_qos)
  BY ConnectFlagsSay
<1>4. /\ Has(2) <=> info.clean_session
      /\ Has(4) <=> w
      /\ w => (flags \div 8) % 4 = info.will_qos /\ (Has(32) <=> info.will_retain)
      /\ Has(128) <=> u
      /\ Has(64) <=> d
  BY <1>3, Zenon DEF FlagsSay, Bit
<1>5. Size(info.will_topic) \in Nat /\ Size(info.will_message) \in Nat /\ Size(info.client_id) \in Nat
      /\ Size(info.username) \in Nat /\ Size(info.password) \in Nat
  <2>1. \A s \in Seq(Nat) : Size(s) \in Nat
    BY LenProperties DEF Size
  <2> QED
    BY <1>1, <2>1
<1>6. will \in Nat /\ message \in Nat /\ user \in Nat /\ pass \in Nat /\ h + 12 \in Nat
      /\ h + 9 \in Nat /\ h + 10 \in Nat
  <2>1. \A x \in Nat : h + x \in Nat
    OBVIOUS
  <2>2. WillAt(info) + Size(info.will_topic) \in Nat
    <3>1. \A x, y \in Nat : x + y \in Nat
      OBVIOUS
    <3>2. WillAt(info) \in Nat /\ Size(info.will_topic) \in Nat
      BY <1>1, <1>5
    <3> QED
      BY <3>1, <3>2, Zenon
  <2> QED
    BY <1>1, <2>1, <2>2
<1>7. ByteAt(p, h + 9) = flags
  BY <1>1, <1>6, ByteRead DEF ConnectHolds
<1>8. IdAt(p, h + 10) = info.keepalive
  BY <1>1, <1>6, HoldsId DEF ConnectHolds
<1> HIDE DEF flags
<1>9. StringAt(p, h + 12) = info.client_id /\ EndOf(p, h + 12) = will
  <2>1. StringAt(p, h + 12) = info.client_id /\ EndOf(p, h + 12) = (h + 12) + Size(info.client_id)
    <3>1. Holds(p, h + 12, StringOf(info.client_id))
      BY DEF ConnectHolds
    <3> QED
      BY <1>1, <1>6, <3>1, StringRead
  <2>2. (h + 12) + Size(info.client_id) = will
    BY <1>5 DEF WillAt
  <2> QED
    BY <2>1, <2>2
<1>10. w => /\ StringAt(p, will) = info.will_topic /\ EndOf(p, will) = message
            /\ StringAt(p, message) = info.will_message /\ EndOf(p, message) = user
  <2> SUFFICES ASSUME w
               PROVE  /\ StringAt(p, will) = info.will_topic /\ EndOf(p, will) = message
                      /\ StringAt(p, message) = info.will_message /\ EndOf(p, message) = user
    OBVIOUS
  <2>1. Holds(p, will, StringOf(info.will_topic)) /\ Holds(p, message, StringOf(info.will_message))
    BY DEF ConnectHolds
  <2>2. /\ StringAt(p, will) = info.will_topic /\ EndOf(p, will) = will + Size(info.will_topic)
        /\ StringAt(p, message) = info.will_message
        /\ EndOf(p, message) = message + Size(info.will_message)
    BY <1>1, <1>6, <2>1, StringRead, ZenonT(40)
  <2>3. will + Size(info.will_topic) = message
    BY <1>1, <1>5
  <2>4. message + Size(info.will_message) = user
    <3>1. UserAt(info) = WillAt(info) + Size(info.will_topic) + Size(info.will_message)
      BY DEF UserAt, SizeIf
    <3> QED
      BY <1>1, <1>5, <3>1
  <2> QED
    BY <2>2, <2>3, <2>4
<1>11. ~w => user = will
  <2>1. ~w => UserAt(info) = WillAt(info) + 0 + 0
    BY DEF UserAt, SizeIf
  <2> QED
    BY <1>1, <2>1
<1>12. u => StringAt(p, user) = info.username /\ EndOf(p, user) = pass
  <2> SUFFICES ASSUME u PROVE StringAt(p, user) = info.username /\ EndOf(p, user) = pass
    OBVIOUS
  <2>1. Holds(p, user, StringOf(info.username))
    BY DEF ConnectHolds
  <2>2. StringAt(p, user) = info.username /\ EndOf(p, user) = user + Size(info.username)
    BY <1>1, <1>6, <2>1, StringRead
  <2>3. user + Size(info.username) = pass
    <3>1. PassAt(info) = UserAt(info) + Size(info.username)
      BY DEF PassAt, SizeIf
    <3> QED
      BY <1>1, <1>5, <3>1
  <2> QED
    BY <2>2, <2>3
<1>13. ~u => pass = user
  <2>1. ~u => PassAt(info) = UserAt(info) + 0
    BY DEF PassAt, SizeIf
  <2> QED
    BY <1>1, <2>1
<1>14. d => StringAt(p, pass) = info.password /\ EndOf(p, pass) = Len(p)
  <2> SUFFICES ASSUME d PROVE StringAt(p, pass) = info.password /\ EndOf(p, pass) = Len(p)
    OBVIOUS
  <2>1. Holds(p, pass, StringOf(info.password))
    BY DEF ConnectHolds
  <2>2. StringAt(p, pass) = info.password /\ EndOf(p, pass) = pass + Size(info.password)
    BY <1>1, <1>6, <2>1, StringRead
  <2>3. pass + Size(info.password) = h + ConnectEnd(info)
    <3>1. ConnectEnd(info) = PassAt(info) + Size(info.password)
      BY DEF ConnectEnd, SizeIf
    <3> QED
      BY <1>1, <1>5, <3>1
  <2> QED
    BY <2>2, <2>3
<1>15. ~d => pass = Len(p)
  <2>1. ~d => ConnectEnd(info) = PassAt(info) + 0
    BY DEF ConnectEnd, SizeIf
  <2> QED
    BY <1>1, <2>1
<1> DEFINE has(bit) == (ByteAt(p, h + 9) \div bit) % 2 = 1
           user_ == IF has(4) THEN EndOf(p, EndOf(p, EndOf(p, h + 12))) ELSE EndOf(p, h + 12)
           pass_ == IF has(128) THEN EndOf(p, user_) ELSE user_
           end_ == IF has(64) THEN EndOf(p, pass_) ELSE pass_
<1>16. /\ has(2) <=> info.clean_session
       /\ has(4) <=> w
       /\ w => (ByteAt(p, h + 9) \div 8) % 4 = info.will_qos /\ (has(32) <=> info.will_retain)
       /\ has(128) <=> u
       /\ has(64) <=> d
  BY <1>4, <1>7, Zenon
<1> HIDE DEF will, message, user, pass
<1>17. user_ = user
  BY <1>9, <1>10, <1>11, <1>16
<1> HIDE DEF user_
<1>18. pass_ = pass
  BY <1>12, <1>13, <1>16, <1>17
<1> HIDE DEF pass_
<1>19. end_ = Len(p)
  BY <1>14, <1>15, <1>16, <1>18
<1>20. /\ has(2) = info.clean_session /\ has(4) = w /\ (w => has(32) = info.will_retain)
       /\ has(128) = u /\ has(64) = d
  BY <1>2, <1>16
<1>21. /\ StringAt(p, h + 12) = info.client_id
       /\ has(4) => /\ StringAt(p, EndOf(p, h + 12)) = info.will_topic
                    /\ StringAt(p, EndOf(p, EndOf(p, h + 12))) = info.will_message
                    /\ (ByteAt(p, h + 9) \div 8) % 4 = info.will_qos
                    /\ has(32) = info.will_retain
  BY <1>9, <1>10, <1>16, <1>20
<1>22. (has(128) => StringAt(p, user_) = info.username) /\ (has(64) => StringAt(p, pass_) = info.password)
  BY <1>12, <1>14, <1>16, <1>17, <1>18
<1> QED
  BY <1>8, <1>19, <1>20, <1>21, <1>22, Zenon DEF ConnectReadAs, user_, pass_

\* A CONNECT packet is built exactly if it fits, and then is read as what it was made of.
LEMMA ConnectWhole ==
  ASSUME NEW info \in ConnectInputType
  PROVE  /\ mqtt_msg_connect(info) # <<>>
              <=> info.client_id # <<>> /\ 3 + ConnectEnd(info) <= BufferLength
         /\ mqtt_msg_connect(info) # <<>> => ConnectReadAs(mqtt_msg_connect(info), info)
<1> DEFINE p == mqtt_msg_connect(info)
           body == ConnectBody(info)
           h == HeaderOf(body)
<1>1. CASE info.client_id = <<>>
  BY <1>1 DEF mqtt_msg_connect
<1>2. CASE info.client_id # <<>>
  <2>1. p = Fini(First(CONNECT, 0, 0), body)
    BY <1>2, ConnectBuilt
  <2>2. body \in Seq(Nat) /\ Len(body) = ConnectEnd(info) /\ ConnectHolds(body, 0, info)
    BY ConnectBodyHolds
  <2>3. ConnectEnd(info) \in Nat /\ h \in {2, 3}
    BY ConnectTypes DEF HeaderOf
  <2>4. CONNECT \in 1 .. 14 /\ 0 \in 0 .. 2 /\ 0 \in 0 .. 1
    BY DEF CONNECT
  <2>5. First(CONNECT, 0, 0) \in Nat
    BY DEF CONNECT, First
  <2> HIDE DEF p, body, h
  <2>6. CASE 3 + ConnectEnd(info) > BufferLength
    <3>1. p = <<>> /\ ~(3 + ConnectEnd(info) <= BufferLength)
      BY <2>1, <2>2, <2>3, <2>6, BufferBounds DEF Fini
    <3> QED
      BY <3>1 DEF p
  <2>7. CASE 3 + ConnectEnd(info) <= BufferLength
    <3>1. p = Headed(First(CONNECT, 0, 0), body) /\ Len(body) <= 127 + 128 * 127
      BY <2>1, <2>2, <2>3, <2>7, BufferBounds DEF Fini
    <3>2. p # <<>>
      BY <2>2, <2>3, <2>5, <3>1, HeadedIs, HeadedNonEmpty
    <3>3. BodyReadAs(p, CONNECT, body, h)
      BY <2>1, <2>2, <2>4, <3>2, BodyRead DEF h
    <3>4. /\ mqtt_get_type(p) = CONNECT /\ mqtt_get_total_length(p) = Len(p)
          /\ Len(p) = h + ConnectEnd(info) /\ HeaderLen(p) = h /\ Holds(p, h, body)
      BY <2>2, <3>3 DEF BodyReadAs
    <3>5. ConnectHolds(p, h, info) /\ h \in Nat
      BY <2>2, <2>3, <3>4, HoldsBehind
    <3>6. ConnectReadAs(p, info)
      BY <3>4, <3>5, ConnectHoldsRead
    <3> QED
      BY <1>2, <2>7, <3>2, <3>6 DEF p
  <2> QED
    BY <2>3, <2>6, <2>7, BufferBounds
<1> QED
  BY <1>1, <1>2

\* ConnectReadsBack, of every input.
LEMMA ConnectRead ==
  ASSUME input.kind = "connect" => input.of \in ConnectInputType
  PROVE  ConnectReadsBack
<1> SUFFICES ASSUME input.kind = "connect" PROVE ConnectReadsBack
  BY DEF ConnectReadsBack
<1> DEFINE info == input.of
           p == mqtt_msg_connect(info)
           willed == info.will_topic # <<>>
           Fits == 3 + 12 + Size(info.client_id)
                     + SizeIf(willed, info.will_topic) + SizeIf(willed, info.will_message)
                     + SizeIf(info.username # <<>>, info.username)
                     + SizeIf(info.password # <<>>, info.password) <= BufferLength
<1>0. info \in ConnectInputType
  OBVIOUS
<1> HIDE DEF info
<1>1. /\ p # <<>> <=> info.client_id # <<>> /\ 3 + ConnectEnd(info) <= BufferLength
      /\ p # <<>> => ConnectReadAs(p, info)
  BY <1>0, ConnectWhole
<1>2. 3 + ConnectEnd(info)
        = 3 + 12 + Size(info.client_id)
            + SizeIf(willed, info.will_topic) + SizeIf(willed, info.will_message)
            + SizeIf(info.username # <<>>, info.username)
            + SizeIf(info.password # <<>>, info.password)
  <2> DEFINE a == Size(info.client_id)
             b == SizeIf(willed, info.will_topic)
             c == SizeIf(willed, info.will_message)
             d == SizeIf(info.username # <<>>, info.username)
             e == SizeIf(info.password # <<>>, info.password)
  <2>1. ConnectEnd(info) = 12 + a + b + c + d + e
    BY DEF ConnectEnd, PassAt, UserAt, WillAt
  <2>2. a \in Nat /\ b \in Nat /\ c \in Nat /\ d \in Nat /\ e \in Nat
    <3>1. \A s \in Seq(Nat) : Size(s) \in Nat
      BY LenProperties DEF Size
    <3>2. \A x : \A s \in Seq(Nat) : SizeIf(x, s) \in Nat
      BY <3>1 DEF SizeIf
    <3> QED
      BY <1>0, <3>1, <3>2, ConnectTypes
  <2> HIDE DEF a, b, c, d, e
  <2>3. 3 + ConnectEnd(info) = 3 + 12 + a + b + c + d + e
    BY <2>1, <2>2
  <2> QED
    BY <2>3 DEF a, b, c, d, e
<1> HIDE DEF p
<1>3. p # <<>> <=> info.client_id # <<>> /\ Fits
  BY <1>1, <1>2
<1> QED
  BY <1>1, <1>3, Zenon DEF ConnectReadsBack, ConnectReadAs, SizeIf, info, p

-----------------------------------------------------------------------------
(* Induction over natural numbers, said of sets *)

\* The order of the natural numbers as a set of pairs.
LessThan == {p \in Nat \X Nat : p[1] < p[2]}

\* It is well founded.
LEMMA NatWellFounded == IsWellFoundedOn(LessThan, Nat)
<1>1. OpToRel(<, Nat) = LessThan
  BY Zenon DEF OpToRel, LessThan
<1> QED
  BY <1>1, NatLessThanWellFounded, Zenon

\* A set of natural numbers that is not empty has a least element.
LEMMA HasLeast ==
  ASSUME NEW T \in SUBSET Nat, T # {}
  PROVE  \E x \in T : \A y \in T : x <= y
<1>1. PICK x \in T : \A y \in T : ~(<<y, x>> \in LessThan)
  BY NatWellFounded, WFMin
<1>2. \A y \in T : y \in Nat /\ <<y, x>> \in Nat \X Nat
  OBVIOUS
<1>3. \A y \in T : ~(y < x)
  BY <1>1, <1>2 DEF LessThan
<1> QED
  BY <1>2, <1>3

\* A set that has 0 and the successor of each of its members has all of them.
LEMMA SetInduction ==
  ASSUME NEW T \in SUBSET Nat, 0 \in T, \A n \in T : n + 1 \in T
  PROVE  T = Nat
<1> SUFFICES ASSUME T # Nat PROVE FALSE
  OBVIOUS
<1>1. PICK x \in Nat \ T : \A y \in Nat \ T : x <= y
  BY HasLeast
<1>2. x # 0 /\ x - 1 \in Nat /\ x - 1 \notin Nat \ T
  BY <1>1
<1> QED
  BY <1>1, <1>2

\* Induction up to a bound.
LEMMA BoundedInduction ==
  ASSUME NEW N \in Nat, NEW T, 0 \in T, \A n \in 0 .. N - 1 : n \in T => n + 1 \in T
  PROVE  \A n \in 0 .. N : n \in T
<1> DEFINE U == {n \in Nat : n <= N => n \in T}
<1>1. 0 \in U /\ \A n \in U : n + 1 \in U
  OBVIOUS
<1>2. U = Nat
  BY <1>1, SetInduction
<1> QED
  BY <1>2

-----------------------------------------------------------------------------
(* The lines, bit by bit *)

\* The lines when no device has them: clock and data as the driver left them, what
\* the I2C devices make of them, and how far an SHT1x takes it for a beginning.
Line(clock, master, next, byte, heard, stage) ==
  [wires |-> [clock |-> clock, master |-> master, slave |-> 1],
   i2c   |-> Device(next, byte, heard),
   sht   |-> [stage |-> stage, starts |-> 0]]

\* A device that pulls the line or not.
Pulled(clock, slave, next, byte, heard, stage) ==
  [wires |-> [clock |-> clock, master |-> 1, slave |-> slave],
   i2c   |-> Device(next, byte, heard),
   sht   |-> [stage |-> stage, starts |-> 0]]

\* Both lines high, no transaction.
Idle(heard) == Line(1, 1, FREE, 0, heard, 0)

\* A transaction has just begun.
Begun(heard) == Line(0, 0, 1, 0, heard, 2)

\* Between two bytes of a transaction.
Between(master, heard) == Line(0, master, 1, 0, heard, 0)

\* What is written to the lines, and what a device does to them.
Bits == {0, 1}

Wires(clock, master, slave) == [clock |-> clock, master |-> master, slave |-> slave]

\* One line changes at a time.
LEMMA WiresMoved ==
  ASSUME NEW l, NEW c, NEW m, NEW s, l.wires = Wires(c, m, s), NEW x
  PROVE  /\ C0(l) = Moved(l, Wires(0, m, s)) /\ C1(l) = Moved(l, Wires(1, m, s))
         /\ Data(l, x) = Moved(l, Wires(c, x, s))
         /\ Slave(l, x) = Moved(l, Wires(c, m, x))
<1>1. [l.wires EXCEPT !.clock = 0] = Wires(0, m, s)
  BY DEF Wires
<1>2. [l.wires EXCEPT !.clock = 1] = Wires(1, m, s)
  BY DEF Wires
<1>3. [l.wires EXCEPT !.master = x] = Wires(c, x, s)
  BY DEF Wires
<1>4. [l.wires EXCEPT !.slave = x] = Wires(c, m, x)
  BY DEF Wires
<1>5. C0(l) = Moved(l, Wires(0, m, s)) /\ C1(l) = Moved(l, Wires(1, m, s))
  BY <1>1, <1>2, Zenon DEF C0, C1
<1>6. Data(l, x) = Moved(l, Wires(c, x, s))
  BY <1>3, Zenon DEF Data
<1>7. Slave(l, x) = Moved(l, Wires(c, m, x))
  BY <1>4, Zenon DEF Slave
<1> QED
  BY <1>5, <1>6, <1>7

\* The data line is low if one pulls it.
LEMMA Levels ==
  ASSUME NEW c, NEW bit \in Bits
  PROVE  Level(Wires(c, bit, 1)) = bit /\ Level(Wires(c, 1, bit)) = bit
BY DEF Level, Wires, Bits

\* What happens on the lines.
LEMMA ClockEdges ==
  ASSUME NEW m, NEW s
  PROVE  /\ Edge(Wires(1, m, s), Wires(0, m, s)) = "down"
         /\ Edge(Wires(0, m, s), Wires(1, m, s)) = "up"
BY DEF Edge, Wires

\* While the clock is low.
LEMMA LowEdges ==
  ASSUME NEW m, NEW s, NEW m2, NEW s2
  PROVE  Edge(Wires(0, m, s), Wires(0, m2, s2)) =
           IF Level(Wires(0, m, s)) = Level(Wires(0, m2, s2)) THEN "none" ELSE "changes"
BY DEF Edge, Wires

\* While it is high.
LEMMA HighEdges ==
  /\ Edge(Wires(1, 1, 1), Wires(1, 1, 1)) = "none"
  /\ Edge(Wires(1, 1, 1), Wires(1, 0, 1)) = "falls"
  /\ Edge(Wires(1, 0, 1), Wires(1, 1, 1)) = "rises"
<1>1. Level(Wires(1, 1, 1)) = 1 /\ Level(Wires(1, 0, 1)) = 0
  BY DEF Level, Wires
<1>2. \A m : Wires(1, m, 1).clock = 1
  BY DEF Wires
<1> QED
  BY <1>1, <1>2 DEF Edge

\* How an SHT1x takes them.
LEMMA Stages ==
  ASSUME NEW st
  PROVE  /\ Stage(st, "none") = st /\ Stage(st, "changes") = 0 /\ Stage(st, "rises") = 0
         /\ Stage(st, "falls") = 1
         /\ Stage(1, "down") = 2 /\ (st # 1 => Stage(st, "down") = 0)
         /\ Stage(2, "up") = 3 /\ (st # 2 => Stage(st, "up") = 0)
BY DEF Stage

\* How an I2C device takes them.
LEMMA Hearings ==
  ASSUME NEW dev, NEW level
  PROVE  /\ I2cHears(dev, "none", level) = dev /\ I2cHears(dev, "changes", level) = dev
         /\ I2cHears(dev, "up", level) = dev
         /\ I2cHears(dev, "down", level) = FallingClock(dev, level)
         /\ I2cHears(dev, "falls", level) = Starts(dev)
         /\ I2cHears(dev, "rises", level) = Stops(dev)
BY DEF I2cHears

\* The lines and the devices on them.
On(w, dev, st) == [wires |-> w, i2c |-> dev, sht |-> [stage |-> st, starts |-> 0]]

\* Line and Pulled in these words.
LEMMA LinesOn ==
  ASSUME NEW c, NEW m, NEW n, NEW v, NEW h, NEW st
  PROVE  /\ Line(c, m, n, v, h, st) = On(Wires(c, m, 1), Device(n, v, h), st)
         /\ Pulled(c, m, n, v, h, st) = On(Wires(c, 1, m), Device(n, v, h), st)
BY DEF Line, Pulled, On, Wires

\* The lines move, and each device makes of it what the edge is to it.
LEMMA Moves ==
  ASSUME NEW v, NEW w, NEW dev, NEW st, Edge(v, w) # "rises" \/ st # 3
  PROVE  Moved(On(v, dev, st), w) =
           On(w, I2cHears(dev, Edge(v, w), Level(v)), Stage(st, Edge(v, w)))
<1> DEFINE edge == Edge(v, w)
<1>1. ShtHears([stage |-> st, starts |-> 0], edge) = [stage |-> Stage(st, edge), starts |-> 0]
  BY DEF ShtHears
<1>2. On(v, dev, st).wires = v /\ On(v, dev, st).i2c = dev
      /\ On(v, dev, st).sht = [stage |-> st, starts |-> 0]
  BY DEF On
<1> QED
  BY <1>1, <1>2, Zenon DEF Moved, Hears, On

\* The calls that move them.
LEMMA Calls ==
  ASSUME NEW c, NEW m, NEW s, NEW dev, NEW st, NEW x
  PROVE  LET l == On(Wires(c, m, s), dev, st)
         IN /\ C0(l) = Moved(l, Wires(0, m, s)) /\ C1(l) = Moved(l, Wires(1, m, s))
            /\ Data(l, x) = Moved(l, Wires(c, x, s))
            /\ Slave(l, x) = Moved(l, Wires(c, m, x))
<1>1. \A k : k.wires = Wires(c, m, s) =>
             /\ C0(k) = Moved(k, Wires(0, m, s)) /\ C1(k) = Moved(k, Wires(1, m, s))
             /\ Data(k, x) = Moved(k, Wires(c, x, s))
             /\ Slave(k, x) = Moved(k, Wires(c, m, x))
  BY WiresMoved
<1>2. On(Wires(c, m, s), dev, st).wires = Wires(c, m, s)
  BY DEF On
<1> QED
  BY <1>1, <1>2, Zenon

\* A rising clock is heard by no I2C device; an SHT1x may take it for stage 3.
LEMMA ClockUp ==
  ASSUME NEW m \in {0, 1}, NEW n, NEW v, NEW h, NEW st \in {0, 2}
  PROVE  C1(Line(0, m, n, v, h, st)) = Line(1, m, n, v, h, IF st = 2 THEN 3 ELSE 0)
<1>1. C1(Line(0, m, n, v, h, st)) = On(Wires(1, m, 1), Device(n, v, h), Stage(st, "up"))
  BY LinesOn, Calls, Moves, ClockEdges, Hearings
<1> QED
  BY <1>1, LinesOn, Stages

\* What the arms of FallingClock come to.
LEMMA Falls ==
  ASSUME NEW v, NEW h, NEW m
  PROVE  /\ FallingClock(Device(FREE, v, h), m) = Device(FREE, v, h)
         /\ FallingClock(Device(0, v, h), m) = Device(1, 0, h)
         /\ \A n \in 1 .. 8 : FallingClock(Device(n, v, h), m) = Device(n + 1, 2 * v + m, h)
         /\ FallingClock(Device(9, v, h), m) = Device(1, 0, Append(h, v))
BY DEF FallingClock, Device, FREE

\* A falling clock ends a bit.
LEMMA ClockDown ==
  ASSUME NEW m \in {0, 1}, NEW n, NEW v, NEW h, NEW st \in {0, 3}, NEW n2, NEW v2, NEW h2,
         FallingClock(Device(n, v, h), m) = Device(n2, v2, h2)
  PROVE  C0(Line(1, m, n, v, h, st)) = Line(0, m, n2, v2, h2, 0)
<1>1. Level(Wires(1, m, 1)) = m
  BY Levels DEF Bits
<1>2. C0(Line(1, m, n, v, h, st)) = On(Wires(0, m, 1), Device(n2, v2, h2), Stage(st, "down"))
  BY <1>1, LinesOn, Calls, Moves, ClockEdges, Hearings
<1>3. Stage(st, "down") = 0
  BY Stages
<1> QED
  BY <1>2, <1>3, LinesOn

\* While the clock is low the driver may set the data line as it likes.
LEMMA DataDriven ==
  ASSUME NEW m \in {0, 1}, NEW n, NEW v, NEW h, NEW st \in {0, 2}, NEW bit \in {0, 1}
  PROVE  Data(Line(0, m, n, v, h, st), bit) = Line(0, bit, n, v, h, IF m = bit THEN st ELSE 0)
<1> DEFINE edge == IF m = bit THEN "none" ELSE "changes"
<1>1. Edge(Wires(0, m, 1), Wires(0, bit, 1)) = edge
  BY Levels, LowEdges DEF Bits
<1>2. /\ I2cHears(Device(n, v, h), edge, Level(Wires(0, m, 1))) = Device(n, v, h)
      /\ Stage(st, edge) = IF m = bit THEN st ELSE 0
      /\ edge # "rises"
  BY Hearings, Stages
<1> HIDE DEF edge
<1> QED
  BY <1>1, <1>2, LinesOn, Calls, Moves

\* A bit that the driver clocks out: it is what a device hears, as the data line was
\* while the clock was high.
LEMMA MasterBitHeard ==
  ASSUME NEW m \in Bits, NEW n, NEW v, NEW h, NEW st \in {0, 2}, NEW bit \in Bits,
         NEW n2, NEW v2, NEW h2, FallingClock(Device(n, v, h), bit) = Device(n2, v2, h2)
  PROVE  MasterBit(Line(0, m, n, v, h, st), bit) = Line(0, bit, n2, v2, h2, 0)
<1>1. PICK s \in {0, 2} : Data(Line(0, m, n, v, h, st), bit) = Line(0, bit, n, v, h, s)
  BY DataDriven DEF Bits
<1>2. PICK t \in {0, 3} : C1(Line(0, bit, n, v, h, s)) = Line(1, bit, n, v, h, t)
  BY ClockUp DEF Bits
<1>3. C0(Line(1, bit, n, v, h, t)) = Line(0, bit, n2, v2, h2, 0)
  BY ClockDown DEF Bits
<1> QED
  BY <1>1, <1>2, <1>3 DEF MasterBit, Pulse

\* A device that lets go of the line while the clock is low.
LEMMA LetGo ==
  ASSUME NEW n, NEW v, NEW h, NEW bit \in Bits
  PROVE  S1(Pulled(0, bit, n, v, h, 0)) = Line(0, 1, n, v, h, 0)
<1> DEFINE edge == Edge(Wires(0, 1, bit), Wires(0, 1, 1))
<1>1. edge = "none" \/ edge = "changes"
  BY LowEdges
<1>2. /\ I2cHears(Device(n, v, h), edge, Level(Wires(0, 1, bit))) = Device(n, v, h)
      /\ Stage(0, edge) = 0
      /\ edge # "rises"
  BY <1>1, Hearings, Stages
<1> QED
  BY <1>2, LinesOn, Calls, Moves DEF S1

\* A device that pulls the line low while the clock is low.
LEMMA PulledDown ==
  ASSUME NEW n, NEW v, NEW h, NEW st \in {0, 2}, NEW bit \in Bits
  PROVE  \E s \in {0, 2} : Slave(Line(0, 1, n, v, h, st), bit) = Pulled(0, bit, n, v, h, s)
<1> DEFINE edge == Edge(Wires(0, 1, 1), Wires(0, 1, bit))
<1>1. edge = "none" \/ edge = "changes"
  BY LowEdges
<1>2. /\ I2cHears(Device(n, v, h), edge, Level(Wires(0, 1, 1))) = Device(n, v, h)
      /\ Stage(st, edge) \in {0, 2}
      /\ edge # "rises"
  BY <1>1, Hearings, Stages
<1>3. Slave(Line(0, 1, n, v, h, st), bit) = Pulled(0, bit, n, v, h, Stage(st, edge))
  BY <1>2, LinesOn, Calls, Moves
<1> QED
  BY <1>2, <1>3

\* The clock rises while a device has the line.
LEMMA PulledClockUp ==
  ASSUME NEW n, NEW v, NEW h, NEW st \in {0, 2}, NEW bit \in Bits
  PROVE  \E s \in {0, 3} : C1(Pulled(0, bit, n, v, h, st)) = Pulled(1, bit, n, v, h, s)
<1>1. C1(Pulled(0, bit, n, v, h, st)) = Pulled(1, bit, n, v, h, Stage(st, "up"))
  BY LinesOn, Calls, Moves, ClockEdges, Hearings
<1>2. Stage(st, "up") \in {0, 3}
  BY Stages
<1> QED
  BY <1>1, <1>2

\* The clock falls while a device has the line: the bit is the device's.
LEMMA PulledClockDown ==
  ASSUME NEW n, NEW v, NEW h, NEW st \in {0, 3}, NEW bit \in Bits,
         NEW n2, NEW v2, NEW h2, FallingClock(Device(n, v, h), bit) = Device(n2, v2, h2)
  PROVE  C0(Pulled(1, bit, n, v, h, st)) = Pulled(0, bit, n2, v2, h2, 0)
<1>1. Level(Wires(1, 1, bit)) = bit
  BY Levels
<1>2. C0(Pulled(1, bit, n, v, h, st)) = On(Wires(0, 1, bit), Device(n2, v2, h2), Stage(st, "down"))
  BY <1>1, LinesOn, Calls, Moves, ClockEdges, Hearings
<1>3. Stage(st, "down") = 0
  BY Stages
<1> QED
  BY <1>2, <1>3, LinesOn

\* A bit that a device sends.
LEMMA SlaveBitHeard ==
  ASSUME NEW m \in Bits, NEW n, NEW v, NEW h, NEW st \in {0, 2}, NEW bit \in Bits,
         NEW n2, NEW v2, NEW h2, FallingClock(Device(n, v, h), bit) = Device(n2, v2, h2)
  PROVE  SlaveBit(Line(0, m, n, v, h, st), bit) = Line(0, 1, n2, v2, h2, 0)
<1>1. PICK s \in {0, 2} : D1(Line(0, m, n, v, h, st)) = Line(0, 1, n, v, h, s)
  BY DataDriven DEF Bits, D1
<1>2. PICK t \in {0, 2} : Slave(Line(0, 1, n, v, h, s), bit) = Pulled(0, bit, n, v, h, t)
  BY PulledDown
<1>3. PICK u \in {0, 3} : C1(Pulled(0, bit, n, v, h, t)) = Pulled(1, bit, n, v, h, u)
  BY PulledClockUp
<1>4. C0(Pulled(1, bit, n, v, h, u)) = Pulled(0, bit, n2, v2, h2, 0)
  BY PulledClockDown
<1>5. S1(Pulled(0, bit, n2, v2, h2, 0)) = Line(0, 1, n2, v2, h2, 0)
  BY LetGo
<1> QED
  BY <1>1, <1>2, <1>3, <1>4, <1>5 DEF SlaveBit, Pulse

\* A byte, the highest bit first.
LEMMA BitsOfByte ==
  ASSUME NEW x \in 0 .. 255
  PROVE  /\ (x \div 128) % 2 = x \div 128
         /\ 2 * (x \div 128) + ((x \div 64) % 2) = x \div 64
         /\ 2 * (x \div 64) + ((x \div 32) % 2) = x \div 32
         /\ 2 * (x \div 32) + ((x \div 16) % 2) = x \div 16
         /\ 2 * (x \div 16) + ((x \div 8) % 2) = x \div 8
         /\ 2 * (x \div 8) + ((x \div 4) % 2) = x \div 4
         /\ 2 * (x \div 4) + ((x \div 2) % 2) = x \div 2
         /\ 2 * (x \div 2) + ((x \div 1) % 2) = x
         /\ \A w \in {1, 2, 4, 8, 16, 32, 64, 128} : (x \div w) % 2 \in Bits
BY DEF Bits

\* What a device makes of them; after the eighth it has the byte.
BitOf(x, w) == (x \div w) % 2

\* Eight bits make a byte.
LEMMA BitsFall ==
  ASSUME NEW x \in 0 .. 255, NEW h
  PROVE  /\ BitOf(x, 128) \in Bits
         /\ FallingClock(Device(1, 0, h), BitOf(x, 128)) = Device(2, x \div 128, h)
         /\ BitOf(x, 64) \in Bits
         /\ FallingClock(Device(2, x \div 128, h), BitOf(x, 64)) = Device(3, x \div 64, h)
         /\ BitOf(x, 32) \in Bits
         /\ FallingClock(Device(3, x \div 64, h), BitOf(x, 32)) = Device(4, x \div 32, h)
         /\ BitOf(x, 16) \in Bits
         /\ FallingClock(Device(4, x \div 32, h), BitOf(x, 16)) = Device(5, x \div 16, h)
         /\ BitOf(x, 8) \in Bits
         /\ FallingClock(Device(5, x \div 16, h), BitOf(x, 8)) = Device(6, x \div 8, h)
         /\ BitOf(x, 4) \in Bits
         /\ FallingClock(Device(6, x \div 8, h), BitOf(x, 4)) = Device(7, x \div 4, h)
         /\ BitOf(x, 2) \in Bits
         /\ FallingClock(Device(7, x \div 4, h), BitOf(x, 2)) = Device(8, x \div 2, h)
         /\ BitOf(x, 1) \in Bits
         /\ FallingClock(Device(8, x \div 2, h), BitOf(x, 1)) = Device(9, x, h)
<1>1. FallingClock(Device(1, 0, h), BitOf(x, 128)) = Device(2, x \div 128, h)
  <2>1. 2 * 0 + BitOf(x, 128) = x \div 128
    BY BitsOfByte DEF BitOf
  <2>2. FallingClock(Device(1, 0, h), BitOf(x, 128)) = Device(1 + 1, 2 * 0 + BitOf(x, 128), h)
    BY Falls
  <2> QED
    BY <2>1, <2>2
<1>2. FallingClock(Device(2, x \div 128, h), BitOf(x, 64)) = Device(3, x \div 64, h)
  <2>1. 2 * (x \div 128) + BitOf(x, 64) = x \div 64
    BY BitsOfByte DEF BitOf
  <2>2. FallingClock(Device(2, x \div 128, h), BitOf(x, 64)) = Device(2 + 1, 2 * (x \div 128) + BitOf(x, 64), h)
    BY Falls
  <2> QED
    BY <2>1, <2>2
<1>3. FallingClock(Device(3, x \div 64, h), BitOf(x, 32)) = Device(4, x \div 32, h)
  <2>1. 2 * (x \div 64) + BitOf(x, 32) = x \div 32
    BY BitsOfByte DEF BitOf
  <2>2. FallingClock(Device(3, x \div 64, h), BitOf(x, 32)) = Device(3 + 1, 2 * (x \div 64) + BitOf(x, 32), h)
    BY Falls
  <2> QED
    BY <2>1, <2>2
<1>4. FallingClock(Device(4, x \div 32, h), BitOf(x, 16)) = Device(5, x \div 16, h)
  <2>1. 2 * (x \div 32) + BitOf(x, 16) = x \div 16
    BY BitsOfByte DEF BitOf
  <2>2. FallingClock(Device(4, x \div 32, h), BitOf(x, 16)) = Device(4 + 1, 2 * (x \div 32) + BitOf(x, 16), h)
    BY Falls
  <2> QED
    BY <2>1, <2>2
<1>5. FallingClock(Device(5, x \div 16, h), BitOf(x, 8)) = Device(6, x \div 8, h)
  <2>1. 2 * (x \div 16) + BitOf(x, 8) = x \div 8
    BY BitsOfByte DEF BitOf
  <2>2. FallingClock(Device(5, x \div 16, h), BitOf(x, 8)) = Device(5 + 1, 2 * (x \div 16) + BitOf(x, 8), h)
    BY Falls
  <2> QED
    BY <2>1, <2>2
<1>6. FallingClock(Device(6, x \div 8, h), BitOf(x, 4)) = Device(7, x \div 4, h)
  <2>1. 2 * (x \div 8) + BitOf(x, 4) = x \div 4
    BY BitsOfByte DEF BitOf
  <2>2. FallingClock(Device(6, x \div 8, h), BitOf(x, 4)) = Device(6 + 1, 2 * (x \div 8) + BitOf(x, 4), h)
    BY Falls
  <2> QED
    BY <2>1, <2>2
<1>7. FallingClock(Device(7, x \div 4, h), BitOf(x, 2)) = Device(8, x \div 2, h)
  <2>1. 2 * (x \div 4) + BitOf(x, 2) = x \div 2
    BY BitsOfByte DEF BitOf
  <2>2. FallingClock(Device(7, x \div 4, h), BitOf(x, 2)) = Device(7 + 1, 2 * (x \div 4) + BitOf(x, 2), h)
    BY Falls
  <2> QED
    BY <2>1, <2>2
<1>8. FallingClock(Device(8, x \div 2, h), BitOf(x, 1)) = Device(9, x, h)
  <2>1. 2 * (x \div 2) + BitOf(x, 1) = x
    BY BitsOfByte DEF BitOf
  <2>2. FallingClock(Device(8, x \div 2, h), BitOf(x, 1)) = Device(8 + 1, 2 * (x \div 2) + BitOf(x, 1), h)
    BY Falls
  <2> QED
    BY <2>1, <2>2
<1>9. \A w \in {1, 2, 4, 8, 16, 32, 64, 128} : BitOf(x, w) \in Bits
  BY BitsOfByte DEF BitOf
<1> QED
  BY <1>1, <1>2, <1>3, <1>4, <1>5, <1>6, <1>7, <1>8, <1>9

\* Eight bits from the driver, or from a device.
LEMMA ByteWritten ==
  ASSUME NEW x \in 0 .. 255, NEW m \in Bits, NEW h, NEW st \in {0, 2}
  PROVE  ForBits(Line(0, m, 1, 0, h, st), x, MasterBit) = Line(0, BitOf(x, 1), 9, x, h, 0)
<1>0. 0 \in {0, 2} /\ 1 \in Bits
  BY DEF Bits
<1>1. MasterBit(Line(0, m, 1, 0, h, st), BitOf(x, 128)) = Line(0, BitOf(x, 128), 2, x \div 128, h, 0)
  <2>1. /\ BitOf(x, 128) \in Bits
        /\ FallingClock(Device(1, 0, h), BitOf(x, 128)) = Device(2, x \div 128, h)
    BY BitsFall, SMTT(30)
  <2> QED
    BY <1>0, <2>1, MasterBitHeard
<1>2. MasterBit(Line(0, BitOf(x, 128), 2, x \div 128, h, 0), BitOf(x, 64)) = Line(0, BitOf(x, 64), 3, x \div 64, h, 0)
  <2>1. /\ BitOf(x, 128) \in Bits /\ BitOf(x, 64) \in Bits
        /\ FallingClock(Device(2, x \div 128, h), BitOf(x, 64)) = Device(3, x \div 64, h)
    BY BitsFall, SMTT(30)
  <2> QED
    BY <1>0, <2>1, MasterBitHeard
<1>3. MasterBit(Line(0, BitOf(x, 64), 3, x \div 64, h, 0), BitOf(x, 32)) = Line(0, BitOf(x, 32), 4, x \div 32, h, 0)
  <2>1. /\ BitOf(x, 64) \in Bits /\ BitOf(x, 32) \in Bits
        /\ FallingClock(Device(3, x \div 64, h), BitOf(x, 32)) = Device(4, x \div 32, h)
    BY BitsFall, SMTT(30)
  <2> QED
    BY <1>0, <2>1, MasterBitHeard
<1>4. MasterBit(Line(0, BitOf(x, 32), 4, x \div 32, h, 0), BitOf(x, 16)) = Line(0, BitOf(x, 16), 5, x \div 16, h, 0)
  <2>1. /\ BitOf(x, 32) \in Bits /\ BitOf(x, 16) \in Bits
        /\ FallingClock(Device(4, x \div 32, h), BitOf(x, 16)) = Device(5, x \div 16, h)
    BY BitsFall, SMTT(30)
  <2> QED
    BY <1>0, <2>1, MasterBitHeard
<1>5. MasterBit(Line(0, BitOf(x, 16), 5, x \div 16, h, 0), BitOf(x, 8)) = Line(0, BitOf(x, 8), 6, x \div 8, h, 0)
  <2>1. /\ BitOf(x, 16) \in Bits /\ BitOf(x, 8) \in Bits
        /\ FallingClock(Device(5, x \div 16, h), BitOf(x, 8)) = Device(6, x \div 8, h)
    BY BitsFall, SMTT(30)
  <2> QED
    BY <1>0, <2>1, MasterBitHeard
<1>6. MasterBit(Line(0, BitOf(x, 8), 6, x \div 8, h, 0), BitOf(x, 4)) = Line(0, BitOf(x, 4), 7, x \div 4, h, 0)
  <2>1. /\ BitOf(x, 8) \in Bits /\ BitOf(x, 4) \in Bits
        /\ FallingClock(Device(6, x \div 8, h), BitOf(x, 4)) = Device(7, x \div 4, h)
    BY BitsFall, SMTT(30)
  <2> QED
    BY <1>0, <2>1, MasterBitHeard
<1>7. MasterBit(Line(0, BitOf(x, 4), 7, x \div 4, h, 0), BitOf(x, 2)) = Line(0, BitOf(x, 2), 8, x \div 2, h, 0)
  <2>1. /\ BitOf(x, 4) \in Bits /\ BitOf(x, 2) \in Bits
        /\ FallingClock(Device(7, x \div 4, h), BitOf(x, 2)) = Device(8, x \div 2, h)
    BY BitsFall, SMTT(30)
  <2> QED
    BY <1>0, <2>1, MasterBitHeard
<1>8. MasterBit(Line(0, BitOf(x, 2), 8, x \div 2, h, 0), BitOf(x, 1)) = Line(0, BitOf(x, 1), 9, x, h, 0)
  <2>1. /\ BitOf(x, 2) \in Bits /\ BitOf(x, 1) \in Bits
        /\ FallingClock(Device(8, x \div 2, h), BitOf(x, 1)) = Device(9, x, h)
    BY BitsFall, SMTT(30)
  <2> QED
    BY <1>0, <2>1, MasterBitHeard
<1> QED
  BY <1>1, <1>2, <1>3, <1>4, <1>5, <1>6, <1>7, <1>8 DEF ForBits, BitOf

\* The bits of a byte that a device sends.
LEMMA ByteSent ==
  ASSUME NEW x \in 0 .. 255, NEW m \in Bits, NEW h, NEW st \in {0, 2}
  PROVE  ForBits(Line(0, m, 1, 0, h, st), x, SlaveBit) = Line(0, 1, 9, x, h, 0)
<1>0. 0 \in {0, 2} /\ 1 \in Bits
  BY DEF Bits
<1>1. SlaveBit(Line(0, m, 1, 0, h, st), BitOf(x, 128)) = Line(0, 1, 2, x \div 128, h, 0)
  <2>1. /\ BitOf(x, 128) \in Bits
        /\ FallingClock(Device(1, 0, h), BitOf(x, 128)) = Device(2, x \div 128, h)
    BY BitsFall, SMTT(30)
  <2> QED
    BY <1>0, <2>1, SlaveBitHeard
<1>2. SlaveBit(Line(0, 1, 2, x \div 128, h, 0), BitOf(x, 64)) = Line(0, 1, 3, x \div 64, h, 0)
  <2>1. /\ BitOf(x, 64) \in Bits
        /\ FallingClock(Device(2, x \div 128, h), BitOf(x, 64)) = Device(3, x \div 64, h)
    BY BitsFall, SMTT(30)
  <2> QED
    BY <1>0, <2>1, SlaveBitHeard
<1>3. SlaveBit(Line(0, 1, 3, x \div 64, h, 0), BitOf(x, 32)) = Line(0, 1, 4, x \div 32, h, 0)
  <2>1. /\ BitOf(x, 32) \in Bits
        /\ FallingClock(Device(3, x \div 64, h), BitOf(x, 32)) = Device(4, x \div 32, h)
    BY BitsFall, SMTT(30)
  <2> QED
    BY <1>0, <2>1, SlaveBitHeard
<1>4. SlaveBit(Line(0, 1, 4, x \div 32, h, 0), BitOf(x, 16)) = Line(0, 1, 5, x \div 16, h, 0)
  <2>1. /\ BitOf(x, 16) \in Bits
        /\ FallingClock(Device(4, x \div 32, h), BitOf(x, 16)) = Device(5, x \div 16, h)
    BY BitsFall, SMTT(30)
  <2> QED
    BY <1>0, <2>1, SlaveBitHeard
<1>5. SlaveBit(Line(0, 1, 5, x \div 16, h, 0), BitOf(x, 8)) = Line(0, 1, 6, x \div 8, h, 0)
  <2>1. /\ BitOf(x, 8) \in Bits
        /\ FallingClock(Device(5, x \div 16, h), BitOf(x, 8)) = Device(6, x \div 8, h)
    BY BitsFall, SMTT(30)
  <2> QED
    BY <1>0, <2>1, SlaveBitHeard
<1>6. SlaveBit(Line(0, 1, 6, x \div 8, h, 0), BitOf(x, 4)) = Line(0, 1, 7, x \div 4, h, 0)
  <2>1. /\ BitOf(x, 4) \in Bits
        /\ FallingClock(Device(6, x \div 8, h), BitOf(x, 4)) = Device(7, x \div 4, h)
    BY BitsFall, SMTT(30)
  <2> QED
    BY <1>0, <2>1, SlaveBitHeard
<1>7. SlaveBit(Line(0, 1, 7, x \div 4, h, 0), BitOf(x, 2)) = Line(0, 1, 8, x \div 2, h, 0)
  <2>1. /\ BitOf(x, 2) \in Bits
        /\ FallingClock(Device(7, x \div 4, h), BitOf(x, 2)) = Device(8, x \div 2, h)
    BY BitsFall, SMTT(30)
  <2> QED
    BY <1>0, <2>1, SlaveBitHeard
<1>8. SlaveBit(Line(0, 1, 8, x \div 2, h, 0), BitOf(x, 1)) = Line(0, 1, 9, x, h, 0)
  <2>1. /\ BitOf(x, 1) \in Bits
        /\ FallingClock(Device(8, x \div 2, h), BitOf(x, 1)) = Device(9, x, h)
    BY BitsFall, SMTT(30)
  <2> QED
    BY <1>0, <2>1, SlaveBitHeard
<1> QED
  BY <1>1, <1>2, <1>3, <1>4, <1>5, <1>6, <1>7, <1>8 DEF ForBits, BitOf

-----------------------------------------------------------------------------
(* Where a transaction begins and ends *)

\* Writing to a line what it is already.
LEMMA NothingChanges ==
  ASSUME NEW n, NEW v, NEW h
  PROVE  /\ C1(Line(1, 1, n, v, h, 0)) = Line(1, 1, n, v, h, 0)
         /\ D1(Line(1, 1, n, v, h, 0)) = Line(1, 1, n, v, h, 0)
<1> DEFINE all == On(Wires(1, 1, 1), Device(n, v, h), 0)
<1>1. Moved(all, Wires(1, 1, 1)) = On(Wires(1, 1, 1), Device(n, v, h), Stage(0, "none"))
  BY Moves, HighEdges, Hearings
<1>2. Stage(0, "none") = 0
  BY Stages
<1> QED
  BY <1>1, <1>2, LinesOn, Calls DEF D1

\* The data line falls while the clock is high: a beginning.
LEMMA DataFalls ==
  ASSUME NEW n \in {FREE, 1}, NEW v, NEW h
  PROVE  D0(Line(1, 1, n, v, h, 0)) = Line(1, 0, 0, 0, Append(h, START), 1)
<1>1. Starts(Device(n, v, h)) = Device(0, 0, Append(h, START))
  BY DEF Starts, Mark, Device, FREE
<1>2. Moved(On(Wires(1, 1, 1), Device(n, v, h), 0), Wires(1, 0, 1)) =
        On(Wires(1, 0, 1), Device(0, 0, Append(h, START)), Stage(0, "falls"))
  BY <1>1, Moves, HighEdges, Hearings
<1>3. Stage(0, "falls") = 1
  BY Stages
<1> QED
  BY <1>2, <1>3, LinesOn, Calls DEF D0

\* The data line rises while the clock is high: an end.
LEMMA DataRises ==
  ASSUME NEW h
  PROVE  D1(Line(1, 0, 1, 0, h, 0)) = Line(1, 1, FREE, 0, Append(h, STOP), 0)
<1>1. Stops(Device(1, 0, h)) = Device(FREE, 0, Append(h, STOP))
  BY DEF Stops, Mark, Device, FREE
<1>2. Moved(On(Wires(1, 0, 1), Device(1, 0, h), 0), Wires(1, 1, 1)) =
        On(Wires(1, 1, 1), Device(FREE, 0, Append(h, STOP)), Stage(0, "rises"))
  BY <1>1, Moves, HighEdges, Hearings
<1>3. Stage(0, "rises") = 0
  BY Stages
<1> QED
  BY <1>2, <1>3, LinesOn, Calls DEF D1

\* From both lines high to the beginning of a transaction.
LEMMA BeginsHeard ==
  ASSUME NEW h
  PROVE  C0(Line(1, 0, 0, 0, h, 1)) = Line(0, 0, 1, 0, h, 2)
<1>1. FallingClock(Device(0, 0, h), Level(Wires(1, 0, 1))) = Device(1, 0, h)
  BY Falls
<1>2. C0(Line(1, 0, 0, 0, h, 1)) = On(Wires(0, 0, 1), Device(1, 0, h), Stage(1, "down"))
  BY <1>1, LinesOn, Calls, Moves, ClockEdges, Hearings
<1>3. Stage(1, "down") = 2
  BY Stages
<1> QED
  BY <1>2, <1>3, LinesOn

\* A start, from a free bus or between two bytes (i2cSendStart).
LEMMA StartHeard ==
  ASSUME NEW h, NEW l, l = Idle(h) \/ l = Between(1, h)
  PROVE  C0(D0(D1(C1(l)))) = Begun(Append(h, START))
<1>1. PICK n \in {FREE, 1} : C1(l) = Line(1, 1, n, 0, h, 0)
  <2>1. CASE l = Idle(h)
    BY <2>1, NothingChanges DEF Idle
  <2>2. CASE l = Between(1, h)
    BY <2>2, ClockUp DEF Between
  <2> QED
    BY <2>1, <2>2
<1>2. D1(Line(1, 1, n, 0, h, 0)) = Line(1, 1, n, 0, h, 0)
  BY NothingChanges
<1>3. D0(Line(1, 1, n, 0, h, 0)) = Line(1, 0, 0, 0, Append(h, START), 1)
  BY DataFalls
<1>4. C0(Line(1, 0, 0, 0, Append(h, START), 1)) = Line(0, 0, 1, 0, Append(h, START), 2)
  BY BeginsHeard
<1> QED
  BY <1>1, <1>2, <1>3, <1>4 DEF Begun

\* A stop (i2cSendStop).
LEMMA StopHeard ==
  ASSUME NEW h, NEW m \in Bits
  PROVE  D1(C1(D0(Between(m, h)))) = Idle(Append(h, STOP))
<1>1. D0(Line(0, m, 1, 0, h, 0)) = Line(0, 0, 1, 0, h, 0)
  BY DataDriven DEF Bits, D0
<1>2. C1(Line(0, 0, 1, 0, h, 0)) = Line(1, 0, 1, 0, h, 0)
  BY ClockUp
<1>3. D1(Line(1, 0, 1, 0, h, 0)) = Line(1, 1, FREE, 0, Append(h, STOP), 0)
  BY DataRises
<1> QED
  BY <1>1, <1>2, <1>3 DEF Between, Idle

\* The ninth bit, from the device or from the driver: the device has the byte.
LEMMA NinthBit ==
  ASSUME NEW v, NEW h, NEW m \in Bits, NEW bit \in Bits
  PROVE  /\ SlaveBit(Line(0, m, 9, v, h, 0), bit) = Between(1, Append(h, v))
         /\ MasterBit(Line(0, m, 9, v, h, 0), bit) = Between(bit, Append(h, v))
<1>1. FallingClock(Device(9, v, h), bit) = Device(1, 0, Append(h, v))
  BY Falls
<1> QED
  BY <1>1, SlaveBitHeard, MasterBitHeard DEF Between

-----------------------------------------------------------------------------
(* A session: what the low level functions make of it *)

Bytes == 0 .. 255

\* What a call changes of a session but the lines, and what another leaves alone.
LEMMA Fields ==
  ASSUME NEW b, NEW x, NEW l
  PROVE  /\ Drive(b, l).line = l /\ Drive(b, l).data = b.data /\ Drive(b, l).got = b.got
         /\ Drive(b, l).nacks = b.nacks /\ Drive(b, l).sent = b.sent /\ Drive(b, l).d = b.d
         /\ Got(b, x).line = b.line /\ Got(b, x).data = b.data /\ Got(b, x).got = x
         /\ Got(b, x).nacks = b.nacks /\ Got(b, x).sent = b.sent /\ Got(b, x).d = b.d
         /\ Put(b, x).line = b.line /\ Put(b, x).data = b.data /\ Put(b, x).got = b.got
         /\ Put(b, x).nacks = b.nacks /\ Put(b, x).sent = b.sent /\ Put(b, x).d = x
BY DEF Drive, Got, Put, Bus

\* What an answer changes of a session.
LEMMA AnsweredFields ==
  ASSUME NEW b
  PROVE  /\ Answered(b).line = b.line /\ Answered(b).data = b.data /\ Answered(b).d = b.d
         /\ Answered(b).nacks = b.nacks /\ Answered(b).sent = b.sent + 1
         /\ Answered(b).got = IF b.sent + 1 \in b.nacks THEN 1 ELSE 0
BY DEF Answered, Bus

\* i2cSendStart, from a free bus or in the middle of a transaction.
LEMMA SendStart ==
  ASSUME NEW b, NEW h, b.line = Idle(h) \/ b.line = Between(1, h)
  PROVE  i2cSendStart(b) = Drive(b, Begun(Append(h, START)))
BY StartHeard DEF i2cSendStart

\* i2cSendStop.
LEMMA SendStop ==
  ASSUME NEW b, NEW h, NEW m \in Bits, b.line = Between(m, h)
  PROVE  i2cSendStop(b) = Drive(b, Idle(Append(h, STOP)))
BY StopHeard DEF i2cSendStop

\* i2cWriteByte: the byte is heard, and its answer is the result.
LEMMA WriteByte ==
  ASSUME NEW b, NEW h, NEW x \in Bytes,
         b.line = Begun(h) \/ \E m \in Bits : b.line = Between(m, h)
  PROVE  i2cWriteByte(b, x) = Drive(Answered(b), Between(1, Append(h, x)))
<1>1. PICK m \in Bits, st \in {0, 2} : b.line = Line(0, m, 1, 0, h, st)
  BY DEF Begun, Between, Bits
<1>2. ForBits(b.line, x, MasterBit) = Line(0, BitOf(x, 1), 9, x, h, 0)
  BY <1>1, ByteWritten DEF Bytes
<1> DEFINE sent == Answered(Drive(b, Line(0, BitOf(x, 1), 9, x, h, 0)))
<1>3. sent.got \in Bits /\ sent.line = Line(0, BitOf(x, 1), 9, x, h, 0)
  <2>1. sent.got = 1 \/ sent.got = 0
    BY AnsweredFields
  <2>2. sent.line = Line(0, BitOf(x, 1), 9, x, h, 0)
    BY DEF Answered, Drive, Bus
  <2> QED
    BY <2>1, <2>2 DEF Bits
<1>4. SlaveBit(sent.line, sent.got) = Between(1, Append(h, x))
  <2>1. BitOf(x, 1) \in Bits
    BY BitsFall DEF Bytes
  <2> HIDE DEF sent
  <2> QED
    BY <1>3, <2>1, NinthBit
<1>5. Drive(sent, Between(1, Append(h, x))) = Drive(Answered(b), Between(1, Append(h, x)))
  BY DEF Drive, Answered, Bus
<1> QED
  BY <1>2, <1>4, <1>5 DEF i2cWriteByte, Acknowledged

\* What a device sends is a byte, also if it has none left.
LEMMA SendsByte ==
  ASSUME NEW b, b.data \in Seq(Bytes)
  PROVE  /\ Sends(b).got \in Bytes /\ Sends(b).data \in Seq(Bytes)
         /\ Sends(b).line = b.line /\ Sends(b).nacks = b.nacks /\ Sends(b).sent = b.sent
<1>1. CASE b.data = <<>>
  <2>1. Sends(b) = Got(b, 255)
    BY <1>1 DEF Sends
  <2>2. 255 \in Bytes
    BY DEF Bytes
  <2> QED
    BY <2>1, <2>2, Fields
<1>2. CASE b.data # <<>>
  BY <1>2 DEF Sends, Bus
<1> QED
  BY <1>1, <1>2

\* i2cReadByte: the devices hear what the driver reads.
LEMMA ReadByte ==
  ASSUME NEW b, NEW h, NEW m \in Bits, NEW ack \in BOOLEAN, b.line = Between(m, h),
         b.data \in Seq(Bytes)
  PROVE  i2cReadByte(b, ack) =
           Drive(Sends(b), Between(IF ack THEN 0 ELSE 1, Append(h, Sends(b).got)))
<1> DEFINE read == Sends(b)
           bit == IF ack THEN 0 ELSE 1
<1>1. read.got \in Bytes /\ read.line = Line(0, m, 1, 0, h, 0)
  BY SendsByte DEF Between
<1> HIDE DEF read
<1>2. ForBits(read.line, read.got, SlaveBit) = Line(0, 1, 9, read.got, h, 0)
  BY <1>1, ByteSent DEF Bytes
<1>3. bit \in Bits /\ 1 \in Bits
  BY DEF Bits
<1> HIDE DEF bit
<1>4. MasterBit(Line(0, 1, 9, read.got, h, 0), bit) = Between(bit, Append(h, read.got))
  BY <1>3, NinthBit
<1> QED
  BY <1>2, <1>4 DEF i2cReadByte, read, bit

-----------------------------------------------------------------------------
(* The states of a session that the calls lead from one to the other *)

\* What an I2C device may hear: whole bytes, and marks between them.
Heard == Seq({START, STOP} \cup Bytes)

Stocked(b) == b.data \in Seq(Bytes)

\* The bus is free.
Calm(b) == Stocked(b) /\ \E h \in Heard : b.line = Idle(h)

\* A transaction has begun with nothing in it; a byte has been written; a byte has been
\* written or read.
Open(b)  == Stocked(b) /\ \E h \in Heard : b.line = Begun(h)
Taken(b) == Stocked(b) /\ \E h \in Heard : b.line = Between(1, h)
Mid(b)   == Stocked(b) /\ \E h \in Heard, m \in Bits : b.line = Between(m, h)

\* What is heard goes on by a mark or a byte.
LEMMA HeardAppend ==
  ASSUME NEW h \in Heard
  PROVE  /\ Append(h, START) \in Heard /\ Append(h, STOP) \in Heard
         /\ \A x \in Bytes : Append(h, x) \in Heard
BY DEF Heard

\* After a byte written, as after any byte.
LEMMA TakenMid ==
  ASSUME NEW b, Taken(b)
  PROVE  Mid(b)
BY DEF Taken, Mid, Bits

\* What a call returns and what a driver stores is not on the bus.
LEMMA NotOnTheBus ==
  ASSUME NEW b, NEW x
  PROVE  /\ Calm(b) => Calm(Got(b, x)) /\ Calm(Put(b, x))
         /\ Taken(b) => Taken(Got(b, x)) /\ Taken(Put(b, x))
         /\ Mid(b) => Mid(Got(b, x)) /\ Mid(Put(b, x))
<1>1. \A c : c.line = b.line /\ c.data = b.data =>
             (Calm(b) => Calm(c)) /\ (Taken(b) => Taken(c)) /\ (Mid(b) => Mid(c))
  BY DEF Calm, Taken, Mid, Stocked
<1>2. /\ Got(b, x).line = b.line /\ Got(b, x).data = b.data
      /\ Put(b, x).line = b.line /\ Put(b, x).data = b.data
  BY Fields
<1> QED
  BY <1>1, <1>2

\* A beginning, on a free bus or again.
LEMMA StartOpens ==
  ASSUME NEW b, Calm(b) \/ Taken(b)
  PROVE  Open(i2cSendStart(b))
<1>1. PICK h \in Heard : b.line = Idle(h) \/ b.line = Between(1, h)
  BY DEF Calm, Taken
<1>2. i2cSendStart(b) = Drive(b, Begun(Append(h, START)))
  BY <1>1, SendStart
<1>3. Stocked(b)
  BY DEF Calm, Taken
<1> QED
  BY <1>2, <1>3, Fields, HeardAppend DEF Open, Stocked

\* A byte is written.
LEMMA WriteTakes ==
  ASSUME NEW b, NEW x \in Bytes, Open(b) \/ Mid(b)
  PROVE  Taken(i2cWriteByte(b, x)) /\ i2cWriteByte(b, x).got \in Bits
<1>1. PICK h \in Heard : b.line = Begun(h) \/ \E m \in Bits : b.line = Between(m, h)
  BY DEF Open, Mid
<1>2. i2cWriteByte(b, x) = Drive(Answered(b), Between(1, Append(h, x)))
  BY <1>1, WriteByte
<1>3. Stocked(Answered(b)) /\ Answered(b).got \in Bits
  <2>1. Stocked(b) /\ Answered(b).data = b.data
    BY AnsweredFields DEF Open, Mid
  <2>2. Answered(b).got = 0 \/ Answered(b).got = 1
    BY AnsweredFields
  <2> QED
    BY <2>1, <2>2 DEF Stocked, Bits
<1> QED
  BY <1>2, <1>3, Fields, HeardAppend DEF Taken, Stocked

\* The end of a transaction frees the bus.
LEMMA StopFrees ==
  ASSUME NEW b, Mid(b)
  PROVE  Calm(i2cSendStop(b))
<1>1. PICK h \in Heard, m \in Bits : b.line = Between(m, h)
  BY DEF Mid
<1>2. i2cSendStop(b) = Drive(b, Idle(Append(h, STOP)))
  BY <1>1, SendStop
<1> QED
  BY <1>2, Fields, HeardAppend DEF Calm, Mid, Stocked

\* A byte is read.
LEMMA ReadGoesOn ==
  ASSUME NEW b, Mid(b), NEW ack \in BOOLEAN
  PROVE  Mid(i2cReadByte(b, ack))
<1>1. PICK h \in Heard, m \in Bits : b.line = Between(m, h)
  BY DEF Mid
<1> DEFINE bit == IF ack THEN 0 ELSE 1
           read == Sends(b)
<1>2. i2cReadByte(b, ack) = Drive(read, Between(bit, Append(h, read.got)))
  BY <1>1, ReadByte DEF Mid, Stocked
<1>3. bit \in Bits
  BY DEF Bits
<1>4. read.got \in Bytes /\ read.data \in Seq(Bytes)
  BY SendsByte DEF Mid, Stocked
<1> DEFINE after == Drive(read, Between(bit, Append(h, read.got)))
<1>5. after.line = Between(bit, Append(h, read.got)) /\ after.data = read.data
  BY Fields
<1>6. Append(h, read.got) \in Heard
  BY <1>4, HeardAppend
<1> HIDE DEF bit, read, after
<1>7. Mid(after)
  BY <1>3, <1>4, <1>5, <1>6 DEF Mid, Stocked
<1> QED
  BY <1>2, <1>7 DEF after

\* An end that returns something.
LEMMA StopsCalm ==
  ASSUME NEW b, Mid(b), NEW rtn
  PROVE  Calm(Stopped(b, rtn)) /\ Stopped(b, rtn).got = rtn
<1>1. Calm(i2cSendStop(b))
  BY StopFrees
<1>2. Calm(Got(i2cSendStop(b), rtn))
  BY <1>1, NotOnTheBus
<1> QED
  BY <1>2, Fields DEF Stopped

\* A command leaves the bus free, but for one that is to be followed up.
LEMMA CommandCalm ==
  ASSUME NEW b, Calm(b), NEW device \in 0 .. 127, NEW value \in Bytes, NEW stop \in BOOLEAN
  PROVE  LET after == i2cWriteCmd(b, device, value, stop)
         IN \/ after.got = -1 /\ Calm(after)
            \/ after.got = 0 /\ stop /\ Calm(after)
            \/ after.got = 0 /\ ~stop /\ Taken(after)
<1> DEFINE addressed == i2cWriteByte(i2cSendStart(b), 2 * device)
           written   == i2cWriteByte(addressed, value)
           after     == i2cWriteCmd(b, device, value, stop)
<1>1. Taken(addressed) /\ addressed.got \in Bits
  <2>1. 2 * device \in Bytes
    BY DEF Bytes
  <2> QED
    BY <2>1, StartOpens, WriteTakes
<1>2. Taken(written) /\ written.got \in Bits
  BY <1>1, TakenMid, WriteTakes
<1>3. after = IF addressed.got # 0 THEN Stopped(addressed, -1)
              ELSE IF written.got # 0 THEN Stopped(written, -1)
              ELSE IF stop THEN Stopped(written, 0) ELSE written
  BY DEF i2cWriteCmd, Addressed, Commanded
<1> HIDE DEF addressed, written, after
<1>4. /\ Calm(Stopped(addressed, -1)) /\ Stopped(addressed, -1).got = -1
      /\ Calm(Stopped(written, -1)) /\ Stopped(written, -1).got = -1
      /\ Calm(Stopped(written, 0)) /\ Stopped(written, 0).got = 0
  BY <1>1, <1>2, TakenMid, StopsCalm
<1>5. CASE addressed.got # 0
  BY <1>3, <1>4, <1>5 DEF after
<1>6. CASE addressed.got = 0 /\ written.got # 0
  BY <1>3, <1>4, <1>6 DEF after
<1>7. CASE addressed.got = 0 /\ written.got = 0
  <2>1. CASE stop
    BY <1>3, <1>4, <1>7, <2>1 DEF after
  <2>2. CASE ~stop
    BY <1>2, <1>3, <1>7, <2>2 DEF after
  <2> QED
    BY <2>1, <2>2
<1> QED
  BY <1>5, <1>6, <1>7

\* i2cWriteRegister8 leaves the bus free, whatever is refused.
LEMMA WriteRegisterCalm ==
  ASSUME NEW b, Calm(b), NEW device \in 0 .. 127, NEW addr \in Bytes, NEW value \in Bytes
  PROVE  Calm(i2cWriteRegister8(b, device, addr, value))
<1> DEFINE cmd   == i2cWriteCmd(b, device, addr, FALSE)
           last  == i2cWriteByte(cmd, value)
           after == i2cWriteRegister8(b, device, addr, value)
<1>1. \/ cmd.got = -1 /\ Calm(cmd)
      \/ cmd.got = 0 /\ Taken(cmd)
  BY CommandCalm
<1>2. after = IF cmd.got = 0 THEN Stopped(last, IF last.got = 1 THEN -1 ELSE 0) ELSE cmd
  BY DEF i2cWriteRegister8, Selected, RegisterWritten
<1>3. Taken(cmd) => Taken(last)
  BY TakenMid, WriteTakes
<1> HIDE DEF cmd, last, after
<1>4. CASE cmd.got = -1 /\ Calm(cmd)
  BY <1>2, <1>4 DEF after
<1>5. CASE cmd.got = 0 /\ Taken(cmd)
  <2>1. after = Stopped(last, IF last.got = 1 THEN -1 ELSE 0)
    BY <1>2, <1>5
  <2>2. Mid(last)
    BY <1>3, <1>5, TakenMid
  <2> QED
    BY <2>1, <2>2, StopsCalm DEF after
<1> QED
  BY <1>1, <1>4, <1>5

\* A byte is only read if there is one, and the last is not acknowledged.
LEMMA NextByte ==
  ASSUME NEW b
  PROVE  /\ ByteIf(2, b, 1) = b /\ ByteIf(3, b, 1) = b /\ ByteIf(3, b, 2) = b
         /\ ByteIf(2, b, 2) = More(b, FALSE) /\ ByteIf(3, b, 3) = More(b, FALSE)
         /\ ByteIf(2, b, 3) = More(b, TRUE)
<1>1. (2 < 2) = FALSE /\ (3 < 3) = FALSE /\ (2 < 3) = TRUE
  OBVIOUS
<1>2. 2 > 1 /\ 3 > 1 /\ 3 > 2 /\ ~(2 > 2) /\ ~(3 > 3) /\ ~(2 > 3)
  OBVIOUS
<1> QED
  BY <1>1, <1>2, Zenon DEF ByteIf

\* The three cases of ReadBytes.
LEMMA BytesRead ==
  ASSUME NEW b
  PROVE  /\ ReadBytes(b, 1) = i2cReadByte(b, FALSE)
         /\ ReadBytes(b, 2) = More(i2cReadByte(b, TRUE), FALSE)
         /\ ReadBytes(b, 3) = More(More(i2cReadByte(b, TRUE), TRUE), FALSE)
<1>1. (1 > 1) = FALSE /\ (2 > 1) = TRUE /\ (3 > 1) = TRUE
  OBVIOUS
<1> QED
  BY <1>1, NextByte, Zenon DEF ReadBytes

\* The bytes of a register are read.
LEMMA ReadBytesGoesOn ==
  ASSUME NEW b, Mid(b), NEW bytes \in 1 .. 3
  PROVE  Mid(ReadBytes(b, bytes))
<1>1. Mid(i2cReadByte(b, FALSE)) /\ Mid(i2cReadByte(b, TRUE))
  BY ReadGoesOn
<1>2. \A x : \A ack \in BOOLEAN : Mid(x) => Mid(More(x, ack))
  BY ReadGoesOn, NotOnTheBus DEF More, Both
<1>3. Mid(ReadBytes(b, 1)) /\ Mid(ReadBytes(b, 2)) /\ Mid(ReadBytes(b, 3))
  BY <1>1, <1>2, BytesRead
<1>4. bytes = 1 \/ bytes = 2 \/ bytes = 3
  OBVIOUS
<1> QED
  BY <1>3, <1>4, Zenon

\* ReadRegister leaves the bus free, whatever is refused.
LEMMA ReadRegisterCalm ==
  ASSUME NEW b, Calm(b), NEW device \in 0 .. 127, NEW value \in Bytes, NEW bytes \in 1 .. 3
  PROVE  Calm(ReadRegister(b, device, value, bytes))
<1> DEFINE cmd   == i2cWriteCmd(b, device, value, FALSE)
           again == i2cWriteByte(i2cSendStart(cmd), 2 * device + 1)
           read  == ReadBytes(again, bytes)
           after == ReadRegister(b, device, value, bytes)
<1>1. \/ cmd.got = -1 /\ Calm(cmd)
      \/ cmd.got = 0 /\ Taken(cmd)
  BY CommandCalm
<1>2. after = IF cmd.got # 0 THEN Got(cmd, 0)
              ELSE IF again.got # 0 THEN Stopped(again, 0) ELSE i2cSendStop(read)
  BY DEF ReadRegister, Readable, Opened
<1>3. Taken(cmd) => Mid(again)
  <2>1. 2 * device + 1 \in Bytes
    BY DEF Bytes
  <2> QED
    BY <2>1, StartOpens, WriteTakes, TakenMid
<1>4. Mid(again) => Mid(read)
  BY ReadBytesGoesOn
<1> HIDE DEF cmd, again, read, after
<1>5. CASE cmd.got = -1 /\ Calm(cmd)
  BY <1>2, <1>5, NotOnTheBus DEF after
<1>6. CASE cmd.got = 0 /\ Taken(cmd)
  <2>1. Calm(Stopped(again, 0)) /\ Calm(i2cSendStop(read))
    BY <1>3, <1>4, <1>6, StopsCalm, StopFrees
  <2>2. after = Stopped(again, 0) \/ after = i2cSendStop(read)
    BY <1>2, <1>6
  <2> QED
    BY <2>1, <2>2 DEF after
<1> QED
  BY <1>1, <1>5, <1>6

-----------------------------------------------------------------------------
(* What is done again and again *)

\* A function on 0 .. n and one more value.
Longer(f, n, x) == [k \in 0 .. n + 1 |-> IF k <= n THEN f[k] ELSE x]

\* What such a function is made of.
LEMMA LongerFacts ==
  ASSUME NEW n \in Nat, NEW f, NEW x
  PROVE  /\ \A k \in 0 .. n : k \in 0 .. n + 1 /\ Longer(f, n, x)[k] = f[k]
         /\ Longer(f, n, x)[n + 1] = x
         /\ \A k \in 0 .. n + 1 : k # n + 1 => k \in 0 .. n
BY DEF Longer

\* One try of sht3Read to get an answer.
Tried(x) ==
  LET asked == i2cWriteByte(i2cSendStart(x), 2 * SHT3x_ADDR + 1)
  IN IF x.got = 0 THEN x ELSE IF asked.got = 0 THEN asked ELSE Stopped(asked, 1)

Tries(f, n, b) == f = [k \in 0 .. n |-> IF k = 0 THEN Got(b, 1) ELSE Tried(f[k - 1])]

\* For any number of tries there is the function of their results.
LEMMA TriesExist ==
  ASSUME NEW b
  PROVE  \A n \in Nat : \E f : Tries(f, n, b)
<1> DEFINE T == {n \in Nat : \E f : Tries(f, n, b)}
<1>1. 0 \in T
  <2>1. Tries([k \in 0 .. 0 |-> Got(b, 1)], 0, b)
    BY DEF Tries
  <2> QED
    BY <2>1
<1>2. ASSUME NEW n \in T PROVE n + 1 \in T
  <2>1. PICK f : Tries(f, n, b)
    OBVIOUS
  <2> DEFINE g == Longer(f, n, Tried(f[n]))
  <2>2. ASSUME NEW k \in 0 .. n + 1
        PROVE  g[k] = IF k = 0 THEN Got(b, 1) ELSE Tried(g[k - 1])
    <3>1. CASE k = n + 1
      <4>1. k # 0 /\ n \in 0 .. n /\ k - 1 = n
        BY <3>1
      <4> QED
        BY <3>1, <4>1, LongerFacts
    <3>2. CASE k # n + 1
      <4>1. k \in 0 .. n /\ (k # 0 => k - 1 \in 0 .. n)
        BY <3>2
      <4>2. f[k] = IF k = 0 THEN Got(b, 1) ELSE Tried(f[k - 1])
        BY <2>1, <4>1 DEF Tries
      <4> QED
        BY <4>1, <4>2, LongerFacts
    <3> QED
      BY <3>1, <3>2
  <2>3. Tries(g, n + 1, b)
    <3>1. DOMAIN g = 0 .. n + 1 /\ g = [k \in DOMAIN g |-> g[k]]
      BY DEF Longer
    <3> HIDE DEF g
    <3>2. g = [k \in 0 .. n + 1 |-> IF k = 0 THEN Got(b, 1) ELSE Tried(g[k - 1])]
      BY <2>2, <3>1, Zenon
    <3> QED
      BY <3>2 DEF Tries
  <2> HIDE DEF g
  <2> QED
    BY <2>3
<1>3. T = Nat
  <2>1. T \in SUBSET Nat
    OBVIOUS
  <2> HIDE DEF T
  <2> QED
    BY <1>1, <1>2, <2>1, SetInduction
<1> QED
  BY <1>3

\* After the tries the sensor has answered, or the bus is free.
LEMMA Sht3Waited ==
  ASSUME NEW b, Calm(b)
  PROVE  LET after == Sht3Wait(b)
         IN (after.got = 0 /\ Mid(after)) \/ (after.got # 0 /\ Calm(after))
<1> DEFINE tried == CHOOSE f : Tries(f, 25, b)
           Good(x) == (x.got = 0 /\ Mid(x)) \/ (x.got # 0 /\ Calm(x))
<1>1. Tries(tried, 25, b)
  BY TriesExist
<1>2. Sht3Wait(b) = tried[25]
  BY DEF Sht3Wait, Tries, Tried, IfDone, Same
<1> HIDE DEF tried
<1>3. tried[0] = Got(b, 1) /\ \A k \in 1 .. 25 : tried[k] = Tried(tried[k - 1])
  BY <1>1 DEF Tries
<1>4. ASSUME NEW x, Good(x) PROVE Good(Tried(x))
  <2> DEFINE asked == i2cWriteByte(i2cSendStart(x), 2 * SHT3x_ADDR + 1)
  <2>1. Tried(x) = IF x.got = 0 THEN x ELSE IF asked.got = 0 THEN asked ELSE Stopped(asked, 1)
    BY DEF Tried
  <2>2. Calm(x) => Mid(asked)
    <3>1. 2 * SHT3x_ADDR + 1 \in Bytes
      BY DEF Bytes, SHT3x_ADDR
    <3> QED
      BY <3>1, StartOpens, WriteTakes, TakenMid
  <2>3. Mid(asked) => Calm(Stopped(asked, 1)) /\ Stopped(asked, 1).got = 1
    BY StopsCalm
  <2> HIDE DEF asked
  <2>4. CASE x.got = 0
    BY <1>4, <2>1, <2>4
  <2>5. CASE x.got # 0 /\ asked.got = 0
    <3>1. Tried(x) = asked
      BY <2>1, <2>5
    <3>2. Mid(asked)
      BY <1>4, <2>2, <2>5
    <3> QED
      BY <2>5, <3>1, <3>2
  <2>6. CASE x.got # 0 /\ asked.got # 0
    BY <1>4, <2>1, <2>2, <2>3, <2>6
  <2> QED
    BY <2>4, <2>5, <2>6
<1>5. Good(tried[0])
  BY <1>3, NotOnTheBus, Fields
<1> DEFINE T == {k \in 0 .. 25 : Good(tried[k])}
<1>6. 0 \in T
  BY <1>5
<1>7. ASSUME NEW n \in 0 .. 25 - 1, n \in T PROVE n + 1 \in T
  <2>1. n + 1 \in 1 .. 25 /\ (n + 1) - 1 = n
    OBVIOUS
  <2>2. tried[n + 1] = Tried(tried[n])
    BY <1>3, <2>1
  <2> HIDE DEF Good
  <2> QED
    BY <1>4, <1>7, <2>1, <2>2
<1>8. 25 \in T
  <2> HIDE DEF T
  <2>1. \A k \in 0 .. 25 : k \in T
    BY <1>6, <1>7, BoundedInduction
  <2> QED
    BY <2>1
<1> QED
  BY <1>2, <1>8

\* Registers of one or more bytes.
Registers == Seq(Bytes \X (1 .. 3))

\* The sessions of ReadRegisters after each register.
Reads(f, n, b, device, rs) ==
  f = [k \in 0 .. n |-> IF k = 0 THEN b ELSE Kept(f[k - 1], device, rs[k])]

\* For any number of registers there is the function of their readings.
LEMMA ReadsExist ==
  ASSUME NEW b, NEW device, NEW rs
  PROVE  \A n \in Nat : \E f : Reads(f, n, b, device, rs)
<1> DEFINE T == {n \in Nat : \E f : Reads(f, n, b, device, rs)}
<1>1. 0 \in T
  <2>1. Reads([k \in 0 .. 0 |-> b], 0, b, device, rs)
    BY DEF Reads
  <2> QED
    BY <2>1
<1>2. ASSUME NEW n \in T PROVE n + 1 \in T
  <2>1. PICK f : Reads(f, n, b, device, rs)
    OBVIOUS
  <2> DEFINE g == Longer(f, n, Kept(f[n], device, rs[n + 1]))
  <2>2. ASSUME NEW k \in 0 .. n + 1
        PROVE  g[k] = IF k = 0 THEN b ELSE Kept(g[k - 1], device, rs[k])
    <3>1. CASE k = n + 1
      <4>1. k # 0 /\ n \in 0 .. n /\ k - 1 = n
        BY <3>1
      <4> QED
        BY <3>1, <4>1, LongerFacts
    <3>2. CASE k # n + 1
      <4>1. k \in 0 .. n /\ (k # 0 => k - 1 \in 0 .. n)
        BY <3>2
      <4>2. f[k] = IF k = 0 THEN b ELSE Kept(f[k - 1], device, rs[k])
        BY <2>1, <4>1 DEF Reads
      <4> QED
        BY <4>1, <4>2, LongerFacts
    <3> QED
      BY <3>1, <3>2
  <2>3. Reads(g, n + 1, b, device, rs)
    <3>1. DOMAIN g = 0 .. n + 1 /\ g = [k \in DOMAIN g |-> g[k]]
      BY DEF Longer
    <3> HIDE DEF g
    <3>2. g = [k \in 0 .. n + 1 |-> IF k = 0 THEN b ELSE Kept(g[k - 1], device, rs[k])]
      BY <2>2, <3>1, Zenon
    <3> QED
      BY <3>2 DEF Reads
  <2> HIDE DEF g
  <2> QED
    BY <2>3
<1>3. T = Nat
  <2>1. T \in SUBSET Nat
    OBVIOUS
  <2> HIDE DEF T
  <2> QED
    BY <1>1, <1>2, <2>1, SetInduction
<1> QED
  BY <1>3

\* However many registers are read, the bus is free after them.
LEMMA ReadRegistersCalm ==
  ASSUME NEW b, Calm(b), NEW device \in 0 .. 127, NEW rs \in Registers
  PROVE  Calm(ReadRegisters(b, device, rs)) /\ Calm(Calibration(b, device, rs))
<1>1. ASSUME NEW c, Calm(c) PROVE Calm(ReadRegisters(c, device, rs))
  <2> DEFINE n    == Len(rs)
             read == CHOOSE f : Reads(f, n, c, device, rs)
  <2>1. n \in Nat
    BY DEF Registers
  <2>2. Reads(read, n, c, device, rs)
    BY <2>1, ReadsExist
  <2>3. ReadRegisters(c, device, rs) = read[n]
    BY DEF ReadRegisters, Reads
  <2>4. \A k \in 1 .. n : rs[k][1] \in Bytes /\ rs[k][2] \in 1 .. 3
    BY DEF Registers
  <2> HIDE DEF n, read
  <2>5. read[0] = c /\ \A k \in 1 .. n : read[k] = Kept(read[k - 1], device, rs[k])
    BY <2>1, <2>2 DEF Reads
  <2>6. ASSUME NEW x, Calm(x), NEW k \in 1 .. n PROVE Calm(Kept(x, device, rs[k]))
    BY <2>4, <2>6, ReadRegisterCalm, NotOnTheBus DEF Kept, Stored
  <2> DEFINE T == {k \in 0 .. n : Calm(read[k])}
  <2>7. 0 \in T
    BY <1>1, <2>1, <2>5
  <2>8. ASSUME NEW k \in 0 .. n - 1, k \in T PROVE k + 1 \in T
    <3>1. k + 1 \in 1 .. n /\ (k + 1) - 1 = k
      BY <2>1
    <3>2. read[k + 1] = Kept(read[k], device, rs[k + 1])
      BY <2>5, <3>1
    <3> QED
      BY <2>1, <2>6, <2>8, <3>1, <3>2
  <2>9. n \in T
    <3> HIDE DEF T
    <3>1. \A k \in 0 .. n : k \in T
      BY <2>1, <2>7, <2>8, BoundedInduction
    <3> QED
      BY <2>1, <3>1
  <2> QED
    BY <2>3, <2>9
<1>2. Calm(Put(b, <<>>))
  BY NotOnTheBus
<1> QED
  BY <1>1, <1>2 DEF Calibration

-----------------------------------------------------------------------------
(* The I2C drivers *)

\* A session begins on a free bus.
LEMMA SessionCalm ==
  ASSUME NEW nacks, NEW data \in Seq(Bytes)
  PROVE  Calm(Session(nacks, data))
<1>1. Session(nacks, data).line = Idle(<<>>) /\ Session(nacks, data).data = data
  BY DEF Session, Bus, Quiet, Idle, Line
<1>2. <<>> \in Heard
  BY DEF Heard
<1> QED
  BY <1>1, <1>2 DEF Calm, Stocked

\* i2cInit.
LEMMA InitCalm ==
  ASSUME NEW b, Calm(b)
  PROVE  Calm(i2cInit(b))
<1>1. PICK h \in Heard : b.line = Idle(h)
  BY DEF Calm
<1>2. C1(D1(Idle(h))) = Idle(h)
  BY NothingChanges DEF Idle
<1>3. i2cInit(b) = Drive(b, Idle(h))
  BY <1>1, <1>2 DEF i2cInit
<1>4. i2cInit(b).line = Idle(h) /\ i2cInit(b).data = b.data
  BY <1>3, Fields
<1> QED
  BY <1>4 DEF Calm, Stocked

\* A driver whose call fails ends with the bus as it is.
LEMMA FailedCalm ==
  ASSUME NEW b, Calm(b), NEW x, NEW d
  PROVE  Calm(Failed(b)) /\ Calm(Returns(b, x)) /\ Calm(Stores(b, x, d))
BY NotOnTheBus DEF Failed, Returns, Stores

\* The addresses of the sensors have seven bits.
LEMMA Addresses ==
  /\ SHT3x_ADDR \in 0 .. 127 /\ BMX280_ADDR \in 0 .. 127 /\ MS5637_ADDR \in 0 .. 127
BY DEF SHT3x_ADDR, BMX280_ADDR, MS5637_ADDR

\* sht3Init leaves the bus free.
LEMMA Sht3InitCalm ==
  ASSUME NEW b, Calm(b)
  PROVE  Calm(sht3Init(b))
<1> DEFINE x == i2cWriteRegister8(i2cInit(b), SHT3x_ADDR, 48, 162)
<1>1. Calm(x)
  <2>1. 48 \in Bytes /\ 162 \in Bytes
    BY DEF Bytes
  <2> QED
    BY <2>1, InitCalm, WriteRegisterCalm, Addresses
<1>2. sht3Init(b) = IF x.got = 0 THEN Stores(x, SENSOR_RTN_OK, <<0, 0>>) ELSE Failed(x)
  BY DEF sht3Init, After, IfDone
<1> HIDE DEF x
<1> QED
  BY <1>1, <1>2, FailedCalm

\* So do the six bytes of a reading.
LEMMA Sht3BytesCalm ==
  ASSUME NEW b, Mid(b)
  PROVE  Calm(Sht3Bytes(b))
<1> DEFINE Begin(x) == Stored(x.d, i2cReadByte(x, TRUE))
           Final(x) == Stored(x.d, i2cReadByte(x, FALSE))
<1>1. ASSUME NEW x, Mid(x) PROVE Mid(Begin(x)) /\ Mid(Final(x))
  BY <1>1, ReadGoesOn, NotOnTheBus DEF Stored
<1>2. Mid(Put(b, <<>>))
  BY NotOnTheBus
<1>3. Sht3Bytes(b) = i2cSendStop(Final(Begin(Begin(Begin(Begin(Begin(Put(b, <<>>))))))))
  BY DEF Sht3Bytes
<1> HIDE DEF Begin, Final
<1>4. Mid(Final(Begin(Begin(Begin(Begin(Begin(Put(b, <<>>))))))))
  BY <1>1, <1>2
<1> QED
  BY <1>3, <1>4, StopFrees

\* sht3Read leaves the bus free, also if the sensor never answers.
LEMMA Sht3ReadCalm ==
  ASSUME NEW b, Calm(b)
  PROVE  Calm(sht3Read(b))
<1> DEFINE asked  == i2cWriteRegister8(b, SHT3x_ADDR, 36, 0)
           waited == Sht3Wait(asked)
           bytes  == Sht3Bytes(waited)
<1>1. Calm(asked)
  <2>1. 36 \in Bytes /\ 0 \in Bytes
    BY DEF Bytes
  <2> QED
    BY <2>1, WriteRegisterCalm, Addresses
<1>2. (waited.got = 0 /\ Mid(waited)) \/ (waited.got # 0 /\ Calm(waited))
  BY <1>1, Sht3Waited
<1>3. Mid(waited) => Calm(bytes)
  BY Sht3BytesCalm
<1>4. \/ asked.got # 0 /\ sht3Read(b) = Failed(asked)
      \/ waited.got # 0 /\ sht3Read(b) = Failed(waited)
      \/ waited.got = 0 /\ \E rtn, d : sht3Read(b) = Stores(bytes, rtn, d)
  BY DEF sht3Read, Sht3Started, Sht3Ready
<1> HIDE DEF asked, waited, bytes
<1> QED
  BY <1>1, <1>2, <1>3, <1>4, FailedCalm

\* Asking which chip it is leaves the bus free.
LEMMA IdentifiedCalm ==
  ASSUME NEW b, Calm(b)
  PROVE  Calm(Identified(b))
<1> DEFINE x == i2cWriteRegister8(i2cInit(b), BMX280_ADDR, 224, 182)
           y == ReadRegister(x, BMX280_ADDR, 208, 1)
<1>1. Calm(x)
  <2>1. 224 \in Bytes /\ 182 \in Bytes
    BY DEF Bytes
  <2> QED
    BY <2>1, InitCalm, WriteRegisterCalm, Addresses, ZenonT(40)
<1>2. Calm(y)
  <2>1. 208 \in Bytes /\ 1 \in 1 .. 3
    BY DEF Bytes
  <2> HIDE DEF x
  <2> QED
    BY <1>1, <2>1, ReadRegisterCalm, Addresses
<1>3. Identified(b) = IF x.got = 0 THEN y ELSE Got(x, 0)
  BY DEF Identified, ChipId, i2cReadRegister8
<1> HIDE DEF x, y
<1> QED
  BY <1>1, <1>2, <1>3, NotOnTheBus

\* Lists of registers of the drivers.
LEMMA WordLists ==
  ASSUME NEW first \in Nat, NEW n \in Nat, first + 2 * n <= 256
  PROVE  Words(first, n) \in Registers
<1>1. \A k \in 1 .. n : <<first + 2 * (k - 1), 2>> \in Bytes \X (1 .. 3)
  BY DEF Bytes
<1> QED
  BY <1>1 DEF Words, Registers

\* Lists of one and two registers.
LEMMA ShortLists ==
  ASSUME NEW a \in Bytes \X (1 .. 3), NEW b \in Bytes \X (1 .. 3)
  PROVE  <<>> \in Registers /\ <<a>> \in Registers /\ <<a, b>> \in Registers
BY DEF Registers

\* One list behind the other.
LEMMA ListsTogether ==
  ASSUME NEW r \in Registers, NEW s \in Registers
  PROVE  r \o s \in Registers
BY DEF Registers

\* The registers of the BME280 for humidity.
LEMMA BmeHumidityList == BmeHumidity \in Registers
<1> DEFINE R == Bytes \X (1 .. 3)
<1>1. /\ <<161, 1>> \in R /\ <<225, 2>> \in R /\ <<227, 1>> \in R
      /\ <<228, 2>> \in R /\ <<229, 2>> \in R /\ <<231, 1>> \in R
  BY DEF Bytes
<1> HIDE DEF R
<1>2. <<<<161, 1>>, <<225, 2>>, <<227, 1>>, <<228, 2>>, <<229, 2>>, <<231, 1>>>> \in Seq(R)
  BY <1>1
<1> QED
  BY <1>2 DEF BmeHumidity, Registers, R

\* Registers of a chip that is known are read, or none.
LEMMA CalibratedCalm ==
  ASSUME NEW b, Calm(b), NEW chips, NEW rs \in Registers
  PROVE  Calm(Calibrated(b, chips, rs))
<1>1. Calm(Calibration(b, BMX280_ADDR, rs))
  BY ReadRegistersCalm, Addresses
<1> QED
  BY <1>1, FailedCalm DEF Calibrated

\* bmpInit leaves the bus free.
LEMMA BmpInitCalm ==
  ASSUME NEW b, Calm(b)
  PROVE  Calm(bmpInit(b))
<1>1. Words(170, 11) \in Registers
  BY WordLists
<1> QED
  BY <1>1, IdentifiedCalm, CalibratedCalm DEF bmpInit

\* bmx280Init leaves the bus free, for either chip.
LEMMA Bmx280InitCalm ==
  ASSUME NEW b, Calm(b)
  PROVE  Calm(bmx280Init(b))
<1> DEFINE x  == Identified(b)
           rs == Words(136, 12) \o (IF x.got = 96 THEN BmeHumidity ELSE <<>>)
<1>1. Calm(x)
  BY IdentifiedCalm
<1>2. rs \in Registers
  <2>1. Words(136, 12) \in Registers
    BY WordLists
  <2>2. (IF x.got = 96 THEN BmeHumidity ELSE <<>>) \in Registers
    BY BmeHumidityList DEF Registers
  <2> QED
    BY <2>1, <2>2, ListsTogether
<1>3. bmx280Init(b) = Calibrated(x, {86, 87, 88, 96}, rs)
  BY Zenon DEF bmx280Init, BmxCalibrated
<1> HIDE DEF x, rs
<1> QED
  BY <1>1, <1>2, <1>3, CalibratedCalm

\* The registers of a measurement are read when it has been started.
LEMMA MeasuredCalm ==
  ASSUME NEW b, Calm(b), NEW device \in 0 .. 127, NEW rs \in Registers
  PROVE  Calm(Measured(b, device, rs))
<1>1. Calm(ReadRegisters(b, device, rs))
  BY ReadRegistersCalm
<1> QED
  BY <1>1, FailedCalm DEF Measured

\* A driver with two calls, of which the second follows if the first succeeds.
LEMMA AfterCalm ==
  ASSUME NEW b, Calm(b), NEW then, Calm(then)
  PROVE  Calm(IF b.got = 0 THEN then ELSE Failed(b))
BY FailedCalm

\* bmpRead leaves the bus free.
LEMMA BmpReadCalm ==
  ASSUME NEW b, Calm(b)
  PROVE  Calm(bmpRead(b))
<1>1. 244 \in Bytes /\ 46 \in Bytes /\ 180 \in Bytes /\ 246 \in Bytes
  BY DEF Bytes
<1>2. <<<<246, 2>>>> \in Registers /\ <<<<246, 3>>>> \in Registers
  <2>1. <<246, 2>> \in Bytes \X (1 .. 3) /\ <<246, 3>> \in Bytes \X (1 .. 3)
    BY <1>1
  <2> QED
    BY <2>1, ShortLists, ZenonT(40)
<1>3. ASSUME NEW c, Calm(c) PROVE Calm(BmpTemperature(c)) /\ Calm(BmpPressure(c))
  <2> DEFINE x == i2cWriteRegister8(c, BMX280_ADDR, 244, 46)
             y == i2cWriteRegister8(c, BMX280_ADDR, 244, 180)
  <2>1. Calm(x) /\ Calm(y)
    BY <1>1, <1>3, WriteRegisterCalm, Addresses
  <2> HIDE DEF x, y
  <2>2. /\ Calm(Measured(x, BMX280_ADDR, <<<<246, 2>>>>))
        /\ Calm(Measured(y, BMX280_ADDR, <<<<246, 3>>>>))
    BY <1>2, <2>1, MeasuredCalm, Addresses
  <2> QED
    BY <2>2 DEF BmpTemperature, BmpPressure, x, y
<1> DEFINE t == BmpTemperature(Put(b, <<>>))
<1>4. Calm(t)
  BY <1>3, NotOnTheBus
<1>5. bmpRead(b) = IF t.got = 0 THEN BmpPressure(t) ELSE Failed(t)
  BY DEF bmpRead, After, IfDone
<1> HIDE DEF t
<1> QED
  BY <1>3, <1>4, <1>5, AfterCalm

\* The registers of a forced measurement.
ForcedRegisters(bme280) == <<<<250, 3>>, <<247, 3>>>> \o (IF bme280 THEN <<<<253, 2>>>> ELSE <<>>)

\* The registers of a measurement.
LEMMA ForcedLists ==
  ASSUME NEW bme280 \in BOOLEAN
  PROVE  ForcedRegisters(bme280) \in Registers
<1>1. <<250, 3>> \in Bytes \X (1 .. 3) /\ <<247, 3>> \in Bytes \X (1 .. 3) /\ <<253, 2>> \in Bytes \X (1 .. 3)
  BY DEF Bytes
<1>2. <<<<250, 3>>, <<247, 3>>>> \in Registers /\ <<<<253, 2>>>> \in Registers /\ <<>> \in Registers
  <2>1. <<<<250, 3>>, <<247, 3>>>> \in Registers /\ <<>> \in Registers
    <3> DEFINE p == <<250, 3>>
               q == <<247, 3>>
    <3>1. p \in Bytes \X (1 .. 3) /\ q \in Bytes \X (1 .. 3)
      BY <1>1
    <3> HIDE DEF p, q
    <3>2. <<p, q>> \in Registers /\ <<>> \in Registers
      BY <3>1, ShortLists
    <3> QED
      BY <3>2 DEF p, q
  <2>2. <<<<253, 2>>>> \in Registers
    BY <1>1, ShortLists, ZenonT(40)
  <2> QED
    BY <2>1, <2>2
<1>3. (IF bme280 THEN <<<<253, 2>>>> ELSE <<>>) \in Registers
  BY <1>2
<1> QED
  BY <1>2, <1>3, ListsTogether DEF ForcedRegisters

\* bmx280Read leaves the bus free, for either chip.
LEMMA Bmx280ReadCalm ==
  ASSUME NEW b, Calm(b), NEW bme280 \in BOOLEAN
  PROVE  Calm(bmx280Read(b, bme280))
<1>1. 242 \in Bytes /\ 1 \in Bytes /\ 244 \in Bytes /\ 37 \in Bytes
  BY DEF Bytes
<1>2. ASSUME NEW c, Calm(c) PROVE Calm(BmxMeasured(c, bme280))
  <2> DEFINE x == i2cWriteRegister8(c, BMX280_ADDR, 244, 37)
             m == Measured(x, BMX280_ADDR, ForcedRegisters(bme280))
  <2>1. Calm(x)
    BY <1>1, <1>2, WriteRegisterCalm, Addresses
  <2>2. Calm(m)
    <3> HIDE DEF x
    <3> QED
      BY <2>1, ForcedLists, MeasuredCalm, Addresses
  <2>3. BmxMeasured(c, bme280) = IF c.got # 0 THEN Failed(c) ELSE m
    BY Zenon DEF BmxMeasured, ForcedRegisters
  <2> HIDE DEF m
  <2> QED
    BY <1>2, <2>2, <2>3, FailedCalm
<1> DEFINE e == Put(b, <<>>)
<1>3. Calm(e)
  BY NotOnTheBus
<1> HIDE DEF e
<1>4. Calm(BmeForced(e)) /\ Calm(Got(e, 0))
  BY <1>1, <1>3, WriteRegisterCalm, Addresses, NotOnTheBus DEF BmeForced
<1>5. Calm(IF bme280 THEN BmeForced(e) ELSE Got(e, 0))
  BY <1>4
<1> QED
  BY <1>2, <1>5 DEF bmx280Read, e

\* msInit leaves the bus free.
LEMMA MsInitCalm ==
  ASSUME NEW b, Calm(b)
  PROVE  Calm(msInit(b))
<1> DEFINE x == i2cWriteCmd(i2cInit(b), MS5637_ADDR, 30, TRUE)
           y == Calibration(x, MS5637_ADDR, Words(160, 7))
<1>1. Calm(x)
  <2>1. 30 \in Bytes
    BY DEF Bytes
  <2> QED
    BY <2>1, InitCalm, CommandCalm, Addresses
<1>2. Calm(y)
  <2>1. Words(160, 7) \in Registers
    BY WordLists
  <2> HIDE DEF x
  <2> QED
    BY <1>1, <2>1, ReadRegistersCalm, Addresses
<1>3. msInit(b) = IF x.got = 0 THEN PromRead(y) ELSE Failed(x)
  BY DEF msInit, MsCalibrated, After, IfDone
<1> HIDE DEF x, y
<1>4. Calm(PromRead(y))
  <2>1. \E rtn, c : PromRead(y) = Stores(y, rtn, c)
    BY DEF PromRead, PromChecked
  <2> QED
    BY <1>2, <2>1, FailedCalm
<1> QED
  BY <1>1, <1>3, <1>4, AfterCalm

\* msRead leaves the bus free.
LEMMA MsReadCalm ==
  ASSUME NEW b, Calm(b)
  PROVE  Calm(msRead(b))
<1>1. 70 \in Bytes /\ 86 \in Bytes
  BY DEF Bytes
<1>2. <<<<0, 3>>>> \in Registers
  <2>1. <<0, 3>> \in Bytes \X (1 .. 3)
    BY DEF Bytes
  <2> QED
    BY <2>1, ShortLists
<1>3. ASSUME NEW c, Calm(c) PROVE Calm(MsPressure(c)) /\ Calm(MsTemperature(c))
  <2> DEFINE x == i2cWriteCmd(c, MS5637_ADDR, 70, TRUE)
             y == i2cWriteCmd(c, MS5637_ADDR, 86, TRUE)
  <2>1. Calm(x) /\ Calm(y)
    BY <1>1, <1>3, CommandCalm, Addresses
  <2> HIDE DEF x, y
  <2>2. Calm(Measured(x, MS5637_ADDR, <<<<0, 3>>>>)) /\ Calm(Measured(y, MS5637_ADDR, <<<<0, 3>>>>))
    BY <1>2, <2>1, MeasuredCalm, Addresses
  <2> QED
    BY <2>2 DEF MsPressure, MsTemperature, x, y
<1> DEFINE p == MsPressure(Put(b, <<>>))
<1>4. Calm(p)
  BY <1>3, NotOnTheBus
<1>5. msRead(b) = IF p.got = 0 THEN MsTemperature(p) ELSE Failed(p)
  BY DEF msRead, After, IfDone
<1> HIDE DEF p
<1> QED
  BY <1>3, <1>4, <1>5, AfterCalm

-----------------------------------------------------------------------------
(* The lines while an SHT1x is spoken to *)

Marks == Seq({START, STOP})

\* No transaction is open, and no device has heard a byte yet.
Deaf(l, clock, master, slave) ==
  /\ l.wires = Wires(clock, master, slave)
  /\ \E h \in Marks : l.i2c = Device(FREE, 0, h)

\* What the lines and the devices on them are after the lines have moved.
LEMMA MovedTo ==
  ASSUME NEW l, NEW w
  PROVE  /\ Moved(l, w).wires = w
         /\ Moved(l, w).i2c = I2cHears(l.i2c, Edge(l.wires, w), Level(l.wires))
BY DEF Moved, Hears

\* Then only a data line that falls while the clock is high is heard.
LEMMA StaysDeaf ==
  ASSUME NEW l, NEW c \in Bits, NEW m \in Bits, NEW s \in Bits, Deaf(l, c, m, s),
         NEW c2 \in Bits, NEW m2 \in Bits, NEW s2 \in Bits,
         \/ c = 0 \/ c2 = 0
         \/ m = 0 \/ s = 0
         \/ m2 = 1 /\ s2 = 1
  PROVE  Deaf(Moved(l, Wires(c2, m2, s2)), c2, m2, s2)
<1> DEFINE w == Wires(c, m, s)
           u == Wires(c2, m2, s2)
           edge == Edge(w, u)
<1>1. PICK h \in Marks : l.i2c = Device(FREE, 0, h)
  BY DEF Deaf
<1>2. Moved(l, u).wires = u /\ Moved(l, u).i2c = I2cHears(Device(FREE, 0, h), edge, Level(w))
  BY <1>1, MovedTo DEF Deaf
<1>3. /\ w.clock = 0 \/ w.clock = 1
      /\ u.clock = 0 \/ u.clock = 1
      /\ Level(w) = 0 \/ Level(w) = 1
      /\ Level(u) = 0 \/ Level(u) = 1
      /\ ~(w.clock = 1 /\ u.clock = 1 /\ Level(w) = 1 /\ Level(u) = 0)
  BY DEF Level, Bits, Wires
<1>4. edge \in {"down", "up", "none", "changes", "rises"}
  <2> HIDE DEF w, u
  <2> QED
    BY <1>3 DEF Edge
<1>5. FallingClock(Device(FREE, 0, h), Level(w)) = Device(FREE, 0, h)
  BY Falls
<1>6. Stops(Device(FREE, 0, h)) = Device(FREE, 0, h)
  BY DEF Stops, Device
<1> HIDE DEF w, u, edge
<1>7. I2cHears(Device(FREE, 0, h), edge, Level(w)) = Device(FREE, 0, h)
  BY <1>4, <1>5, <1>6, Hearings
<1> QED
  BY <1>2, <1>7 DEF Deaf, u

\* Each write to the lines that no device hears.
LEMMA DeafWrites ==
  ASSUME NEW l, NEW c \in Bits, NEW m \in Bits, NEW s \in Bits, Deaf(l, c, m, s)
  PROVE  /\ Deaf(C0(l), 0, m, s) /\ Deaf(C1(l), 1, m, s)
         /\ Deaf(D1(l), c, 1, s) /\ Deaf(S1(l), c, m, 1)
         /\ c = 0 => Deaf(D0(l), 0, 0, s) /\ Deaf(S0(l), 0, m, 0)
<1>1. l.wires = Wires(c, m, s)
  BY DEF Deaf
<1>2. 0 \in Bits /\ 1 \in Bits
  BY DEF Bits
<1>3. /\ C0(l) = Moved(l, Wires(0, m, s)) /\ C1(l) = Moved(l, Wires(1, m, s))
      /\ \A x : /\ Data(l, x) = Moved(l, Wires(c, x, s))
               /\ Slave(l, x) = Moved(l, Wires(c, m, x))
  BY <1>1, WiresMoved
<1>4. Deaf(C0(l), 0, m, s)
  <2>1. Deaf(Moved(l, Wires(0, m, s)), 0, m, s)
    BY <1>2, StaysDeaf
  <2> QED
    BY <1>3, <2>1
<1>5. Deaf(C1(l), 1, m, s)
  <2>1. c = 0 \/ m = 0 \/ s = 0 \/ (m = 1 /\ s = 1)
    BY DEF Bits
  <2> QED
    BY <1>2, <1>3, <2>1, StaysDeaf
<1>6. Deaf(D1(l), c, 1, s)
  <2>1. s = 0 \/ s = 1
    BY DEF Bits
  <2>2. Deaf(Moved(l, Wires(c, 1, s)), c, 1, s)
    BY <1>2, <2>1, StaysDeaf
  <2> QED
    BY <1>3, <2>2, Zenon DEF D1
<1>7. Deaf(S1(l), c, m, 1)
  <2>1. m = 0 \/ m = 1
    BY DEF Bits
  <2>2. Deaf(Moved(l, Wires(c, m, 1)), c, m, 1)
    BY <1>2, <2>1, StaysDeaf
  <2> QED
    BY <1>3, <2>2, Zenon DEF S1
<1>8. ASSUME c = 0 PROVE Deaf(D0(l), 0, 0, s) /\ Deaf(S0(l), 0, m, 0)
  <2>1. Deaf(Moved(l, Wires(0, 0, s)), 0, 0, s) /\ Deaf(Moved(l, Wires(0, m, 0)), 0, m, 0)
    BY <1>2, <1>8, StaysDeaf
  <2> QED
    BY <1>8, <1>3, <2>1 DEF D0, S0
<1> QED
  BY <1>4, <1>5, <1>6, <1>7, <1>8

\* But what begins an SHT1x ends at once for them (shtStart).
LEMMA StartStop ==
  ASSUME NEW l, Deaf(l, 1, 1, 1)
  PROVE  Deaf(D1(C1(C0(D0(l)))), 1, 1, 1)
<1>1. PICK h \in Marks : l.i2c = Device(FREE, 0, h)
  BY DEF Deaf
<1> DEFINE Says(k, w, dev) == k.wires = w /\ k.i2c = dev
           begun == Device(1, 0, Append(h, START))
<1>2. Says(D0(l), Wires(1, 0, 1), Device(0, 0, Append(h, START)))
  <2>1. D0(l) = Moved(l, Wires(1, 0, 1))
    BY WiresMoved DEF D0, Deaf
  <2>2. Starts(Device(FREE, 0, h)) = Device(0, 0, Append(h, START))
    BY DEF Starts, Mark, Device, FREE
  <2> QED
    BY <1>1, <2>1, <2>2, MovedTo, HighEdges, Hearings DEF Deaf
<1>3. ASSUME NEW k, Says(k, Wires(1, 0, 1), Device(0, 0, Append(h, START)))
      PROVE  Says(C0(k), Wires(0, 0, 1), begun)
  <2>1. C0(k) = Moved(k, Wires(0, 0, 1))
    BY <1>3, WiresMoved
  <2>2. FallingClock(Device(0, 0, Append(h, START)), Level(Wires(1, 0, 1))) = begun
    BY Falls
  <2> QED
    BY <1>3, <2>1, <2>2, MovedTo, ClockEdges, Hearings
<1>4. ASSUME NEW k, Says(k, Wires(0, 0, 1), begun)
      PROVE  Says(C1(k), Wires(1, 0, 1), begun)
  <2>1. C1(k) = Moved(k, Wires(1, 0, 1))
    BY <1>4, WiresMoved
  <2> QED
    BY <1>4, <2>1, MovedTo, ClockEdges, Hearings
<1>5. ASSUME NEW k, Says(k, Wires(1, 0, 1), begun)
      PROVE  Says(D1(k), Wires(1, 1, 1), Device(FREE, 0, Append(Append(h, START), STOP)))
  <2>1. D1(k) = Moved(k, Wires(1, 1, 1))
    BY <1>5, WiresMoved DEF D1
  <2>2. Stops(begun) = Device(FREE, 0, Append(Append(h, START), STOP))
    BY DEF Stops, Mark, Device, FREE
  <2> QED
    BY <1>5, <2>1, <2>2, MovedTo, HighEdges, Hearings
<1>6. Append(Append(h, START), STOP) \in Marks
  BY DEF Marks
<1> DEFINE k == D1(C1(C0(D0(l))))
<1>7. Says(k, Wires(1, 1, 1), Device(FREE, 0, Append(Append(h, START), STOP)))
  <2> HIDE DEF Says, begun
  <2> QED
    BY <1>2, <1>3, <1>4, <1>5
<1> HIDE DEF k
<1> QED
  BY <1>6, <1>7 DEF Deaf, k

\* A pulse of the clock.
LEMMA DeafPulse ==
  ASSUME NEW l, NEW c \in Bits, NEW m \in Bits, NEW s \in Bits, Deaf(l, c, m, s)
  PROVE  Deaf(Pulse(l), 0, m, s)
<1>1. 1 \in Bits /\ Deaf(C1(l), 1, m, s)
  BY DeafWrites DEF Bits
<1> QED
  BY <1>1, DeafWrites DEF Pulse

\* A bit in either direction.
LEMMA DeafBit ==
  ASSUME NEW l, NEW m \in Bits, NEW s \in Bits, NEW bit \in Bits, Deaf(l, 0, m, s)
  PROVE  /\ Deaf(MasterBit(l, bit), 0, bit, s)
         /\ Deaf(S1(Pulse(Slave(l, bit))), 0, m, 1)
<1>1. 0 \in Bits /\ 1 \in Bits
  BY DEF Bits
<1>2. l.wires = Wires(0, m, s)
  BY DEF Deaf
<1>3. Deaf(Data(l, bit), 0, bit, s) /\ Deaf(Slave(l, bit), 0, m, bit)
  <2>1. Deaf(Moved(l, Wires(0, bit, s)), 0, bit, s) /\ Deaf(Moved(l, Wires(0, m, bit)), 0, m, bit)
    BY <1>1, StaysDeaf
  <2>2. Data(l, bit) = Moved(l, Wires(0, bit, s)) /\ Slave(l, bit) = Moved(l, Wires(0, m, bit))
    BY <1>2, WiresMoved
  <2> QED
    BY <2>1, <2>2
<1>4. Deaf(MasterBit(l, bit), 0, bit, s)
  BY <1>1, <1>3, DeafPulse DEF MasterBit
<1>5. Deaf(Pulse(Slave(l, bit)), 0, m, bit)
  BY <1>1, <1>3, DeafPulse
<1>6. Deaf(S1(Pulse(Slave(l, bit))), 0, m, 1)
  BY <1>1, <1>5, DeafWrites
<1> QED
  BY <1>4, <1>6

\* A byte to the sensor, and one from it.
LEMMA DeafWritten ==
  ASSUME NEW l, NEW m \in Bits, NEW s \in Bits, NEW x \in Bytes, Deaf(l, 0, m, s)
  PROVE  \E bit \in Bits : Deaf(ForBits(l, x, MasterBit), 0, bit, s)
<1> DEFINE At(k) == \E bit \in Bits : Deaf(k, 0, bit, s)
<1>1. ASSUME NEW k, At(k), NEW bit \in Bits PROVE At(MasterBit(k, bit))
  BY <1>1, DeafBit
<1>2. \A w \in {1, 2, 4, 8, 16, 32, 64, 128} : BitOf(x, w) \in Bits
  BY BitsOfByte DEF BitOf, Bytes
<1>3. At(l)
  OBVIOUS
<1> DEFINE k1 == MasterBit(MasterBit(l, BitOf(x, 128)), BitOf(x, 64))
           k2 == MasterBit(MasterBit(k1, BitOf(x, 32)), BitOf(x, 16))
           k3 == MasterBit(MasterBit(k2, BitOf(x, 8)), BitOf(x, 4))
           k4 == MasterBit(MasterBit(k3, BitOf(x, 2)), BitOf(x, 1))
<1>4. ForBits(l, x, MasterBit) = k4
  BY DEF ForBits, BitOf
<1> HIDE DEF At
<1>5. At(k1)
  BY <1>1, <1>2, <1>3
<1> HIDE DEF k1
<1>6. At(k2)
  BY <1>1, <1>2, <1>5
<1> HIDE DEF k2
<1>7. At(k3)
  BY <1>1, <1>2, <1>6
<1> HIDE DEF k3
<1>8. At(k4)
  BY <1>1, <1>2, <1>7
<1> QED
  BY <1>4, <1>8 DEF At

\* A bit of shtRead8.
ShtBit(l, bit) == S1(Pulse(Slave(l, bit)))

\* The bits of a byte that the SHT1x sends.
LEMMA DeafRead ==
  ASSUME NEW l, NEW m \in Bits, NEW s \in Bits, NEW x \in Bytes, Deaf(l, 0, m, s)
  PROVE  Deaf(ForBits(l, x, ShtBit), 0, m, 1)
<1> DEFINE At(k) == Deaf(k, 0, m, 1)
           k0 == ShtBit(l, BitOf(x, 128))
           k1 == ShtBit(k0, BitOf(x, 64))
           k2 == ShtBit(ShtBit(k1, BitOf(x, 32)), BitOf(x, 16))
           k3 == ShtBit(ShtBit(k2, BitOf(x, 8)), BitOf(x, 4))
           k4 == ShtBit(ShtBit(k3, BitOf(x, 2)), BitOf(x, 1))
<1>1. ASSUME NEW k, At(k), NEW bit \in Bits PROVE At(ShtBit(k, bit))
  <2>1. 1 \in Bits
    BY DEF Bits
  <2> QED
    BY <1>1, <2>1, DeafBit DEF ShtBit
<1>2. \A w \in {1, 2, 4, 8, 16, 32, 64, 128} : BitOf(x, w) \in Bits
  BY BitsOfByte DEF BitOf, Bytes
<1>3. At(k0)
  BY <1>2, DeafBit DEF ShtBit
<1>4. ForBits(l, x, ShtBit) = k4
  BY DEF ForBits, BitOf
<1> HIDE DEF At, k0
<1>5. At(k1)
  BY <1>1, <1>2, <1>3
<1> HIDE DEF k1
<1>6. At(k2)
  BY <1>1, <1>2, <1>5
<1> HIDE DEF k2
<1>7. At(k3)
  BY <1>1, <1>2, <1>6
<1> HIDE DEF k3
<1>8. At(k4)
  BY <1>1, <1>2, <1>7
<1> QED
  BY <1>4, <1>8 DEF At

-----------------------------------------------------------------------------
(* The SHT1x driver *)

\* The sensor has let go of the data line; the driver waits with the clock down for
\* what it says; it may hold the data line.
ShtFree(b)  == Stocked(b) /\ \E c \in Bits, m \in Bits : Deaf(b.line, c, m, 1)
ShtReady(b) == Stocked(b) /\ Deaf(b.line, 0, 1, 1)
ShtHeld(b)  == Stocked(b) /\ \E s \in Bits : Deaf(b.line, 0, 1, s)

\* How the driver leaves the lines is one of the ways it may find them.
LEMMA ReadyIsFree ==
  ASSUME NEW b, ShtReady(b)
  PROVE  ShtFree(b) /\ ShtHeld(b)
BY DEF ShtReady, ShtFree, ShtHeld, Bits

\* What a call returns is not on the lines.
LEMMA ShtGot ==
  ASSUME NEW b, ShtReady(b), NEW x
  PROVE  ShtReady(Got(b, x))
BY Fields DEF ShtReady, Stocked

\* What is written to the lines decides.
LEMMA DriveReady ==
  ASSUME NEW b, Stocked(b), NEW l, Deaf(l, 0, 1, 1)
  PROVE  ShtReady(Drive(b, l))
BY Fields DEF ShtReady, Stocked

\* A session begins with the lines free for an SHT1x too.
LEMMA CalmIsFree ==
  ASSUME NEW nacks, NEW data \in Seq(Bytes), NEW d
  PROVE  ShtFree(Session(nacks, data)) /\ ShtFree(Put(Session(nacks, data), d))
<1> DEFINE b == Session(nacks, data)
<1>1. b.line = Quiet /\ b.data = data
  BY DEF Session, Bus
<1> HIDE DEF b
<1>2. Put(b, d).line = Quiet /\ Put(b, d).data = data
  BY <1>1, Fields, ZenonT(40)
<1>3. Deaf(Quiet, 1, 1, 1) /\ 1 \in Bits
  <2>1. Quiet.wires = [clock |-> 1, master |-> 1, slave |-> 1] /\ Quiet.i2c = Device(FREE, 0, <<>>)
    BY DEF Quiet
  <2>2. <<>> \in Marks
    BY DEF Marks
  <2> QED
    BY <2>1, <2>2 DEF Deaf, Bits, Wires
<1>4. ShtFree(b) /\ ShtFree(Put(b, d))
  BY <1>1, <1>2, <1>3 DEF ShtFree, Stocked
<1> QED
  BY <1>4 DEF b

\* From any of these states the driver gets the two lines where it wants them.
LEMMA Gathered ==
  ASSUME NEW l, NEW c \in Bits, NEW m \in Bits, NEW s \in Bits, Deaf(l, c, m, s)
  PROVE  Deaf(C0(D1(l)), 0, 1, s) /\ Deaf(D1(C1(l)), 1, 1, s)
<1>1. 1 \in Bits
  BY DEF Bits
<1>2. Deaf(D1(l), c, 1, s) /\ Deaf(C1(l), 1, m, s)
  BY DeafWrites
<1> QED
  BY <1>1, <1>2, DeafWrites

\* shtReset.
LEMMA ShtResetReady ==
  ASSUME NEW b, ShtFree(b)
  PROVE  ShtReady(shtReset(b))
<1>1. 0 \in Bits /\ 1 \in Bits
  BY DEF Bits
<1> DEFINE At(l) == Deaf(l, 0, 1, 1)
           Three(l) == Pulse(Pulse(Pulse(l)))
           after    == Three(Three(Three(C0(D1(b.line)))))
<1>2. At(C0(D1(b.line)))
  BY <1>1, Gathered DEF ShtFree
<1>3. ASSUME NEW l, At(l) PROVE At(Three(l))
  BY <1>1, <1>3, DeafPulse
<1> HIDE DEF At, Three
<1>4. At(after)
  BY <1>2, <1>3
<1>5. shtReset(b) = Drive(b, after)
  BY DEF shtReset, Three
<1> HIDE DEF after
<1> QED
  BY <1>4, <1>5, DriveReady DEF At, ShtFree

\* shtStart, whose two falls and rises of the data line are marks and no more.
LEMMA ShtStartReady ==
  ASSUME NEW b, ShtFree(b)
  PROVE  ShtReady(shtStart(b))
<1>1. 0 \in Bits /\ 1 \in Bits
  BY DEF Bits
<1> DEFINE l     == C1(C0(D1(b.line)))
           after == C0(D1(C1(C0(D0(l)))))
<1>2. Deaf(l, 1, 1, 1)
  <2>1. Deaf(C0(D1(b.line)), 0, 1, 1)
    BY <1>1, Gathered DEF ShtFree
  <2> QED
    BY <1>1, <2>1, DeafWrites
<1> HIDE DEF l
<1>3. Deaf(after, 0, 1, 1)
  BY <1>1, <1>2, StartStop, DeafWrites
<1>4. shtStart(b) = Drive(b, after)
  BY DEF shtStart, l
<1> HIDE DEF after
<1> QED
  BY <1>3, <1>4, DriveReady DEF ShtFree

\* shtSendAck.
LEMMA ShtSendAckReady ==
  ASSUME NEW b, ShtReady(b)
  PROVE  ShtReady(shtSendAck(b))
<1>1. 0 \in Bits /\ 1 \in Bits
  BY DEF Bits
<1> DEFINE after == D1(Pulse(D0(b.line)))
<1>2. Deaf(D0(b.line), 0, 0, 1)
  BY <1>1, DeafWrites DEF ShtReady
<1>3. Deaf(Pulse(D0(b.line)), 0, 0, 1)
  BY <1>1, <1>2, DeafPulse
<1>4. Deaf(after, 0, 1, 1)
  BY <1>1, <1>3, DeafWrites
<1>5. shtSendAck(b) = Drive(b, after)
  BY DEF shtSendAck
<1> HIDE DEF after
<1> QED
  BY <1>4, <1>5, DriveReady DEF ShtReady

\* shtReadAck, answered or not.
LEMMA ShtReadAckReady ==
  ASSUME NEW b, ShtReady(b)
  PROVE  ShtReady(shtReadAck(b))
<1>1. 0 \in Bits /\ 1 \in Bits
  BY DEF Bits
<1> DEFINE x     == Answered(Drive(b, D1(b.line)))
           after == S1(Pulse(S0(x.line)))
<1>2. ShtReady(x)
  <2>1. x.line = D1(b.line) /\ x.data = b.data
    BY DEF Answered, Drive, Bus
  <2>2. Deaf(D1(b.line), 0, 1, 1)
    BY <1>1, DeafWrites DEF ShtReady
  <2> HIDE DEF x
  <2> QED
    BY <2>1, <2>2 DEF ShtReady, Stocked
<1>3. shtReadAck(b) = IF x.got = 0 THEN Drive(x, after) ELSE x
  BY DEF shtReadAck, IfDone, Same
<1> HIDE DEF x
<1>4. Deaf(after, 0, 1, 1)
  <2>1. Deaf(S0(x.line), 0, 1, 0)
    BY <1>1, <1>2, DeafWrites DEF ShtReady
  <2>2. Deaf(Pulse(S0(x.line)), 0, 1, 0)
    BY <1>1, <2>1, DeafPulse
  <2> QED
    BY <1>1, <2>2, DeafWrites
<1> HIDE DEF after
<1>5. ShtReady(Drive(x, after))
  BY <1>2, <1>4, DriveReady DEF ShtReady
<1> QED
  BY <1>2, <1>3, <1>5

\* shtWrite8.
LEMMA ShtWriteReady ==
  ASSUME NEW b, ShtReady(b), NEW x \in Bytes
  PROVE  ShtReady(shtWrite8(b, x))
<1>1. 0 \in Bits /\ 1 \in Bits
  BY DEF Bits
<1> DEFINE l == C0(D1(b.line))
           k == ForBits(l, x, MasterBit)
<1>2. Deaf(l, 0, 1, 1)
  BY <1>1, Gathered DEF ShtReady
<1> HIDE DEF l
<1>3. \E bit \in Bits : Deaf(k, 0, bit, 1)
  BY <1>1, <1>2, DeafWritten
<1> HIDE DEF k
<1>4. Deaf(D1(k), 0, 1, 1)
  BY <1>1, <1>3, DeafWrites
<1>5. shtWrite8(b, x) = Drive(b, D1(k))
  BY DEF shtWrite8, k, l
<1> QED
  BY <1>4, <1>5, DriveReady DEF ShtReady

\* shtRead8.
LEMMA ShtReadReady ==
  ASSUME NEW b, ShtHeld(b)
  PROVE  ShtReady(shtRead8(b))
<1>1. 0 \in Bits /\ 1 \in Bits
  BY DEF Bits
<1> DEFINE x    == Sends(Drive(b, C0(D1(b.line))))
           k    == ForBits(x.line, x.got, ShtBit)
<1>2. PICK s \in Bits : Deaf(b.line, 0, 1, s)
  BY DEF ShtHeld
<1>3. Deaf(C0(D1(b.line)), 0, 1, s)
  BY <1>1, <1>2, Gathered
<1>4. x.line = C0(D1(b.line)) /\ x.got \in Bytes /\ x.data \in Seq(Bytes)
  <2> DEFINE y == Drive(b, C0(D1(b.line)))
  <2>1. y.line = C0(D1(b.line)) /\ y.data \in Seq(Bytes)
    <3>1. Stocked(b)
      BY DEF ShtHeld
    <3> QED
      BY <3>1, Fields DEF Stocked
  <2> HIDE DEF y
  <2>2. Sends(y).line = y.line /\ Sends(y).got \in Bytes /\ Sends(y).data \in Seq(Bytes)
    BY <2>1, SendsByte
  <2> QED
    BY <2>1, <2>2 DEF y
<1>5. shtRead8(b) = Drive(x, k)
  BY DEF shtRead8, ShtBit
<1> HIDE DEF x
<1>6. Deaf(k, 0, 1, 1)
  BY <1>1, <1>3, <1>4, DeafRead
<1> HIDE DEF k
<1> QED
  BY <1>4, <1>5, <1>6, DriveReady DEF Stocked

\* shtRead16.
LEMMA ShtRead16Ready ==
  ASSUME NEW b, ShtHeld(b)
  PROVE  ShtReady(shtRead16(b))
<1> DEFINE x == shtRead8(b)
           y == shtRead8(shtSendAck(x))
<1>1. ShtReady(x)
  BY ShtReadReady
<1>2. ShtReady(y)
  BY <1>1, ShtSendAckReady, ReadyIsFree, ShtReadReady
<1>3. shtRead16(b) = Got(y, 256 * x.got + y.got)
  BY DEF shtRead16
<1> HIDE DEF x, y
<1> QED
  BY <1>2, <1>3, ShtGot

\* shtWaitForConversion: a sensor that has measured still holds the line.
LEMMA ShtWaitHeld ==
  ASSUME NEW b, ShtReady(b)
  PROVE  LET after == shtWaitForConversion(b)
         IN ShtHeld(after) /\ (after.got # 0 => ShtReady(after))
<1>1. 0 \in Bits /\ 1 \in Bits
  BY DEF Bits
<1> DEFINE l     == C0(D1(b.line))
           x     == Answered(Drive(b, l))
           after == shtWaitForConversion(b)
<1>2. Deaf(l, 0, 1, 1)
  BY <1>1, Gathered DEF ShtReady
<1> HIDE DEF l
<1>3. ShtReady(x)
  <2>1. x.line = l /\ x.data = b.data
    BY DEF Answered, Drive, Bus
  <2> HIDE DEF x
  <2> QED
    BY <1>2, <2>1 DEF ShtReady, Stocked
<1>4. after = IF x.got = 0 THEN Drive(x, S0(x.line)) ELSE x
  BY DEF shtWaitForConversion, IfDone, Same, l
<1> HIDE DEF x
<1>5. Deaf(S0(x.line), 0, 1, 0)
  BY <1>1, <1>3, DeafWrites DEF ShtReady
<1>6. CASE x.got = 0
  <2> DEFINE y == Drive(x, S0(x.line))
  <2>1. y.line = S0(x.line) /\ y.data = x.data /\ y.got = x.got
    BY Fields
  <2> HIDE DEF y
  <2>2. ShtHeld(y) /\ y.got = 0
    BY <1>1, <1>3, <1>5, <1>6, <2>1 DEF ShtHeld, ShtReady, Stocked
  <2> QED
    BY <1>4, <1>6, <2>2 DEF y
<1>7. CASE x.got # 0
  BY <1>3, <1>4, <1>7, ReadyIsFree
<1> QED
  BY <1>6, <1>7

\* A measurement, however it ends.
LEMMA ShtMeasureReady ==
  ASSUME NEW b, ShtFree(b), NEW command \in Bytes
  PROVE  ShtReady(ShtMeasure(b, command))
<1> DEFINE asked  == shtReadAck(shtWrite8(shtStart(b), command))
           waited == shtWaitForConversion(asked)
           word   == shtRead16(waited)
           last   == shtSendAck(shtRead8(shtSendAck(word)))
           result == IF last.got = shtCalculateCRC(0, command, word.got \div 256, word.got % 256)
                       THEN word.got ELSE -1
           after  == ShtMeasure(b, command)
<1>1. ShtReady(asked)
  BY ShtStartReady, ShtWriteReady, ShtReadAckReady
<1>2. ShtHeld(waited) /\ (waited.got # 0 => ShtReady(waited))
  BY <1>1, ShtWaitHeld
<1>3. after = IF asked.got = 0 THEN (IF waited.got = 0 THEN Got(last, result) ELSE Got(waited, -1))
              ELSE Got(asked, -1)
  BY DEF ShtMeasure, IfDone
<1>4. ShtReady(word)
  BY <1>2, ShtRead16Ready
<1>5. ShtReady(last)
  BY <1>4, ShtSendAckReady, ReadyIsFree, ShtReadReady
<1> HIDE DEF asked, waited, word, last, result
<1>6. CASE asked.got # 0
  BY <1>1, <1>3, <1>6, ShtGot
<1>7. CASE asked.got = 0 /\ waited.got # 0
  BY <1>2, <1>3, <1>7, ShtGot
<1>8. CASE asked.got = 0 /\ waited.got = 0
  BY <1>3, <1>5, <1>8, ShtGot
<1> QED
  BY <1>6, <1>7, <1>8

\* Whatever is said to an SHT1x, both lines are let go of in the end, and nobody else
\* has heard a byte.
Undisturbed(b) == Deaf(b.line, 1, 1, 1)

\* shtInit, with a sensor or without.
LEMMA ShtInitUndisturbed ==
  ASSUME NEW b, ShtFree(b)
  PROVE  Undisturbed(shtInit(b))
<1>1. 0 \in Bits /\ 1 \in Bits
  BY DEF Bits
<1> DEFINE low   == Drive(b, C0(D1(b.line)))
           asked == shtReadAck(shtWrite8(shtStart(shtReset(low)), 7))
           found == shtSendAck(shtRead16(asked))
           End(x) == Drive(x, C1(x.line))
<1>2. ShtReady(low)
  <2>1. Deaf(C0(D1(b.line)), 0, 1, 1)
    BY <1>1, Gathered DEF ShtFree
  <2> QED
    BY <2>1, DriveReady DEF ShtFree
<1>3. ShtReady(asked)
  <2> HIDE DEF low
  <2>1. 7 \in Bytes
    BY DEF Bytes
  <2>2. ShtReady(shtReset(low))
    BY <1>2, ReadyIsFree, ShtResetReady
  <2>3. ShtReady(shtStart(shtReset(low)))
    BY <2>2, ReadyIsFree, ShtStartReady
  <2> QED
    BY <2>1, <2>3, ShtWriteReady, ShtReadAckReady
<1>4. ShtReady(found)
  BY <1>3, ReadyIsFree, ShtRead16Ready, ShtSendAckReady
<1>5. ASSUME NEW x, ShtReady(x), NEW rtn, NEW d
      PROVE  Undisturbed(Returns(End(x), rtn)) /\ Undisturbed(Put(Returns(End(x), rtn), d))
  <2>1. Deaf(C1(x.line), 1, 1, 1)
    BY <1>1, <1>5, DeafWrites DEF ShtReady
  <2>2. Returns(End(x), rtn).line = C1(x.line) /\ Put(Returns(End(x), rtn), d).line = C1(x.line)
    <3> DEFINE y == End(x)
    <3>1. y.line = C1(x.line)
      BY Fields
    <3> HIDE DEF End
    <3>2. Got(y, rtn).line = y.line /\ Put(Got(y, rtn), d).line = Got(y, rtn).line
      BY Fields, ZenonT(40)
    <3> QED
      BY <3>1, <3>2 DEF Returns
  <2> QED
    BY <2>1, <2>2 DEF Undisturbed
<1>6. shtInit(b) = IF asked.got = 0 THEN Put(Returns(End(found), SENSOR_RTN_OK), <<0, 0>>)
                   ELSE Returns(End(asked), SENSOR_RTN_FAILED)
  BY DEF shtInit, IfDone
<1> HIDE DEF asked, found, End
<1> QED
  BY <1>3, <1>4, <1>5, <1>6

\* shtRead, however its two measurements end.
LEMMA ShtReadUndisturbed ==
  ASSUME NEW b, ShtFree(b)
  PROVE  Undisturbed(shtRead(b))
<1>1. 0 \in Bits /\ 1 \in Bits
  BY DEF Bits
<1> DEFINE first  == ShtMeasure(b, 3)
           second == ShtMeasure(first, 5)
           End(x) == Drive(x, D1(C1(x.line)))
<1>2. ShtReady(first)
  <2>1. 3 \in Bytes
    BY DEF Bytes
  <2> QED
    BY <2>1, ShtMeasureReady
<1>3. ShtReady(second)
  <2> HIDE DEF first
  <2>1. 5 \in Bytes
    BY DEF Bytes
  <2> QED
    BY <1>2, <2>1, ReadyIsFree, ShtMeasureReady
<1>4. ASSUME NEW x, ShtReady(x), NEW rtn, NEW d PROVE Undisturbed(Stores(End(x), rtn, d))
  <2>1. Deaf(D1(C1(x.line)), 1, 1, 1)
    BY <1>1, <1>4, Gathered DEF ShtReady
  <2>2. Stores(End(x), rtn, d).line = D1(C1(x.line))
    BY Fields DEF Stores
  <2> QED
    BY <2>1, <2>2 DEF Undisturbed
<1>5. shtRead(b) =
        IF first.got = -1 THEN Stores(End(first), SENSOR_RTN_FAILED, b.d)
        ELSE IF second.got = -1 THEN Stores(End(second), SENSOR_RTN_FAILED, <<first.got, b.d[2]>>)
        ELSE Stores(End(second), SENSOR_RTN_OK, <<first.got, second.got>>)
  BY DEF shtRead
<1> HIDE DEF first, second, End
<1>6. CASE first.got = -1
  BY <1>2, <1>4, <1>5, <1>6
<1>7. CASE first.got # -1
  BY <1>3, <1>4, <1>5, <1>7
<1> QED
  BY <1>6, <1>7

-----------------------------------------------------------------------------
(* The drivers share the bus *)

BusInputType == [driver : Drivers, nacks : SUBSET Nat, data : Seq(Bytes)]

\* What the two kinds of driver leave behind is what their neighbours need.
LEMMA CalmShares ==
  ASSUME NEW b, Calm(b)
  PROVE  /\ Released(b)
         /\ b.line.sht.starts = 0 /\ b.line.i2c.heard \in Seq({START, STOP} \cup 0 .. 255)
<1>1. PICK h \in Heard : b.line = Idle(h)
  BY DEF Calm
<1>2. /\ b.line.wires = [clock |-> 1, master |-> 1, slave |-> 1]
      /\ b.line.i2c = Device(FREE, 0, h) /\ b.line.sht = [stage |-> 0, starts |-> 0]
  BY <1>1 DEF Idle, Line
<1>3. b.line.i2c.next = FREE /\ b.line.i2c.heard = h
  BY <1>2 DEF Device
<1>4. b.line.sht.starts = 0
  BY <1>2
<1> QED
  BY <1>2, <1>3, <1>4 DEF Released, Heard, Bytes

\* After an SHT1x, as its neighbours need it.
LEMMA UndisturbedShares ==
  ASSUME NEW b, Undisturbed(b)
  PROVE  Released(b) /\ b.line.i2c.heard \in Seq({START, STOP})
<1>1. PICK h \in Marks : b.line.i2c = Device(FREE, 0, h)
  BY DEF Undisturbed, Deaf
<1>2. b.line.wires = [clock |-> 1, master |-> 1, slave |-> 1]
  BY DEF Undisturbed, Deaf, Wires
<1>3. b.line.i2c.next = FREE /\ b.line.i2c.heard = h
  BY <1>1 DEF Device
<1> QED
  BY <1>2, <1>3 DEF Released, Marks

\* Every driver, from a quiet bus, whatever the device refuses or sends.
LEMMA EveryDriver ==
  ASSUME NEW x \in BusInputType
  PROVE  LET after == Driver(x.driver, Session(x.nacks, x.data))
         IN Released(after) /\ NeighboursUndisturbed(x.driver, after.line)
<1> DEFINE b == Session(x.nacks, x.data)
           after == Driver(x.driver, b)
           Sht == x.driver \in {"shtInit", "shtRead"}
<1>1. Calm(b) /\ ShtFree(b) /\ ShtFree(Put(b, <<0, 0>>))
  BY SessionCalm, CalmIsFree DEF BusInputType
<1>2. x.driver \in Drivers
  BY DEF BusInputType
<1> HIDE DEF b
<1>3. /\ Driver("sht3Init", b) = sht3Init(b) /\ Driver("sht3Read", b) = sht3Read(b)
      /\ Driver("bmpInit", b) = bmpInit(b) /\ Driver("bmpRead", b) = bmpRead(b)
  BY DEF Driver
<1>4. /\ Driver("bmx280Init", b) = bmx280Init(b)
      /\ Driver("bmx280Read", b) = bmx280Read(b, FALSE)
      /\ Driver("bme280Read", b) = bmx280Read(b, TRUE)
  BY DEF Driver
<1>5. Driver("msInit", b) = msInit(b) /\ Driver("msRead", b) = msRead(b)
  BY DEF Driver
<1>6. /\ Driver("shtInit", b) = shtInit(b)
      /\ Driver("shtRead", b) = shtRead(Put(b, <<0, 0>>))
  BY DEF Driver
<1>7. CASE Sht
  <2>1. Undisturbed(after)
    BY <1>1, <1>6, <1>7, ShtInitUndisturbed, ShtReadUndisturbed
  <2> QED
    BY <2>1, <1>7, UndisturbedShares DEF NeighboursUndisturbed, b
<1>8. CASE ~Sht
  <2>1. Calm(after)
    <3>1. x.driver \in {"sht3Init", "sht3Read", "bmpInit", "bmpRead"} => Calm(after)
      BY <1>1, <1>3, Sht3InitCalm, Sht3ReadCalm, BmpInitCalm, BmpReadCalm
    <3>2. x.driver \in {"bmx280Init", "bmx280Read", "bme280Read"} => Calm(after)
      BY <1>1, <1>4, Bmx280InitCalm, Bmx280ReadCalm
    <3>3. x.driver \in {"msInit", "msRead"} => Calm(after)
      BY <1>1, <1>5, MsInitCalm, MsReadCalm
    <3>4. \/ x.driver \in {"sht3Init", "sht3Read", "bmpInit", "bmpRead"}
          \/ x.driver \in {"bmx280Init", "bmx280Read", "bme280Read"}
          \/ x.driver \in {"msInit", "msRead"}
      BY <1>2, <1>8 DEF Drivers
    <3> QED
      BY <3>1, <3>2, <3>3, <3>4
  <2> QED
    BY <2>1, <1>8, CalmShares DEF NeighboursUndisturbed, b
<1> QED
  BY <1>7, <1>8

-----------------------------------------------------------------------------
(* A register is read, and written *)

\* How far a transfer has come: what the devices have heard, how many bytes were sent,
\* which of them are refused, and what the device has left to send.
Stands(b, line, nacks, sent, data) ==
  b.line = line /\ b.nacks = nacks /\ b.sent = sent /\ b.data = data

\* What one call makes of a transfer.
LEMMA StandsGot ==
  ASSUME NEW b, NEW l, NEW n, NEW s, NEW d, Stands(b, l, n, s, d), NEW x
  PROVE  Stands(Got(b, x), l, n, s, d) /\ Got(b, x).got = x
BY Fields DEF Stands

\* A beginning.
LEMMA StandsStart ==
  ASSUME NEW b, NEW h, NEW n, NEW s, NEW d,
         Stands(b, Idle(h), n, s, d) \/ Stands(b, Between(1, h), n, s, d)
  PROVE  Stands(i2cSendStart(b), Begun(Append(h, START)), n, s, d)
<1>1. i2cSendStart(b) = Drive(b, Begun(Append(h, START)))
  BY SendStart DEF Stands
<1>2. b.nacks = n /\ b.sent = s /\ b.data = d
  BY DEF Stands
<1> QED
  BY <1>1, <1>2, Fields DEF Stands

\* A byte is written, and counted.
LEMMA StandsWritten ==
  ASSUME NEW b, NEW h, NEW n, NEW s, NEW d, NEW x \in Bytes,
         Stands(b, Begun(h), n, s, d) \/ Stands(b, Between(1, h), n, s, d)
  PROVE  /\ Stands(i2cWriteByte(b, x), Between(1, Append(h, x)), n, s + 1, d)
         /\ i2cWriteByte(b, x).got = IF s + 1 \in n THEN 1 ELSE 0
<1>1. i2cWriteByte(b, x) = Drive(Answered(b), Between(1, Append(h, x)))
  <2>1. b.line = Begun(h) \/ \E m \in Bits : b.line = Between(m, h)
    BY DEF Stands, Bits
  <2> QED
    BY <2>1, WriteByte
<1>2. b.nacks = n /\ b.sent = s /\ b.data = d
  BY DEF Stands
<1> QED
  BY <1>1, <1>2, Fields, AnsweredFields DEF Stands

\* A byte is read, acknowledged or as the last one.
LEMMA StandsRead ==
  ASSUME NEW b, NEW h, NEW n, NEW s, NEW d \in Seq(Bytes), d # <<>>, NEW m \in Bits,
         Stands(b, Between(m, h), n, s, d)
  PROVE  LET acked == i2cReadByte(b, TRUE)
             last  == i2cReadByte(b, FALSE)
         IN /\ Stands(acked, Between(0, Append(h, Head(d))), n, s, Tail(d))
            /\ Stands(last, Between(1, Append(h, Head(d))), n, s, Tail(d))
            /\ acked.got = Head(d) /\ last.got = Head(d)
<1>1. b.line = Between(m, h) /\ b.nacks = n /\ b.sent = s /\ b.data = d
  BY DEF Stands
<1>2. /\ Sends(b).got = Head(d) /\ Sends(b).data = Tail(d)
      /\ Sends(b).nacks = n /\ Sends(b).sent = s
  BY <1>1 DEF Sends, Bus
<1>3. i2cReadByte(b, TRUE) = Drive(Sends(b), Between(0, Append(h, Head(d))))
  BY <1>1, <1>2, ReadByte
<1>4. i2cReadByte(b, FALSE) = Drive(Sends(b), Between(1, Append(h, Head(d))))
  BY <1>1, <1>2, ReadByte
<1>5. \A l : Stands(Drive(Sends(b), l), l, n, s, Tail(d)) /\ Drive(Sends(b), l).got = Head(d)
  BY <1>2, Fields, SMTT(30) DEF Stands
<1> QED
  BY <1>3, <1>4, <1>5

\* The end of it.
LEMMA StandsStopped ==
  ASSUME NEW b, NEW h, NEW n, NEW s, NEW d, NEW m \in Bits, Stands(b, Between(m, h), n, s, d)
  PROVE  /\ Stands(i2cSendStop(b), Idle(Append(h, STOP)), n, s, d)
         /\ i2cSendStop(b).got = b.got
         /\ \A x : Stands(Stopped(b, x), Idle(Append(h, STOP)), n, s, d) /\ Stopped(b, x).got = x
<1>1. i2cSendStop(b) = Drive(b, Idle(Append(h, STOP)))
  BY SendStop DEF Stands
<1>2. b.nacks = n /\ b.sent = s /\ b.data = d
  BY DEF Stands
<1>3. Stands(i2cSendStop(b), Idle(Append(h, STOP)), n, s, d) /\ i2cSendStop(b).got = b.got
  BY <1>1, <1>2, Fields DEF Stands
<1> QED
  BY <1>3, StandsGot DEF Stopped

\* Device and register are written, and the transaction stays open if both are
\* acknowledged; otherwise it ends.
LEMMA StandsCommand ==
  ASSUME NEW b, NEW h, NEW n, NEW d, Stands(b, Idle(h), n, 0, d),
         NEW device \in 0 .. 127, NEW value \in Bytes
  PROVE  LET after     == i2cWriteCmd(b, device, value, FALSE)
             addressed == Append(Append(h, START), 2 * device)
             written   == Append(addressed, value)
         IN /\ 1 \in n => Stands(after, Idle(Append(addressed, STOP)), n, 1, d)
            /\ 1 \notin n /\ 2 \in n => Stands(after, Idle(Append(written, STOP)), n, 2, d)
            /\ 1 \notin n /\ 2 \notin n => Stands(after, Between(1, written), n, 2, d)
            /\ after.got = IF 1 \in n \/ 2 \in n THEN -1 ELSE 0
<1> DEFINE addr  == i2cWriteByte(i2cSendStart(b), 2 * device)
           last  == i2cWriteByte(addr, value)
           after == i2cWriteCmd(b, device, value, FALSE)
           one   == Append(Append(h, START), 2 * device)
           two   == Append(one, value)
<1>0. 1 \in Bits
  BY DEF Bits
<1>1. Stands(addr, Between(1, one), n, 1, d) /\ addr.got = IF 1 \in n THEN 1 ELSE 0
  <2>1. 2 * device \in Bytes
    BY DEF Bytes
  <2>2. Stands(i2cSendStart(b), Begun(Append(h, START)), n, 0, d)
    BY StandsStart
  <2>3. 0 + 1 = 1
    OBVIOUS
  <2> QED
    BY <2>1, <2>2, <2>3, StandsWritten
<1>2. Stands(last, Between(1, two), n, 2, d) /\ last.got = IF 2 \in n THEN 1 ELSE 0
  <2> HIDE DEF addr, one
  <2>1. 1 + 1 = 2
    OBVIOUS
  <2> QED
    BY <1>1, <2>1, StandsWritten
<1>3. after = IF addr.got # 0 THEN Stopped(addr, -1)
              ELSE IF last.got # 0 THEN Stopped(last, -1) ELSE last
  BY DEF i2cWriteCmd, Addressed, Commanded
<1> HIDE DEF addr, last, after, one, two
<1>4. /\ Stands(Stopped(addr, -1), Idle(Append(one, STOP)), n, 1, d)
      /\ Stopped(addr, -1).got = -1
      /\ Stands(Stopped(last, -1), Idle(Append(two, STOP)), n, 2, d)
      /\ Stopped(last, -1).got = -1
  BY <1>0, <1>1, <1>2, StandsStopped
<1>5. CASE 1 \in n
  <2>1. after = Stopped(addr, -1)
    BY <1>1, <1>3, <1>5
  <2> QED
    BY <1>4, <1>5, <2>1 DEF after, one, two
<1>6. CASE 1 \notin n /\ 2 \in n
  BY <1>1, <1>2, <1>3, <1>4, <1>6 DEF after, one, two
<1>7. CASE 1 \notin n /\ 2 \notin n
  BY <1>1, <1>2, <1>3, <1>7 DEF after, one, two
<1> QED
  BY <1>5, <1>6, <1>7

\* The first of some bytes goes from the front of what is left to the end of what was
\* read.
LEMMA FirstOf ==
  ASSUME NEW S, Bytes \subseteq S, NEW h \in Seq(S), NEW d \in Seq(Bytes), d # <<>>
  PROVE  /\ Head(d) = d[1] /\ Head(d) \in Bytes /\ Append(h, Head(d)) \in Seq(S)
         /\ Tail(d) \in Seq(Bytes) /\ Len(Tail(d)) = Len(d) - 1
         /\ \A i \in 1 .. Len(d) - 1 : Tail(d)[i] = d[i + 1]
         /\ Append(h, Head(d)) \o Tail(d) = h \o d
<1>1. /\ Head(d) \in Bytes /\ Tail(d) \in Seq(Bytes) /\ Len(Tail(d)) = Len(d) - 1
      /\ \A i \in 1 .. Len(Tail(d)) : Tail(d)[i] = d[i + 1]
  BY HeadTailProperties
<1>2. Head(d) = d[1]
  OBVIOUS
<1>4. d \in Seq(S) /\ Tail(d) \in Seq(S) /\ Head(d) \in S
  BY <1>1, SeqMonotonic
<1>5. Append(h, Head(d)) \in Seq(S)
  BY <1>4
<1>6. Append(h, Head(d)) \o Tail(d) = h \o d
  <2>1. Append(h, Head(d)) = h \o <<Head(d)>>
    BY <1>4, AppendIsConcat
  <2>2. <<Head(d)>> \in Seq(S)
    BY <1>4
  <2>3. (h \o <<Head(d)>>) \o Tail(d) = h \o (<<Head(d)>> \o Tail(d))
    BY <1>4, <2>2, ConcatAssociative
  <2>4. <<Head(d)>> \o Tail(d) = d
    <3> DEFINE e == <<Head(d)>> \o Tail(d)
    <3>1. /\ e \in Seq(S) /\ Len(e) = 1 + Len(Tail(d))
          /\ \A i \in 1 .. 1 + Len(Tail(d)) : e[i] = IF i <= 1 THEN Head(d) ELSE Tail(d)[i - 1]
      BY <1>4, <2>2, ConcatProperties
    <3>2. Len(e) = Len(d)
      BY <1>1, <3>1
    <3>3. \A i \in 1 .. Len(e) : e[i] = d[i]
      BY <1>1, <1>2, <3>1
    <3> HIDE DEF e
    <3>4. e = d
      BY <1>4, <3>1, <3>2, <3>3, SeqEqual
    <3> QED
      BY <3>4 DEF e
  <2> QED
    BY <2>1, <2>3, <2>4
<1> QED
  BY <1>1, <1>2, <1>5, <1>6

\* Without a further one, everything was read.
LEMMA NoneLeft ==
  ASSUME NEW d \in Seq(Bytes)
  PROVE  /\ Len(d) = 0 => d = <<>> /\ \A S : \A h \in Seq(S) : h \o d = h
         /\ Len(d) # 0 => d # <<>>
<1>1. Len(d) = 0 => d = <<>>
  BY EmptySeq
<1>2. \A S : \A h \in Seq(S) : h \o <<>> = h
  BY ConcatEmptySeq
<1> QED
  BY <1>1, <1>2

\* What a number from 1 to 3 can be.
LEMMA OneToThree ==
  ASSUME NEW n \in 1 .. 3
  PROVE  (n = 1 \/ n = 2 \/ n = 3) /\ n # 0
OBVIOUS

\* How many bytes there are to read is up to the caller: one, two or three.
LEMMA InTurn ==
  ASSUME NEW S, Bytes \subseteq S, NEW h \in Seq(S), NEW d \in Seq(Bytes), Len(d) \in 1 .. 3
  PROVE  LET d1 == Tail(d)
             d2 == Tail(d1)
             h1 == Append(h, d[1])
             h2 == Append(h1, d[2])
         IN /\ d # <<>> /\ Head(d) = d[1] /\ d[1] \in Int
            /\ Len(d) = 1 => d1 = <<>> /\ h1 = h \o d
            /\ Len(d) # 1 => /\ d1 # <<>> /\ d1 \in Seq(Bytes) /\ Head(d1) = d[2]
                             /\ d[2] \in Int
            /\ Len(d) = 2 => d2 = <<>> /\ h2 = h \o d
            /\ Len(d) = 3 => /\ d2 # <<>> /\ d2 \in Seq(Bytes) /\ Head(d2) = d[3]
                             /\ d[3] \in Int
                             /\ Tail(d2) = <<>> /\ Append(h2, d[3]) = h \o d
<1> DEFINE d1 == Tail(d)
           d2 == Tail(d1)
           d3 == Tail(d2)
           h1 == Append(h, d[1])
           h2 == Append(h1, d[2])
           h3 == Append(h2, d[3])
<1>5. Len(d) = 1 \/ Len(d) = 2 \/ Len(d) = 3
  BY OneToThree, Zenon
<1>0. Bytes \subseteq Int
  BY DEF Bytes
<1>1. d # <<>>
  <2>1. Len(d) # 0
    BY OneToThree, Zenon
  <2> QED
    BY <2>1, NoneLeft
<1>2. /\ Head(d) = d[1] /\ d[1] \in Int /\ h1 \in Seq(S) /\ d1 \in Seq(Bytes)
      /\ Len(d1) = Len(d) - 1 /\ h1 \o d1 = h \o d
      /\ \A i \in 1 .. Len(d) - 1 : d1[i] = d[i + 1]
  BY <1>0, <1>1, FirstOf
<1> HIDE DEF d1, h1
<1>3. CASE Len(d) = 1
  <2>1. Len(d1) = 0
    BY <1>2, <1>3
  <2>2. d1 = <<>> /\ h1 = h \o d
    BY <1>2, <2>1, NoneLeft
  <2> QED
    BY <1>1, <1>2, <1>3, <2>2 DEF d1, h1
<1>4. CASE Len(d) # 1
  <2>1. Len(d1) # 0
    BY <1>2, <1>4, <1>5
  <2>2. d1 # <<>>
    BY <1>2, <2>1, NoneLeft
  <2>3. /\ Head(d1) = d1[1] /\ Head(d1) \in Bytes /\ Append(h1, Head(d1)) \in Seq(S)
        /\ d2 \in Seq(Bytes) /\ Len(d2) = Len(d1) - 1
        /\ \A i \in 1 .. Len(d1) - 1 : d2[i] = d1[i + 1]
        /\ Append(h1, Head(d1)) \o d2 = h1 \o d1
    BY <1>2, <2>2, FirstOf
  <2> HIDE DEF d2
  <2>4. d1[1] = d[2]
    <3>1. 1 \in 1 .. Len(d) - 1 /\ 1 + 1 = 2
      BY <1>4
    <3> QED
      BY <1>2, <3>1
  <2>5. Head(d1) = d[2] /\ d[2] \in Int /\ h2 \in Seq(S) /\ h2 \o d2 = h \o d
    BY <1>0, <1>2, <2>3, <2>4
  <2> HIDE DEF h2
  <2>6. CASE Len(d) = 2
    <3>1. Len(d2) = 0
      BY <1>2, <2>3, <2>6
    <3>2. d2 = <<>> /\ h2 = h \o d
      BY <2>3, <2>5, <3>1, NoneLeft
    <3> QED
      BY <1>1, <1>2, <2>2, <2>5, <2>6, <3>2 DEF d1, d2, h1, h2
  <2>7. CASE Len(d) = 3
    <3>1. Len(d2) = 1 /\ Len(d2) # 0
      BY <1>2, <2>3, <2>7
    <3>2. d2 # <<>>
      BY <2>3, <3>1, NoneLeft
    <3>3. /\ Head(d2) = d2[1] /\ Head(d2) \in Bytes /\ Append(h2, Head(d2)) \in Seq(S)
          /\ d3 \in Seq(Bytes) /\ Len(d3) = Len(d2) - 1
          /\ Append(h2, Head(d2)) \o d3 = h2 \o d2
      BY <2>3, <2>5, <3>2, FirstOf
    <3>4. d2[1] = d[3]
      <4>1. 1 \in 1 .. Len(d1) - 1 /\ 2 \in 1 .. Len(d) - 1 /\ 1 + 1 = 2 /\ 2 + 1 = 3
        BY <1>2, <2>7
      <4> QED
        BY <1>2, <2>3, <4>1
    <3> HIDE DEF d3
    <3>5. Head(d2) = d[3] /\ d[3] \in Int /\ h3 \in Seq(S) /\ h3 \o d3 = h \o d
      BY <1>0, <2>5, <3>3, <3>4
    <3> HIDE DEF h3
    <3>6. Len(d3) = 0
      BY <3>1, <3>3
    <3>7. d3 = <<>> /\ h3 = h \o d
      BY <3>3, <3>5, <3>6, NoneLeft
    <3>8. Len(d) # 1 /\ Len(d) # 2
      <4>1. 3 # 1 /\ 3 # 2
        OBVIOUS
      <4> QED
        BY <2>7, <4>1, Zenon
    <3> QED
      BY <1>1, <1>2, <2>2, <2>3, <2>5, <2>7, <3>2, <3>5, <3>7, <3>8, Zenon
      DEF d1, d2, d3, h1, h2, h3
  <2> QED
    BY <1>4, <1>5, <2>6, <2>7, Zenon
<1> QED
  BY <1>3, <1>4, Zenon

\* One more byte is read and put behind those before it, as StandsRead.
LEMMA StandsMore ==
  ASSUME NEW b, NEW h, NEW n, NEW s, NEW d \in Seq(Bytes), d # <<>>,
         Stands(b, Between(0, h), n, s, d)
  PROVE  LET acked == More(b, TRUE)
             last  == More(b, FALSE)
         IN /\ Stands(acked, Between(0, Append(h, Head(d))), n, s, Tail(d))
            /\ Stands(last, Between(1, Append(h, Head(d))), n, s, Tail(d))
            /\ acked.got = Behind(b.got, Head(d)) /\ last.got = Behind(b.got, Head(d))
<1> DEFINE acked == i2cReadByte(b, TRUE)
           last  == i2cReadByte(b, FALSE)
<1>0. 0 \in Bits
  BY DEF Bits
<1>1. /\ Stands(acked, Between(0, Append(h, Head(d))), n, s, Tail(d))
      /\ Stands(last, Between(1, Append(h, Head(d))), n, s, Tail(d))
      /\ acked.got = Head(d) /\ last.got = Head(d)
  BY <1>0, StandsRead
<1>2. /\ More(b, TRUE) = Got(acked, Behind(b.got, acked.got))
      /\ More(b, FALSE) = Got(last, Behind(b.got, last.got))
  BY DEF More, Both
<1> HIDE DEF acked, last
<1>3. \A x : /\ Stands(Got(acked, x), Between(0, Append(h, Head(d))), n, s, Tail(d))
             /\ Got(acked, x).got = x
  BY <1>1, StandsGot
<1>4. \A x : /\ Stands(Got(last, x), Between(1, Append(h, Head(d))), n, s, Tail(d))
             /\ Got(last, x).got = x
  BY <1>1, StandsGot
<1>5. /\ Stands(More(b, TRUE), Between(0, Append(h, Head(d))), n, s, Tail(d))
      /\ More(b, TRUE).got = Behind(b.got, Head(d))
  BY <1>1, <1>2, <1>3
<1>6. /\ Stands(More(b, FALSE), Between(1, Append(h, Head(d))), n, s, Tail(d))
      /\ More(b, FALSE).got = Behind(b.got, Head(d))
  BY <1>1, <1>2, <1>4
<1> QED
  BY <1>5, <1>6

\* One, two or three bytes are read, and make a number.
LEMMA StandsBytes ==
  ASSUME NEW b, NEW S, Bytes \subseteq S, NEW h \in Seq(S), NEW n, NEW s,
         NEW d \in Seq(Bytes), Len(d) \in 1 .. 3, Stands(b, Between(1, h), n, s, d)
  PROVE  /\ Stands(ReadBytes(b, Len(d)), Between(1, h \o d), n, s, <<>>)
         /\ ReadBytes(b, Len(d)).got = ValueOfBytes(d)
<1> DEFINE one   == i2cReadByte(b, FALSE)
           first == i2cReadByte(b, TRUE)
           d1    == Tail(d)
           h1    == Append(h, Head(d))
<1>0. 1 \in Bits
  BY DEF Bits
<1>1. d # <<>>
  BY InTurn, Zenon
<1>2. /\ Stands(one, Between(1, h1), n, s, d1) /\ one.got = Head(d)
      /\ Stands(first, Between(0, h1), n, s, d1) /\ first.got = Head(d)
  BY <1>0, <1>1, StandsRead
<1>3. /\ ReadBytes(b, 1) = one /\ ReadBytes(b, 2) = More(first, FALSE)
      /\ ReadBytes(b, 3) = More(More(first, TRUE), FALSE)
  BY BytesRead
<1> HIDE DEF one, first
<1>4. Head(d) = d[1]
  BY InTurn, Zenon
<1>5. CASE Len(d) = 1
  <2>1. d1 = <<>> /\ h1 = h \o d
    BY <1>4, <1>5, InTurn, Zenon
  <2>2. ValueOfBytes(d) = d[1]
    BY <1>5 DEF ValueOfBytes
  <2> HIDE DEF d1, h1
  <2>3. Stands(one, Between(1, h \o d), n, s, <<>>) /\ one.got = ValueOfBytes(d)
    BY <1>2, <1>4, <2>1, <2>2, Zenon
  <2> QED
    BY <1>3, <1>5, <2>3, Zenon
<1>6. CASE Len(d) # 1
  <2> DEFINE d2 == Tail(d1)
             h2 == Append(h1, Head(d1))
             two    == More(first, FALSE)
             second == More(first, TRUE)
  <2>1. d1 # <<>> /\ d1 \in Seq(Bytes)
    BY <1>6, InTurn, Zenon
  <2>2. Head(d1) = d[2]
    BY <1>6, InTurn, Zenon
  <2>3. d[1] \in Int /\ d[2] \in Int
    BY <1>6, InTurn, Zenon
  <2> HIDE DEF d1, h1
  <2>4. /\ Stands(two, Between(1, h2), n, s, d2) /\ two.got = Behind(first.got, Head(d1))
        /\ Stands(second, Between(0, h2), n, s, d2) /\ second.got = Behind(first.got, Head(d1))
    <3>1. Stands(first, Between(0, h1), n, s, d1)
      BY <1>2
    <3> QED
      BY <2>1, <3>1, StandsMore
  <2> HIDE DEF two, second
  <2>5. two.got = 256 * d[1] + d[2] /\ second.got = 256 * d[1] + d[2]
    BY <1>2, <1>4, <2>2, <2>4 DEF Behind
  <2>6. CASE Len(d) = 2
    <3>1. d2 = <<>> /\ h2 = h \o d
      BY <1>4, <2>2, <2>6, InTurn, Zenon DEF d1, h1
    <3>2. ValueOfBytes(d) = 256 * d[1] + d[2]
      BY <2>6 DEF ValueOfBytes
    <3> HIDE DEF d2, h2
    <3>3. Stands(two, Between(1, h \o d), n, s, <<>>) /\ two.got = ValueOfBytes(d)
      BY <2>4, <2>5, <3>1, <3>2, Zenon
    <3> QED
      BY <1>3, <2>6, <3>3, Zenon DEF two
  <2>7. CASE Len(d) = 3
    <3> DEFINE third == More(second, FALSE)
    <3>1. d2 # <<>> /\ d2 \in Seq(Bytes)
      BY <2>7, InTurn, Zenon DEF d1
    <3>2. Head(d2) = d[3] /\ d[3] \in Int
      BY <2>7, InTurn, Zenon DEF d1
    <3>3. Tail(d2) = <<>> /\ Append(h2, d[3]) = h \o d
      BY <1>4, <2>2, <2>7, InTurn, Zenon DEF d1, h1
    <3> HIDE DEF d2, h2
    <3>4. /\ Stands(third, Between(1, Append(h2, Head(d2))), n, s, Tail(d2))
          /\ third.got = Behind(second.got, Head(d2))
      <4>1. Stands(second, Between(0, h2), n, s, d2)
        BY <2>4
      <4> QED
        BY <3>1, <4>1, StandsMore DEF third
    <3>5. ValueOfBytes(d) = 65536 * d[1] + 256 * d[2] + d[3]
      BY <2>7 DEF ValueOfBytes
    <3> HIDE DEF third
    <3>6. third.got = ValueOfBytes(d)
      <4>1. third.got = 256 * (256 * d[1] + d[2]) + d[3]
        BY <2>5, <3>2, <3>4 DEF Behind
      <4> QED
        BY <2>3, <3>2, <3>5, <4>1
    <3>7. Stands(third, Between(1, h \o d), n, s, <<>>)
      BY <3>2, <3>3, <3>4, Zenon
    <3> QED
      BY <1>3, <2>7, <3>6, <3>7, Zenon DEF second, third
  <2> QED
    BY <1>6, <2>6, <2>7, OneToThree, Zenon
<1> QED
  BY <1>5, <1>6, Zenon

\* One of the three bytes that a transfer needs is refused.
Refuses(n) == 1 \in n \/ 2 \in n \/ 3 \in n

LeftIdle(b) == \E g : b.line = Idle(g)

\* The whole of a reading: it ends with the bus free, and only if the device, the
\* register and the device again are acknowledged has anything been read.
LEMMA StandsRegister ==
  ASSUME NEW b, NEW h \in Heard, NEW n, NEW d \in Seq(Bytes), Len(d) \in 1 .. 3,
         Stands(b, Idle(h), n, 0, d), NEW device \in 0 .. 127, NEW value \in Bytes
  PROVE  LET after  == ReadRegister(b, device, value, Len(d))
             opened == Append(Append(Append(Append(Append(h, START), 2 * device), value), START),
                              2 * device + 1)
         IN /\ Refuses(n) => after.got = 0 /\ LeftIdle(after)
            /\ ~Refuses(n) =>
                 after.got = ValueOfBytes(d) /\ after.line = Idle(Append(opened \o d, STOP))
<1> DEFINE cmd    == i2cWriteCmd(b, device, value, FALSE)
           again  == i2cWriteByte(i2cSendStart(cmd), 2 * device + 1)
           read   == ReadBytes(again, Len(d))
           one    == Append(Append(h, START), 2 * device)
           two    == Append(one, value)
           opened == Append(Append(two, START), 2 * device + 1)
           after  == ReadRegister(b, device, value, Len(d))
<1>0. 1 \in Bits
  BY DEF Bits
<1>1. 2 * device \in Bytes /\ 2 * device + 1 \in Bytes
  BY DEF Bytes
<1>2. /\ 1 \in n => Stands(cmd, Idle(Append(one, STOP)), n, 1, d)
      /\ 1 \notin n /\ 2 \in n => Stands(cmd, Idle(Append(two, STOP)), n, 2, d)
      /\ 1 \notin n /\ 2 \notin n => Stands(cmd, Between(1, two), n, 2, d)
      /\ cmd.got = IF 1 \in n \/ 2 \in n THEN -1 ELSE 0
  BY StandsCommand, Zenon
<1>3. after = IF cmd.got # 0 THEN Got(cmd, 0)
              ELSE IF again.got # 0 THEN Stopped(again, 0) ELSE i2cSendStop(read)
  BY DEF ReadRegister, Readable, Opened
<1>4. opened \in Heard
  BY <1>1, HeardAppend
<1> HIDE DEF cmd, one, two
<1>5. CASE 1 \in n \/ 2 \in n
  <2>1. cmd.got = -1 /\ LeftIdle(cmd)
    BY <1>2, <1>5 DEF Stands, LeftIdle
  <2> HIDE DEF again, read, after
  <2>2. after = Got(cmd, 0)
    BY <1>3, <2>1
  <2>3. after.got = 0 /\ after.line = cmd.line
    BY <2>2 DEF Got, Bus
  <2> QED
    BY <1>5, <2>1, <2>3 DEF after, LeftIdle, Refuses
<1>6. CASE 1 \notin n /\ 2 \notin n
  <2>1. cmd.got = 0 /\ Stands(cmd, Between(1, two), n, 2, d)
    BY <1>2, <1>6
  <2>2. Stands(i2cSendStart(cmd), Begun(Append(two, START)), n, 2, d)
    BY <2>1, StandsStart
  <2>3. Stands(again, Between(1, opened), n, 3, d) /\ again.got = IF 3 \in n THEN 1 ELSE 0
    <3> DEFINE addr == 2 * device + 1
               g    == Append(two, START)
               c    == i2cSendStart(cmd)
    <3>1. 2 + 1 = 3 /\ addr \in Bytes
      BY <1>1
    <3>2. Stands(c, Begun(g), n, 2, d)
      BY <2>2
    <3> HIDE DEF addr, g, c
    <3>3. Stands(i2cWriteByte(c, addr), Between(1, Append(g, addr)), n, 2 + 1, d)
      BY <3>1, <3>2, StandsWritten, Zenon
    <3>4. i2cWriteByte(c, addr).got = IF 2 + 1 \in n THEN 1 ELSE 0
      <4>1. addr \in Bytes
        BY <3>1
      <4> QED
        BY <3>2, <4>1, StandsWritten
    <3> QED
      BY <3>1, <3>3, <3>4 DEF addr, g, c
  <2> HIDE DEF again, opened, after
  <2>4. CASE 3 \in n
    <3>1. Stands(Stopped(again, 0), Idle(Append(opened, STOP)), n, 3, d)
          /\ Stopped(again, 0).got = 0
      BY <1>0, <2>3, StandsStopped
    <3> HIDE DEF read
    <3>2. after = Stopped(again, 0)
      BY <1>3, <2>1, <2>3, <2>4
    <3>3. after.got = 0 /\ LeftIdle(after)
      BY <3>1, <3>2 DEF Stands, LeftIdle
    <3> QED
      BY <2>4, <3>3 DEF after, Refuses
  <2>5. CASE 3 \notin n
    <3>1. Stands(read, Between(1, opened \o d), n, 3, <<>>) /\ read.got = ValueOfBytes(d)
      <4>1. Stands(again, Between(1, opened), n, 3, d)
        BY <2>3
      <4>2. Bytes \subseteq {START, STOP} \cup Bytes
        BY Zenon
      <4>3. opened \in Seq({START, STOP} \cup Bytes)
        BY <1>4 DEF Heard
      <4> QED
        BY <4>1, <4>2, <4>3, StandsBytes, Zenon
    <3> HIDE DEF read
    <3>2. after = i2cSendStop(read)
      BY <1>3, <2>1, <2>3, <2>5
    <3>3. /\ Stands(i2cSendStop(read), Idle(Append(opened \o d, STOP)), n, 3, <<>>)
          /\ i2cSendStop(read).got = read.got
      BY <1>0, <3>1, StandsStopped
    <3>4. after.got = ValueOfBytes(d) /\ after.line = Idle(Append(opened \o d, STOP))
      BY <3>1, <3>2, <3>3 DEF Stands
    <3> QED
      BY <1>6, <2>5, <3>4 DEF after, opened, two, one, Refuses
  <2> QED
    BY <2>4, <2>5
<1> QED
  BY <1>5, <1>6

\* The whole of a writing: device, register and value are one transaction.
LEMMA StandsSet ==
  ASSUME NEW b, NEW h \in Heard, NEW n, NEW d \in Seq(Bytes), Stands(b, Idle(h), n, 0, d),
         NEW device \in 0 .. 127, NEW addr \in Bytes, NEW value \in Bytes
  PROVE  LET after  == i2cWriteRegister8(b, device, addr, value)
             opened == Append(Append(Append(Append(h, START), 2 * device), addr), value)
         IN /\ Refuses(n) => after.got = -1 /\ LeftIdle(after)
            /\ ~Refuses(n) =>
                 after.got = 0 /\ after.line = Idle(Append(opened, STOP))
<1> DEFINE cmd    == i2cWriteCmd(b, device, addr, FALSE)
           last   == i2cWriteByte(cmd, value)
           one    == Append(Append(h, START), 2 * device)
           two    == Append(one, addr)
           opened == Append(two, value)
           rtn    == IF last.got = 1 THEN -1 ELSE 0
           after  == i2cWriteRegister8(b, device, addr, value)
<1>0. 1 \in Bits
  BY DEF Bits
<1>1. /\ 1 \in n => Stands(cmd, Idle(Append(one, STOP)), n, 1, d)
      /\ 1 \notin n /\ 2 \in n => Stands(cmd, Idle(Append(two, STOP)), n, 2, d)
      /\ 1 \notin n /\ 2 \notin n => Stands(cmd, Between(1, two), n, 2, d)
      /\ cmd.got = IF 1 \in n \/ 2 \in n THEN -1 ELSE 0
  BY StandsCommand, Zenon
<1>2. after = IF cmd.got # 0 THEN cmd ELSE Stopped(last, rtn)
  BY DEF i2cWriteRegister8, Selected, RegisterWritten
<1> HIDE DEF cmd, one, two
<1>3. CASE 1 \in n \/ 2 \in n
  <2>1. cmd.got = -1 /\ LeftIdle(cmd)
    BY <1>1, <1>3 DEF Stands, LeftIdle
  <2> HIDE DEF last, rtn, after
  <2>2. after = cmd
    BY <1>2, <2>1
  <2> QED
    BY <1>3, <2>1, <2>2 DEF after, Refuses
<1>4. CASE 1 \notin n /\ 2 \notin n
  <2>1. cmd.got = 0 /\ Stands(cmd, Between(1, two), n, 2, d)
    BY <1>1, <1>4
  <2>2. Stands(last, Between(1, opened), n, 3, d) /\ last.got = IF 3 \in n THEN 1 ELSE 0
    <3>1. 2 + 1 = 3
      OBVIOUS
    <3>2. Stands(cmd, Between(1, two), n, 2, d)
      BY <2>1
    <3>3. Stands(last, Between(1, opened), n, 2 + 1, d)
      BY <3>2, StandsWritten, Zenon
    <3>4. last.got = IF 2 + 1 \in n THEN 1 ELSE 0
      BY <3>2, StandsWritten
    <3> HIDE DEF last, opened
    <3> QED
      BY <3>1, <3>3, <3>4
  <2>3. rtn = IF 3 \in n THEN -1 ELSE 0
    BY <2>2
  <2> HIDE DEF last, opened, rtn, after
  <2>4. after = Stopped(last, rtn)
    BY <1>2, <2>1
  <2>5. Stands(Stopped(last, rtn), Idle(Append(opened, STOP)), n, 3, d)
        /\ Stopped(last, rtn).got = rtn
    BY <1>0, <2>2, StandsStopped
  <2>6. after.got = rtn /\ after.line = Idle(Append(opened, STOP))
    BY <2>4, <2>5 DEF Stands
  <2>7. /\ 3 \in n => after.got = -1 /\ LeftIdle(after)
        /\ 3 \notin n => after.got = 0 /\ after.line = Idle(Append(opened, STOP))
    BY <2>3, <2>6 DEF LeftIdle
  <2> QED
    BY <1>4, <2>7 DEF after, opened, two, one, Refuses
<1> QED
  BY <1>3, <1>4

RegisterInputType ==
  {x \in [device : 0 .. 127, register : Bytes, nacks : SUBSET Nat, data : Seq(Bytes)] :
     Len(x.data) \in 1 .. 3}

OneLonger(p, q, x) ==
  Len(q) = Len(p) + 1 /\ (\A i \in 1 .. Len(p) : q[i] = p[i]) /\ q[Len(q)] = x

\* A sequence with one element more.
LEMMA AppendedIs ==
  ASSUME NEW S, NEW p \in Seq(S), NEW x \in S, NEW q \in Seq(S), OneLonger(p, q, x)
  PROVE  Append(p, x) = q
<1>0. Len(q) = Len(p) + 1 /\ (\A i \in 1 .. Len(p) : q[i] = p[i]) /\ q[Len(p) + 1] = x
  BY DEF OneLonger
<1>1. /\ Append(p, x) \in Seq(S) /\ Len(Append(p, x)) = Len(p) + 1
      /\ \A i \in 1 .. Len(p) : Append(p, x)[i] = p[i]
      /\ Append(p, x)[Len(p) + 1] = x
  BY AppendProperties
<1>2. \A i \in 1 .. Len(p) + 1 : Append(p, x)[i] = q[i]
  <2>1. \A i \in 1 .. Len(p) + 1 : i \in 1 .. Len(p) \/ i = Len(p) + 1
    OBVIOUS
  <2> QED
    BY <1>0, <1>1, <2>1
<1> QED
  BY <1>0, <1>1, <1>2, SeqEqual

\* The same, written out.
LEMMA Append2 ==
  ASSUME NEW S, NEW a \in S, NEW b \in S
  PROVE  Append(<<a>>, b) = <<a, b>>
<1> DEFINE p == <<a>>
           q == <<a, b>>
<1>1. p \in Seq(S) /\ q \in Seq(S) /\ Len(p) = 1 /\ Len(q) = 2
  OBVIOUS
<1>2. \A i \in 1 .. 1 : q[i] = p[i]
  OBVIOUS
<1>3. q[2] = b
  OBVIOUS
<1> HIDE DEF p, q
<1>4. OneLonger(p, q, b)
  BY <1>1, <1>2, <1>3 DEF OneLonger
<1>5. Append(p, b) = q
  BY <1>1, <1>4, AppendedIs, Zenon
<1> QED
  BY <1>5 DEF p, q

LEMMA Append3 ==
  ASSUME NEW S, NEW a \in S, NEW b \in S, NEW c \in S
  PROVE  Append(<<a, b>>, c) = <<a, b, c>>
<1> DEFINE p == <<a, b>>
           q == <<a, b, c>>
<1>1. p \in Seq(S) /\ q \in Seq(S) /\ Len(p) = 2 /\ Len(q) = 3
  OBVIOUS
<1>2. \A i \in 1 .. 2 : q[i] = p[i]
  OBVIOUS
<1>3. q[3] = c
  OBVIOUS
<1> HIDE DEF p, q
<1>4. OneLonger(p, q, c)
  BY <1>1, <1>2, <1>3 DEF OneLonger
<1>5. Append(p, c) = q
  BY <1>1, <1>4, AppendedIs, Zenon
<1> QED
  BY <1>5 DEF p, q

LEMMA Append4 ==
  ASSUME NEW S, NEW a \in S, NEW b \in S, NEW c \in S, NEW d \in S
  PROVE  Append(<<a, b, c>>, d) = <<a, b, c, d>>
<1> DEFINE p == <<a, b, c>>
           q == <<a, b, c, d>>
<1>1. p \in Seq(S) /\ q \in Seq(S) /\ Len(p) = 3 /\ Len(q) = 4
  OBVIOUS
<1>2. \A i \in 1 .. 3 : q[i] = p[i]
  OBVIOUS
<1>3. q[4] = d
  OBVIOUS
<1> HIDE DEF p, q
<1>4. OneLonger(p, q, d)
  BY <1>1, <1>2, <1>3 DEF OneLonger
<1>5. Append(p, d) = q
  BY <1>1, <1>4, AppendedIs, Zenon
<1> QED
  BY <1>5 DEF p, q

LEMMA Append5 ==
  ASSUME NEW S, NEW a \in S, NEW b \in S, NEW c \in S, NEW d \in S, NEW e \in S
  PROVE  Append(<<a, b, c, d>>, e) = <<a, b, c, d, e>>
<1> DEFINE p == <<a, b, c, d>>
           q == <<a, b, c, d, e>>
<1>1. p \in Seq(S) /\ q \in Seq(S) /\ Len(p) = 4 /\ Len(q) = 5
  OBVIOUS
<1>2. \A i \in 1 .. 4 : q[i] = p[i]
  OBVIOUS
<1>3. q[5] = e
  OBVIOUS
<1> HIDE DEF p, q
<1>4. OneLonger(p, q, e)
  BY <1>1, <1>2, <1>3 DEF OneLonger
<1>5. Append(p, e) = q
  BY <1>1, <1>4, AppendedIs, Zenon
<1> QED
  BY <1>5 DEF p, q

\* What a quiet bus has heard when the transfer is over, from its first byte on.
LEMMA FromTheStart ==
  ASSUME NEW a \in Bytes, NEW r \in Bytes, NEW c \in Bytes, NEW d \in Seq(Bytes)
  PROVE  LET read    == Append(Append(Append(Append(Append(<<>>, START), a), r), START), c)
             written == Append(Append(Append(Append(<<>>, START), a), r), c)
         IN /\ Append(read \o d, STOP) = <<START, a, r, START, c>> \o d \o <<STOP>>
            /\ Append(written, STOP) = <<START, a, r, c, STOP>>
<1> DEFINE S == {START, STOP} \cup Bytes
           e == <<START, a, r, START, c>>
<1>0. START \in S /\ STOP \in S /\ a \in S /\ r \in S /\ c \in S
  OBVIOUS
<1> HIDE DEF S
<1>1. Append(Append(Append(Append(Append(<<>>, START), a), r), START), c) = e
  <2>1. Append(<<>>, START) = <<START>> /\ Append(<<START>>, a) = <<START, a>>
    BY <1>0, Append2
  <2>2. Append(<<START, a>>, r) = <<START, a, r>>
    BY <1>0, Append3
  <2>3. Append(<<START, a, r>>, START) = <<START, a, r, START>>
    BY <1>0, Append4
  <2>4. Append(<<START, a, r, START>>, c) = e
    BY <1>0, Append5
  <2> HIDE DEF e
  <2> QED
    BY <2>1, <2>2, <2>3, <2>4
<1>2. Append(Append(Append(Append(Append(<<>>, START), a), r), c), STOP) = <<START, a, r, c, STOP>>
  <2>1. Append(<<>>, START) = <<START>> /\ Append(<<START>>, a) = <<START, a>>
    BY <1>0, Append2
  <2>2. Append(<<START, a>>, r) = <<START, a, r>>
    BY <1>0, Append3
  <2>3. Append(<<START, a, r>>, c) = <<START, a, r, c>>
    BY <1>0, Append4
  <2>4. Append(<<START, a, r, c>>, STOP) = <<START, a, r, c, STOP>>
    BY <1>0, Append5
  <2> QED
    BY <2>1, <2>2, <2>3, <2>4
<1>3. e \in Seq(S) /\ STOP \in S
  BY <1>0
<1>4. d \in Seq(S)
  <2>1. Bytes \subseteq S
    BY DEF S
  <2> QED
    BY <2>1, SeqMonotonic
<1> HIDE DEF e
<1>5. e \o d \in Seq(S)
  BY <1>3, <1>4, ConcatProperties
<1>6. Append(e \o d, STOP) = (e \o d) \o <<STOP>>
  BY <1>3, <1>5, AppendIsConcat
<1> QED
  BY <1>1, <1>2, <1>6 DEF e

\* Whatever is refused: a register is read and written as it should be.
LEMMA EveryRegister ==
  ASSUME NEW x \in RegisterInputType
  PROVE  LET read     == ReadRegister(Session(x.nacks, x.data), x.device, x.register, Len(x.data))
             written  == i2cWriteRegister8(Session(x.nacks, <<>>), x.device, x.register, x.data[1])
             Accepted == x.nacks \cap {1, 2, 3} = {}
         IN /\ Released(read) /\ Released(written)
            /\ read.got = IF Accepted THEN ValueOfBytes(x.data) ELSE 0
            /\ written.got = IF Accepted THEN 0 ELSE -1
            /\ Accepted =>
                 /\ read.line.i2c.heard =
                      <<START, 2 * x.device, x.register, START, 2 * x.device + 1>>
                        \o x.data \o <<STOP>>
                 /\ written.line.i2c.heard = <<START, 2 * x.device, x.register, x.data[1], STOP>>
<1> DEFINE device == x.device
           reg    == x.register
           n      == x.nacks
           d      == x.data
           v      == d[1]
           a      == 2 * device
           c      == 2 * device + 1
           none   == <<>>
           p      == Session(n, d)
           q      == Session(n, none)
           read    == ReadRegister(p, device, reg, Len(d))
           written == i2cWriteRegister8(q, device, reg, v)
           Refused == Refuses(n)
           r5 == Append(Append(Append(Append(Append(none, START), a), reg), START), c)
           w4 == Append(Append(Append(Append(none, START), a), reg), v)
<1>1. /\ device \in 0 .. 127 /\ reg \in Bytes /\ d \in Seq(Bytes) /\ Len(d) \in 1 .. 3
  BY DEF RegisterInputType
<1> HIDE DEF device, reg, n, d
<1>2. v \in Bytes
  <2>1. 1 \in 1 .. Len(d)
    BY <1>1
  <2> QED
    BY <1>1, <2>1, ElementOfSeq
<1>3. a \in Bytes /\ c \in Bytes
  BY <1>1 DEF Bytes
<1>4. Stands(p, Idle(none), n, 0, d) /\ Stands(q, Idle(none), n, 0, none)
  BY DEF Stands, Session, Bus, Quiet, Idle, Line
<1>5. none \in Heard /\ none \in Seq(Bytes)
  BY DEF Heard
<1> HIDE DEF p, q, v, none
<1>6. IF Refused THEN read.got = 0 /\ LeftIdle(read)
      ELSE read.got = ValueOfBytes(d) /\ read.line = Idle(Append(r5 \o d, STOP))
  <2>1. CASE Refused
    <3>1. read.got = 0
      BY <1>1, <1>4, <1>5, <2>1, StandsRegister, ZenonT(40)
    <3>2. LeftIdle(read)
      BY <1>1, <1>4, <1>5, <2>1, StandsRegister, ZenonT(40)
    <3> QED
      BY <2>1, <3>1, <3>2, Zenon
  <2>2. CASE ~Refused
    BY <1>1, <1>4, <1>5, <2>2, StandsRegister, ZenonT(40)
  <2> QED
    BY <2>1, <2>2, Zenon
<1>7. IF Refused THEN written.got = -1 /\ LeftIdle(written)
      ELSE written.got = 0 /\ written.line = Idle(Append(w4, STOP))
  <2>1. CASE Refused
    <3>1. written.got = -1
      BY <1>1, <1>2, <1>4, <1>5, <2>1, StandsSet, ZenonT(40)
    <3>2. LeftIdle(written)
      BY <1>1, <1>2, <1>4, <1>5, <2>1, StandsSet, ZenonT(40)
    <3> QED
      BY <2>1, <3>1, <3>2, Zenon
  <2>2. CASE ~Refused
    <3>1. written.got = 0
      BY <1>1, <1>2, <1>4, <1>5, <2>2, StandsSet, ZenonT(40)
    <3>2. written.line = Idle(Append(w4, STOP))
      BY <1>1, <1>2, <1>4, <1>5, <2>2, StandsSet, ZenonT(40)
    <3> QED
      BY <2>2, <3>1, <3>2, Zenon
  <2> QED
    BY <2>1, <2>2, Zenon
<1>8. Append(r5 \o d, STOP) = <<START, a, reg, START, c>> \o d \o <<STOP>>
  BY <1>1, <1>3, FromTheStart, Zenon DEF none
<1>9. Append(w4, STOP) = <<START, a, reg, v, STOP>>
  BY <1>1, <1>2, <1>3, FromTheStart, Zenon DEF none
<1>10. (n \cap {1, 2, 3} = {}) <=> ~Refused
  BY DEF Refuses
<1>11. \A b, g : b.line = Idle(g) => Released(b) /\ b.line.i2c.heard = g
  BY DEF Idle, Line, Released, Device
<1> HIDE DEF read, written, Refused, r5, w4
<1>12. Released(read) /\ Released(written)
  BY <1>6, <1>7, <1>11 DEF LeftIdle
<1>13. ~Refused => /\ read.line.i2c.heard = <<START, a, reg, START, c>> \o d \o <<STOP>>
                   /\ written.line.i2c.heard = <<START, a, reg, v, STOP>>
  BY <1>6, <1>7, <1>8, <1>9, <1>11
<1>14. /\ read.got = IF ~Refused THEN ValueOfBytes(d) ELSE 0
       /\ written.got = IF ~Refused THEN 0 ELSE -1
  BY <1>6, <1>7
<1> QED
  BY <1>10, <1>12, <1>13, <1>14 DEF read, written, a, c, p, q, v, none, device, reg, n, d

-----------------------------------------------------------------------------
(* The theorems *)

\* The inputs are what the C code can be given: texts of any length, and ids and a
\* keepalive time of two bytes.
PacketInputs ==
  /\ "publish" \in DOMAIN Inputs => Inputs["publish"] \subseteq PublishInputType
  /\ "part" \in DOMAIN Inputs => Inputs["part"] \subseteq PublishInputType
  /\ "ack" \in DOMAIN Inputs => Inputs["ack"] \subseteq AckInputType
  /\ "connect" \in DOMAIN Inputs => Inputs["connect"] \subseteq ConnectInputType

\* And any device that answers on the bus, or does not: it refuses whichever bytes
\* it likes, and sends what it likes.
BusInputs ==
  /\ "bus" \in DOMAIN Inputs => Inputs["bus"] \subseteq BusInputType
  /\ "register" \in DOMAIN Inputs => Inputs["register"] \subseteq RegisterInputType

InputType ==
  /\ kind \in DOMAIN Inputs
  /\ input = Nothing \/ \E x \in Inputs[kind] : input = [kind |-> kind, of |-> x]

\* The machine of Conversions never has anything else in input.
LEMMA Typed == Spec => []InputType
<1>1. Init => InputType
  BY DEF Init, InputType
<1>2. InputType /\ [Next]_vars => InputType'
  BY DEF InputType, Next, Choose, Finish, vars
<1> QED
  BY <1>1, <1>2, PTL DEF Spec

\* An input of a kind is one of those chosen from.
LEMMA OfItsKind ==
  ASSUME InputType, NEW k, input.kind = k, k # "none"
  PROVE  k \in DOMAIN Inputs /\ input.of \in Inputs[k]
BY DEF InputType, Nothing

\* Each packet that is built and each packet that arrives is read as what it was made
\* of, whatever the lengths of the texts and the size of the buffer (mqtt_msg.c).
THEOREM PacketsAgree ==
  ASSUME PacketInputs
  PROVE  Spec => []PacketsReadBack
<1>1. InputType => PacketsReadBack
  <2> SUFFICES ASSUME InputType PROVE PacketsReadBack
    OBVIOUS
  <2>1. input.kind = "publish" => input.of \in PublishInputType
    BY OfItsKind DEF PacketInputs
  <2>2. input.kind = "part" => input.of \in PublishInputType
    BY OfItsKind DEF PacketInputs
  <2>3. input.kind = "ack" => input.of \in AckInputType
    BY OfItsKind DEF PacketInputs
  <2>4. input.kind = "connect" => input.of \in ConnectInputType
    BY OfItsKind DEF PacketInputs
  <2> QED
    BY <2>1, <2>2, <2>3, <2>4, PublishRead, PartRead, AcksRead, ConnectRead DEF PacketsReadBack
<1> QED
  BY <1>1, Typed, PTL

\* Whatever a device refuses or sends, each driver leaves the two lines free for the
\* next one and the other devices undisturbed, and a register is read and written in
\* one transaction, its value whole (i2c-common.c, and the drivers on top of it).
THEOREM BusAgrees ==
  ASSUME BusInputs
  PROVE  Spec => []BusShared
<1>1. InputType => BusShared
  <2> SUFFICES ASSUME InputType PROVE BusShared
    OBVIOUS
  <2>1. input.kind = "bus" => input.of \in BusInputType
    BY OfItsKind DEF BusInputs
  <2>2. input.kind = "register" => input.of \in RegisterInputType
    BY OfItsKind DEF BusInputs
  <2>3. DriversShareBus
    BY <2>1, EveryDriver, Zenon DEF DriversShareBus
  <2>4. RegisterTransfer
    <3>1. CASE input.kind # "register"
      BY <3>1 DEF RegisterTransfer
    <3>2. CASE input.kind = "register"
      BY <2>2, <3>2, EveryRegister, Zenon DEF RegisterTransfer
    <3> QED
      BY <3>1, <3>2
  <2> QED
    BY <2>3, <2>4 DEF BusShared
<1> QED
  BY <1>1, Typed, PTL
=============================================================================
