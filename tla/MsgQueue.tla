------------------------------ MODULE MsgQueue ------------------------------
(***************************************************************************)
(* The outgoing message queue of the MQTT client: QUEUE_Puts and           *)
(* QUEUE_Gets of lib/mqtt/queue.c over the byte-stuffing of                *)
(* lib/mqtt/proto.c and the ring of RingBuf, with the loop MQTT_Publish,   *)
(* MQTT_Subscribe, MQTT_UnSubscribe and MQTT_Ping run when the ring is     *)
(* full.  One step moves one byte.  The queue has one user at a time, but  *)
(* the parser, the roll-back and the eviction loop resume each other's     *)
(* ring.                                                                   *)
(***************************************************************************)
EXTENDS RingBuf, Sequences

CONSTANTS
  Messages,   \* the messages callers queue: sequences of Bytes
  MaxLen      \* MQTT_BUF_SIZE, the size of the buffers QUEUE_Gets fills

\* Messages are arrays of uint8_t.
ASSUME MessagesAssumption ==
  /\ Bytes = 0 .. 255
  /\ MaxLen \in Nat
  /\ \A m \in Messages : m \in Seq(Bytes) /\ Len(m) <= MaxLen

VARIABLES
  pc,        \* "idle", "adding" (PROTO_AddRb), "parsing" (PROTO_ParseRb), "evicted"
  message,   \* the message being added
  todo,      \* the bytes PROTO_AddRb has still to put
  evicts,    \* the caller of QUEUE_Puts makes room if there is none
  isBegin, isEsc, data,   \* PROTO_PARSER on PROTO_ParseRb's stack
  taken      \* what the last successful QUEUE_Gets returned

parser == <<isBegin, isEsc, data>>
caller == <<pc, message, todo, evicts>>
vars   == <<rvars, caller, parser, taken>>

ESC   == 125   \* 0x7D
BEGIN == 126   \* 0x7E
END   == 127   \* 0x7F

Flipped(b) == IF (b \div 32) % 2 = 0 THEN b + 32 ELSE b - 32   \* b ^ 0x20

Stuffed_EndUnescaped(b) == IF b \in {ESC, BEGIN} THEN <<ESC, Flipped(b)>> ELSE <<b>>

Stuffed(b) == IF b \in {ESC, BEGIN, END} THEN <<ESC, Flipped(b)>> ELSE <<b>>

\* The bytes PROTO_AddRb puts for a message.
Frame(m) ==
  LET put[i \in 0 .. Len(m)] == IF i = 0 THEN <<BEGIN>> ELSE put[i - 1] \o Stuffed(m[i])
  IN  Append(put[Len(m)], END)

Init ==
  /\ RInit
  /\ pc = "idle"
  /\ message = <<>> /\ todo = <<>> /\ evicts = FALSE
  /\ isBegin = FALSE /\ isEsc = FALSE /\ data = <<>>
  /\ taken = <<>>

-----------------------------------------------------------------------------
(* QUEUE_Puts *)

StartAdding_NoSave(m) ==
  /\ UNCHANGED last
  /\ adding' = TRUE
  /\ pc' = "adding" /\ message' = m /\ todo' = Frame(m)
  /\ UNCHANGED ring

StartAdding(m) ==
  /\ Save
  /\ adding' = TRUE
  /\ pc' = "adding" /\ message' = m /\ todo' = Frame(m)

\* MQTT_Publish and its like (mayEvict), or the answers mqtt_tcpclient_recv
\* queues (dropped when there is no room).
QUEUE_Puts ==
  /\ pc = "idle"
  /\ \E m \in Messages, mayEvict \in BOOLEAN : StartAdding(m) /\ evicts' = mayEvict
  /\ UNCHANGED <<parser, taken>>

PutByte ==
  /\ pc = "adding"
  /\ todo # <<>>
  /\ RINGBUF_Put(Head(todo))
  /\ todo' = Tail(todo)
  /\ UNCHANGED <<last, adding, pc, message, evicts, parser, taken>>

PutsReturn ==
  /\ pc = "adding"
  /\ todo = <<>>
  /\ pc' = "idle" /\ adding' = FALSE
  /\ UNCHANGED <<ring, last, message, todo, evicts, parser, taken>>

\* PROTO_Init sets dataLen and isEsc but not isBegin, which starts with
\* whatever the stack holds.
PROTO_Init ==
  /\ isBegin' \in BOOLEAN
  /\ isEsc' = FALSE
  /\ data' = <<>>

\* The ring is full: roll back, and either give up or make room.
PutsFull ==
  /\ pc = "adding"
  /\ todo # <<>>
  /\ Full
  /\ RollBack
  /\ adding' = FALSE
  /\ \/ evicts /\ pc' = "parsing" /\ PROTO_Init
     \/ ~evicts /\ pc' = "idle" /\ UNCHANGED parser
  /\ UNCHANGED <<message, todo, evicts, taken>>

-----------------------------------------------------------------------------
(* QUEUE_Gets *)

\* MQTT_Task takes the next message, only if QUEUE_IsEmpty is false.
QUEUE_Gets ==
  /\ pc = "idle"
  /\ ~Empty
  /\ evicts' = FALSE
  /\ pc' = "parsing"
  /\ PROTO_Init
  /\ UNCHANGED <<rvars, message, todo, taken>>

ParseData(b) ==
  /\ IF isBegin
       THEN /\ data' = IF Len(data) < MaxLen
                         THEN Append(data, IF isEsc THEN Flipped(b) ELSE b) ELSE data
            /\ isEsc' = FALSE
       ELSE UNCHANGED <<data, isEsc>>
  /\ UNCHANGED isBegin

\* The bytes that do not end a frame.
PROTO_ParseByte(b) ==
  \/ /\ b = ESC
     /\ isEsc' = TRUE
     /\ UNCHANGED <<isBegin, data>>
  \/ /\ b = BEGIN
     /\ data' = <<>> /\ isEsc' = FALSE /\ isBegin' = TRUE
  \/ b \notin {ESC, BEGIN, END} /\ ParseData(b)

GetByte ==
  /\ pc = "parsing"
  /\ RINGBUF_Get
  /\ PROTO_ParseByte(First)
  /\ UNCHANGED <<last, adding, caller, taken>>

\* 0x7F ends the frame: MQTT_Task has its message, a publish tries again.
GetEnd ==
  /\ pc = "parsing"
  /\ First = END
  /\ RINGBUF_Get
  /\ taken' = data
  /\ pc' = IF evicts THEN "evicted" ELSE "idle"
  /\ UNCHANGED <<last, adding, message, todo, evicts, parser>>

Retry ==
  /\ pc = "evicted"
  /\ StartAdding(message)
  /\ UNCHANGED <<evicts, parser, taken>>

GetNothing_Retries ==
  /\ pc = "parsing"
  /\ Empty
  /\ pc' = "evicted"
  /\ UNCHANGED <<rvars, message, todo, evicts, parser, taken>>

\* Nothing is left to push out: "Serious buffer error".
GetNothing ==
  /\ pc = "parsing"
  /\ Empty
  /\ pc' = "idle"
  /\ UNCHANGED <<rvars, message, todo, evicts, parser, taken>>

Next ==
  \/ QUEUE_Puts \/ PutByte \/ PutsReturn \/ PutsFull
  \/ QUEUE_Gets \/ GetByte \/ GetEnd \/ Retry \/ GetNothing

Spec     == Init /\ [][Next]_vars
\* A call that was made runs to its return.
FairSpec == Spec /\ WF_vars(PutByte \/ PutsReturn \/ PutsFull \/ GetByte \/ GetEnd \/ Retry
                            \/ GetNothing)

-----------------------------------------------------------------------------
(* Properties *)

\* Types, and no message longer than the buffers it is copied to.
TypeOK ==
  /\ RTypeOK
  /\ pc \in {"idle", "adding", "parsing", "evicted"}
  /\ adding <=> pc = "adding"
  /\ message \in Messages \cup {<<>>}
  /\ evicts \in BOOLEAN /\ isBegin \in BOOLEAN /\ isEsc \in BOOLEAN
  /\ Len(data) <= MaxLen

\* What a parser knows after byte b: the messages that ended, the data of the
\* one it is in, and whether the next byte is escaped.
ReadByte(s, b) ==
  [ended |-> IF b = END THEN Append(s.ended, s.data) ELSE s.ended,
   data  |-> IF b \in {BEGIN, END} THEN <<>>
             ELSE IF b = ESC THEN s.data
             ELSE Append(s.data, IF s.esc THEN Flipped(b) ELSE b),
   esc   |-> b = ESC]

\* The messages that end in bytes when a parser that knows s reads them.
Read(s, bytes) ==
  LET known[k \in 0 .. Len(bytes)] == IF k = 0 THEN s ELSE ReadByte(known[k - 1], bytes[k])
  IN  known[Len(bytes)].ended

\* The messages in the ring, read as PROTO_ParseRb is to read them on from where
\* it stands.
Pending ==
  IF pc = "parsing" THEN Read([ended |-> <<>>, data |-> data, esc |-> isEsc], Content)
                    ELSE Read([ended |-> <<>>, data |-> <<>>, esc |-> FALSE], Content)

\* Messages come out whole, unchanged and in order, whatever bytes they hold,
\* wherever the ring wraps and whatever the parser finds on the stack; a failed
\* QUEUE_Puts leaves the messages that were there alone.
Abstract == INSTANCE MsgFifo WITH
  queue <- Pending,
  adding <- (pc = "adding" /\ todo # <<>>) \/ pc = "evicted" \/ (pc = "parsing" /\ evicts)

RefinesMsgFifo == Abstract!Spec

\* The queue uses the ring as RingBuf's specification says: copies are taken
\* before the first byte is put, nothing is read while a frame is being added,
\* and a roll-back follows a failed put only.  What is proved of RSpec holds here.
UsesRing == RSpec

\* QUEUE_Gets never runs dry in the middle of a frame: when it finds nothing,
\* the ring held nothing, and only a publish too large for the whole ring asks.
NothingOnlyWhenTooLarge ==
  pc = "parsing" /\ Empty => evicts /\ data = <<>> /\ Len(Frame(message)) > Size

\* What a roll-back, a full ring and a lost message leave behind is a ring whose
\* pointers agree and which holds whole frames only.
QueueConsistent == TypeOK /\ PointersAgree /\ NothingOnlyWhenTooLarge

\* A message is pushed out only if the new one did not fit behind it.
EvictsOnlyWhenFull ==
  [][pc = "adding" /\ pc' = "parsing" => fill_cnt' + Len(Frame(message)) > Size]_vars

\* The retry loop of MQTT_Publish ends: by success or by an empty ring.
PublishReturns == pc # "idle" ~> pc = "idle"
=============================================================================
