------------------------------- MODULE MqttMsg -------------------------------
(***************************************************************************)
(* The packets of lib/mqtt/mqtt_msg.c as functions: what is built in the   *)
(* client's buffer, and what the client reads out of a packet it got.      *)
(*                                                                         *)
(* A packet is the sequence of its bytes.  While one is built, k holds the *)
(* capacity of the buffer, the counter of message ids, the bytes behind    *)
(* the three reserved for the fixed header, and whether something failed.  *)
(* The C code counts bytes from 0, ByteAt does the same.                   *)
(***************************************************************************)
EXTENDS Integers, SequencesExt

CONSTANT BufferLength   \* MQTT_BUF_SIZE

MQTT_MAX_FIXED_HEADER_SIZE == 3

\* fini_message writes the remaining length as one byte or two of seven bits each;
\* an acknowledgement fits.
ASSUME BufferAssumption ==
  BufferLength \in 2 + MQTT_MAX_FIXED_HEADER_SIZE
                     .. 127 + 128 * 127 + MQTT_MAX_FIXED_HEADER_SIZE

CONNECT     == 1
PUBLISH     == 3
PUBACK      == 4
PUBREC      == 5
PUBREL      == 6
PUBCOMP     == 7
SUBSCRIBE   == 8
SUBACK      == 9
UNSUBSCRIBE == 10
UNSUBACK    == 11
PINGREQ     == 12
PINGRESP    == 13
DISCONNECT  == 14

-----------------------------------------------------------------------------
(* Building *)

\* mqtt_msg_init, then init_message; id is the counter before the message.
init_message(id) == [id |-> id, body |-> <<>>, failed |-> FALSE]

\* The bytes are added if they fit, otherwise the message has failed.
Added(k, bytes) ==
  IF MQTT_MAX_FIXED_HEADER_SIZE + Len(k.body) + Len(bytes) > BufferLength
    THEN [k EXCEPT !.failed = TRUE]
    ELSE [k EXCEPT !.body = @ \o bytes]

TwoBytes(n) == <<n \div 256, n % 256>>

append_string(k, string) == Added(k, TwoBytes(Len(string)) \o string)

\* The 16-bit counter leaves out zero.
LastId == 65535

NextId(id) == IF id = LastId THEN 1 ELSE id + 1

\* message_id 0 asks for a new one.
append_message_id(k, message_id) ==
  IF message_id = 0
    THEN Added([k EXCEPT !.id = NextId(k.id)], TwoBytes(NextId(k.id)))
    ELSE Added(k, TwoBytes(message_id))

fini_message_OffByOne(k, type, qos, retain) ==
  LET first == 16 * type + 2 * qos + retain
      n     == Len(k.body)
  IN IF k.failed THEN <<>>
     ELSE IF n > 128 THEN <<first, 128 + (n % 128), n \div 128>> \o k.body
     ELSE <<first, n>> \o k.body

\* The fixed header: type, flags and the remaining length in one or two
\* bytes.  A failed message has length 0.
fini_message(k, type, qos, retain) ==
  LET first == 16 * type + 2 * qos + retain
      n     == Len(k.body)
  IN IF k.failed THEN <<>>
     ELSE IF n > 127 THEN <<first, 128 + (n % 128), n \div 128>> \o k.body
     ELSE <<first, n>> \o k.body

Flag(condition, bit) == IF condition THEN bit ELSE 0

Magic == <<77, 81, 73, 115, 100, 112>>   \* "MQIsdp"

ConnectFlags(info) ==
  Flag(info.clean_session, 2)
    + Flag(info.will_topic # <<>>, 4 + Flag(info.will_retain, 32) + 8 * info.will_qos)
    + Flag(info.username # <<>>, 128) + Flag(info.password # <<>>, 64)

\* The client id, and what the flags say of a will (a topic with a message), a user
\* name and a password.  An empty client id is not allowed in MQTT 3.1.
mqtt_msg_connect(info) ==
  LET header   == TwoBytes(6) \o Magic \o <<3, ConnectFlags(info)>> \o TwoBytes(info.keepalive)
      Maybe(k, string) == IF string # <<>> THEN append_string(k, string) ELSE k
      named    == append_string(Added(init_message(0), header), info.client_id)
      willed   == IF info.will_topic = <<>> THEN named
                  ELSE append_string(append_string(named, info.will_topic), info.will_message)
      complete == Maybe(Maybe(willed, info.username), info.password)
  IN IF info.client_id = <<>> THEN <<>> ELSE fini_message(complete, CONNECT, 0, 0)

mqtt_msg_publish(id, topic, data, qos, retain) ==
  LET named    == append_string(init_message(id), topic)
      numbered == IF qos > 0 THEN append_message_id(named, 0) ELSE named
  IN IF topic = <<>> THEN <<>> ELSE fini_message(Added(numbered, data), PUBLISH, qos, retain)

\* PUBACK, PUBREC, PUBREL (with QoS 1) and PUBCOMP
Ack(type, message_id) ==
  fini_message(append_message_id(init_message(0), message_id), type,
               IF type = PUBREL THEN 1 ELSE 0, 0)

mqtt_msg_subscribe(id, topic, qos) ==
  LET numbered == append_message_id(init_message(id), 0)
  IN IF topic = <<>> THEN <<>>
     ELSE fini_message(Added(append_string(numbered, topic), <<qos>>), SUBSCRIBE, 1, 0)

mqtt_msg_unsubscribe(id, topic) ==
  LET numbered == append_message_id(init_message(id), 0)
  IN IF topic = <<>> THEN <<>>
     ELSE fini_message(append_string(numbered, topic), UNSUBSCRIBE, 1, 0)

\* PINGREQ, PINGRESP and DISCONNECT
Bare(type) == fini_message(init_message(0), type, 0, 0)

-----------------------------------------------------------------------------
(* Reading *)

ByteAt(b, i) == b[i + 1]

mqtt_get_type(b)   == b[1] \div 16
mqtt_get_qos(b)    == (b[1] \div 2) % 4
mqtt_get_retain(b) == b[1] % 2

\* The length bytes end with the first one below 128, or with the packet.
HeaderLen(b) ==
  LET ends == {i \in 1 .. Len(b) - 1 : ByteAt(b, i) < 128}
  IN IF ends = {} THEN Len(b) ELSE Min(ends) + 1

\* What the length bytes say, seven bits each and the lowest first, and the header.
mqtt_get_total_length(b) ==
  LET length[i \in 1 .. HeaderLen(b)] ==
        IF i = HeaderLen(b) THEN 0 ELSE (ByteAt(b, i) % 128) + 128 * length[i + 1]
  IN HeaderLen(b) + length[1]

NULL == <<-1>>   \* the null pointer, different from every text

\* Where the topic of a PUBLISH packet ends, or 0 if it is not all there.
TopicEnd(b) ==
  LET i == HeaderLen(b)
  IN IF i + 2 >= Len(b) THEN 0
     ELSE i + 2 + ByteAt(b, i) * 256 + ByteAt(b, i + 1)

mqtt_get_publish_topic(b) ==
  IF TopicEnd(b) = 0 \/ TopicEnd(b) > Len(b) THEN NULL
  ELSE SubSeq(b, HeaderLen(b) + 3, TopicEnd(b))

\* Behind the topic, and the message id if there is one, as far as received.
mqtt_get_publish_data(b) ==
  LET i == TopicEnd(b) + (IF mqtt_get_qos(b) > 0 THEN 2 ELSE 0)
  IN IF \/ TopicEnd(b) = 0 \/ TopicEnd(b) >= Len(b)
        \/ mqtt_get_qos(b) > 0 /\ i >= Len(b)
        \/ mqtt_get_total_length(b) < i
     THEN NULL
     ELSE SubSeq(b, i + 1, Min({mqtt_get_total_length(b), Len(b)}))

IdAt(b, i) == ByteAt(b, i) * 256 + ByteAt(b, i + 1)

\* UNSUBSCRIBE is not among the types an id is read from.
mqtt_get_id(b) ==
  IF Len(b) < 1 THEN 0
  ELSE IF mqtt_get_type(b) = PUBLISH
    THEN IF \/ TopicEnd(b) = 0 \/ TopicEnd(b) >= Len(b)
            \/ mqtt_get_qos(b) = 0 \/ TopicEnd(b) + 2 >= Len(b)
           THEN 0 ELSE IdAt(b, TopicEnd(b))
  ELSE IF mqtt_get_type(b) \in {PUBACK, PUBREC, PUBREL, PUBCOMP, SUBACK, UNSUBACK, SUBSCRIBE}
    THEN IF Len(b) >= 4 /\ ByteAt(b, 1) < 128 THEN IdAt(b, 2) ELSE 0
  ELSE 0
=============================================================================
