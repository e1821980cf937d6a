------------------------------ MODULE Packets ------------------------------
(***************************************************************************)
(* What the two ends of an MQTT connection make of the packets of MqttMsg: *)
(* the client of what a broker sends it, a broker of what the client       *)
(* builds.                                                                 *)
(***************************************************************************)
EXTENDS MqttMsg, Conversions

Size(string) == 2 + Len(string)

\* A PUBLISH packet is built exactly if it fits the buffer, and reading it back
\* gives its topic, its data, its flags, its length and an id that is not zero,
\* below and above the length that needs a second byte, and where the counter of
\* ids starts anew.  (Without data there is neither data nor id to be found.)
\* mqtt_msg_publish, fini_message, append_message_id and mqtt_get_*.
PublishReadsBack ==
  input.kind = "publish" =>
    LET m == input.of
        p == mqtt_msg_publish(m.id, m.topic, m.data, m.qos, m.retain)
        Fits == 3 + Size(m.topic) + (IF m.qos > 0 THEN 2 ELSE 0) + Len(m.data) <= BufferLength
        numbered == m.qos > 0 /\ m.data # <<>>
    IN /\ p # <<>> <=> m.topic # <<>> /\ Fits
       /\ p # <<>> =>
            /\ <<mqtt_get_type(p), mqtt_get_qos(p), mqtt_get_retain(p)>>
                 = <<PUBLISH, m.qos, m.retain>>
            /\ mqtt_get_total_length(p) = Len(p)
            /\ mqtt_get_publish_topic(p) = m.topic
            /\ mqtt_get_publish_data(p) = IF m.data # <<>> THEN m.data ELSE NULL
            /\ mqtt_get_id(p) = IF numbered THEN 1 + (m.id % LastId) ELSE 0

\* Of a packet that arrives in pieces, what has arrived yields the topic or
\* nothing, and a beginning of the data or nothing (mqtt_get_publish_data).
PartReadsPart ==
  input.kind = "part" =>
    LET m == input.of
        p == mqtt_msg_publish(m.id, m.topic, m.data, m.qos, m.retain)
    IN \A n \in 1 .. Len(p) - 1 :
         LET b    == SubSeq(p, 1, n)
             data == mqtt_get_publish_data(b)
         IN /\ mqtt_get_publish_topic(b) \in {NULL, m.topic}
            /\ data # NULL => IsPrefix(data, m.data)

\* The answers of a broker are recognised by type and id, and so is a SUBSCRIBE
\* packet as long as one length byte is enough; the id of an UNSUBSCRIBE packet is
\* not read (mqtt_get_id).
AcksReadBack ==
  input.kind = "ack" =>
    LET m           == input.of
        subscribe   == mqtt_msg_subscribe(m.id, m.topic, 1)
        unsubscribe == mqtt_msg_unsubscribe(m.id, m.topic)
    IN /\ \A type \in {PUBACK, PUBREC, PUBREL, PUBCOMP} :
            /\ mqtt_get_type(Ack(type, m.id)) = type
            /\ mqtt_get_id(Ack(type, m.id)) = m.id
            /\ mqtt_get_total_length(Ack(type, m.id)) = 4
       /\ subscribe # <<>> =>
            mqtt_get_id(subscribe) = IF Len(m.topic) + 5 <= 127 THEN 1 + (m.id % LastId) ELSE 0
       /\ unsubscribe # <<>> => mqtt_get_id(unsubscribe) = 0

\* A broker that reads as the MQTT 3.1 specification says: the string behind
\* position pos, and where it ends.
StringAt(b, pos) == SubSeq(b, pos + 3, pos + 2 + IdAt(b, pos))

EndOf(b, pos) == pos + 2 + IdAt(b, pos)

\* A CONNECT packet is built exactly if it fits and there is a client id.  Its flags
\* say which of the strings behind the header are there, and these are client id,
\* will topic and message, user name and password, in the order the broker expects
\* and to the packet's last byte (mqtt_msg_connect).
ConnectReadsBack ==
  input.kind = "connect" =>
    LET info  == input.of
        p     == mqtt_msg_connect(info)
        h     == HeaderLen(p)
        Has(bit) == (ByteAt(p, h + 9) \div bit) % 2 = 1
        will  == EndOf(p, h + 12)
        user  == IF Has(4) THEN EndOf(p, EndOf(p, will)) ELSE will
        pass  == IF Has(128) THEN EndOf(p, user) ELSE user
        end   == IF Has(64) THEN EndOf(p, pass) ELSE pass
        SizeIf(b, string) == IF b THEN Size(string) ELSE 0
        willed == info.will_topic # <<>>
        Fits == 3 + 12 + Size(info.client_id)
                  + SizeIf(willed, info.will_topic) + SizeIf(willed, info.will_message)
                  + SizeIf(info.username # <<>>, info.username)
                  + SizeIf(info.password # <<>>, info.password) <= BufferLength
    IN /\ p # <<>> <=> info.client_id # <<>> /\ Fits
       /\ p # <<>> =>
         /\ mqtt_get_type(p) = CONNECT /\ mqtt_get_total_length(p) = Len(p)
         /\ IdAt(p, h + 10) = info.keepalive
         /\ StringAt(p, h + 12) = info.client_id
         /\ Has(2) = info.clean_session
         /\ Has(4) = willed
         /\ Has(4) => /\ StringAt(p, will) = info.will_topic
                      /\ StringAt(p, EndOf(p, will)) = info.will_message
                      /\ (ByteAt(p, h + 9) \div 8) % 4 = info.will_qos
                      /\ Has(32) = info.will_retain
         /\ Has(128) = (info.username # <<>>)
         /\ Has(128) => StringAt(p, user) = info.username
         /\ Has(64) = (info.password # <<>>)
         /\ Has(64) => StringAt(p, pass) = info.password
         /\ end = Len(p)

-----------------------------------------------------------------------------

\* Every MQTT packet that is built or received is read as what it was made of.
PacketsReadBack == PublishReadsBack /\ PartReadsPart /\ AcksReadBack /\ ConnectReadsBack
=============================================================================
