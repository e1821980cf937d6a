------------------------------ MODULE MqttProofs -----------------------------
(***************************************************************************)
(* Proofs about MqttClient for any number of values, all timeouts and all  *)
(* ways to get at the broker's address.                                    *)
(***************************************************************************)
EXTENDS MqttClient, SequenceTheorems, TLAPS

Packets == 0 .. Values

\* The types TypeOK leaves out.
Types ==
  /\ kind \in {"push", "long"}
  /\ msgQueue \in Seq(Packets)
  /\ unsent \in Seq(Packets)
  /\ arrived \in Seq(Packets)

\* connState says what there is of a connection.
Connection ==
  /\ connState \in {"MQTT_CONNECT_SENDING", "MQTT_DATA", "MQTT_KEEPALIVE_SEND",
                    "TCP_RECONNECT_DISCONNECTING"} => pCon \in {"up", "closing"}
  /\ connState = "TCP_RECONNECT_REQ" => pCon = "idle"
  /\ pCon \in {"lookup", "connecting"} => connState = "TCP_CONNECTING"
  /\ connState = "TCP_CONNECTING" => pCon \in {"unasked", "lookup", "connecting"}
  /\ unsent # <<>> => pCon \in {"up", "closing"}

\* What is due in a state: nothing waits and no keep-alive counts before the
\* broker accepted the client.
Due ==
  /\ connState \in {"TCP_CONNECTING", "MQTT_CONNECT_SENDING"} => msgQueue = <<>> /\ keepAliveTick = 0
  /\ connState = "MQTT_DATA" => keepAliveTick <= KeepAlive

\* What push.c knows of the client.
User ==
  /\ user = "idle" => connState = "WIFI_INIT" /\ pCon = "null" /\ ~posted
  /\ user = "waiting" => connState \notin {"WIFI_INIT", "MQTT_DELETED"} /\ mqttTimer
  /\ user = "published" => connState \in {"MQTT_DELETED", "WIFI_INIT", "TCP_RECONNECT_REQ"}
                           /\ ~mqttTimer
  /\ user = "failed" =>
       /\ ~mqttTimer
       /\ \/ posted /\ connState = "MQTT_DELETED" /\ pCon = "idle"
          \/ ~posted /\ connState = "WIFI_INIT" /\ pCon = "null"

\* Values on their way in a session of push.c: those that arrived, at most one
\* sent, and the rest in the queue, in order; without one sent, the task is due.
InOrder ==
  LET n == Len(arrived) + Len(unsent)
  IN  /\ n + Len(msgQueue) = Values
      /\ Len(unsent) <= 1
      /\ \A i \in 1 .. Len(unsent) : unsent[i] = Len(arrived) + 1
      /\ \A i \in 1 .. Len(msgQueue) : msgQueue[i] = n + i
      /\ unsent = <<>> => posted /\ msgQueue # <<>> /\ sendTimeout = 0
      /\ unsent # <<>> => pending = "PUBLISH" /\ ~posted

Quiet ==
  kind = "push" =>
    /\ keepAliveTick <= ticks
    /\ connState \notin {"MQTT_KEEPALIVE_SEND", "TCP_RECONNECT_DISCONNECTING"}
    /\ user = "idle" => arrived = <<>>
    /\ connState \in {"TCP_CONNECTING", "MQTT_CONNECT_SENDING"} => arrived = <<>>
    /\ connState = "MQTT_CONNECT_SENDING" =>
         /\ Len(unsent) <= 1 /\ \A i \in 1 .. Len(unsent) : unsent[i] = 0
         /\ unsent = <<>> => sendTimeout = 0
    /\ connState = "MQTT_DATA" => InOrder
    /\ connState \notin {"MQTT_DATA", "MQTT_CONNECT_SENDING"} => unsent = <<>>

IInv == TypeOK /\ Types /\ Connection /\ Due /\ User /\ Quiet

LEMMA Appended ==
  ASSUME NEW S, NEW s \in Seq(S), NEW v \in S
  PROVE  /\ Append(s, v) \in Seq(S) /\ Len(Append(s, v)) = Len(s) + 1 /\ Append(s, v) # <<>>
         /\ \A i \in 1 .. Len(s) : Append(s, v)[i] = s[i]
         /\ Append(s, v)[Len(s) + 1] = v
  OBVIOUS

LEMMA TailOf ==
  ASSUME NEW S, NEW s \in Seq(S), s # <<>>
  PROVE  /\ Head(s) \in S /\ Head(s) = s[1] /\ Len(s) \in Nat \ {0}
         /\ Tail(s) \in Seq(S) /\ Len(Tail(s)) = Len(s) - 1
         /\ Tail(s) = <<>> <=> Len(s) = 1
         /\ \A i \in 1 .. Len(s) - 1 : Tail(s)[i] = s[i + 1]
<1>1. /\ Head(s) \in S /\ Head(s) = s[1] /\ Len(s) \in Nat /\ Len(s) # 0
      /\ Tail(s) \in Seq(S) /\ Len(Tail(s)) = Len(s) - 1
  BY EmptySeq
<1>2. Tail(s) = <<>> <=> Len(Tail(s)) = 0
  BY <1>1, EmptySeq
<1>3. \A i \in 1 .. Len(s) - 1 : Tail(s)[i] = s[i + 1]
  BY <1>1
<1> QED
  BY <1>1, <1>2, <1>3

LEMMA EmptySeqs == ASSUME NEW S PROVE <<>> \in Seq(S) /\ Len(<<>>) = 0
  OBVIOUS

LEMMA InitIInv == Init => IInv
<1> USE HostsAssumption, ValuesAssumption, TicksAssumption
<1> SUFFICES ASSUME Init PROVE IInv
  OBVIOUS
<1>1. TypeOK
  <2>1. KeepAlive \in Nat
    BY DEF KeepAlive
  <2>2. Len(msgQueue) <= Values
    BY DEF Init
  <2>3. /\ sendTimeout \in 0 .. SendTimeout /\ keepAliveTick \in 0 .. KeepAlive + 1
        /\ reconnectTick \in 0 .. ReconnectTimeout /\ ticks \in 0 .. Life
    BY <2>1 DEF Init
  <2> QED
    BY <2>2, <2>3, Zenon DEF Init, TypeOK
<1>2. Types
  BY EmptySeqs DEF Init, Types
<1>3. Connection /\ Due /\ User /\ Quiet
  BY DEF Init, Connection, Due, User, Quiet, KeepAlive
<1> QED
  BY <1>1, <1>2, <1>3 DEF IInv

LEMMA PushStep ==
  ASSUME IInv, mqttPush, UNCHANGED kind
  PROVE  IInv'
<1> USE ValuesAssumption, HostsAssumption, TicksAssumption DEF mqttPush, espconn_connect
<1>1. TypeOK' /\ Types'
  BY EmptySeqs DEF IInv, TypeOK, Types, KeepAlive
<1>2. Connection' /\ Due' /\ User'
  BY DEF Connection, Due, User
<1>3. Quiet'
  BY DEF IInv, TypeOK, Quiet
<1> QED
  BY <1>1, <1>2, <1>3 DEF IInv

\* The name was found or not; the connection broke or was closed.
LEMMA NetworkStep ==
  ASSUME IInv, UNCHANGED kind,
         DnsFound \/ DnsFailed \/ mqtt_tcpclient_recon_cb \/ mqtt_tcpclient_discon_cb
  PROVE  IInv'
<1>1. /\ UNCHANGED <<kind, pending, counters, msgQueue, mqttTimer, user, arrived, ticks>>
      /\ \/ pCon' \in {"connecting", "unasked"} /\ connState' = "TCP_CONNECTING" /\ pCon = "lookup"
            /\ posted' /\ UNCHANGED unsent
         \/ /\ pCon' = "idle" /\ connState' = "TCP_RECONNECT_REQ"
            /\ \/ pCon = "lookup" /\ UNCHANGED <<unsent, posted>>
               \/ pCon \in {"connecting", "up", "closing"} /\ unsent' = <<>> /\ posted'
            /\ posted \in BOOLEAN => posted' \in BOOLEAN
  BY DEF IInv, Connection, DnsFound, espconn_connect, DnsFailed, mqtt_tcpclient_recon_cb,
     mqtt_tcpclient_discon_cb
<1>2. TypeOK'
  BY <1>1 DEF IInv, TypeOK, KeepAlive, counters
<1>3. Types'
  BY <1>1, EmptySeqs DEF IInv, Types
<1>4. Connection' /\ Due'
  BY <1>1 DEF IInv, Connection, Due, KeepAlive, counters
<1>5. User'
  BY <1>1 DEF IInv, Connection, User
<1>6. Quiet'
  BY <1>1 DEF IInv, Connection, User, Quiet, counters
<1> QED
  BY <1>2, <1>3, <1>4, <1>5, <1>6 DEF IInv

LEMMA ConnectStep ==
  ASSUME IInv, mqtt_tcpclient_connect_cb, UNCHANGED kind
  PROVE  IInv'
<1> USE ValuesAssumption, TicksAssumption DEF mqtt_tcpclient_connect_cb
<1>1. connState = "TCP_CONNECTING" /\ unsent = <<>> /\ unsent' = <<0>>
  <2>1. connState = "TCP_CONNECTING" /\ unsent = <<>>
    BY DEF IInv, Connection
  <2> QED
    BY <2>1
<1>2. user = "waiting"
  BY <1>1 DEF IInv, TypeOK, User
<1>3. TypeOK'
  BY DEF IInv, TypeOK, KeepAlive
<1>4. Types'
  BY <1>1 DEF IInv, Types, Packets
<1>5. Connection' /\ Due' /\ User'
  BY <1>1, <1>2 DEF IInv, Connection, Due, User
<1>6. Quiet'
  BY <1>1, <1>2 DEF IInv, Quiet
<1> QED
  BY <1>3, <1>4, <1>5, <1>6 DEF IInv

\* The queue holds all values and the task is due.
LEMMA ConnackStep ==
  ASSUME IInv, RecvConnack, UNCHANGED kind
  PROVE  IInv'
<1> USE ValuesAssumption, TicksAssumption
<1>1. /\ connState = "MQTT_CONNECT_SENDING" /\ pCon = "up" /\ unsent = <<>> /\ posted'
      /\ UNCHANGED <<kind, pending, counters, mqttTimer, unsent, user, arrived, ticks>>
  BY DEF RecvConnack
<1>2. user = "waiting" /\ msgQueue = <<>> /\ keepAliveTick = 0
  BY <1>1 DEF IInv, TypeOK, User, Due
<1>3. /\ AllValues \in Seq(Packets) /\ Len(AllValues) = Values /\ AllValues # <<>>
      /\ \A i \in 1 .. Values : AllValues[i] = i
  BY DEF AllValues, Packets
<1>4. CASE connState' = "MQTT_DATA" /\ msgQueue' = msgQueue \o AllValues /\ UNCHANGED pCon
  <2>1. msgQueue' = AllValues
    BY <1>2, <1>3, <1>4, ConcatEmptySeq
  <2>2. TypeOK'
    BY <1>1, <1>3, <1>4, <2>1 DEF IInv, TypeOK, KeepAlive, counters
  <2>3. Types'
    BY <1>1, <1>3, <2>1 DEF IInv, Types
  <2>4. Connection' /\ User'
    BY <1>1, <1>2, <1>4 DEF IInv, Connection, User
  <2>5. Due'
    BY <1>1, <1>2, <1>4 DEF Due, KeepAlive, counters
  <2>6. Quiet'
    <3>1. ASSUME kind = "push" PROVE arrived = <<>> /\ sendTimeout = 0 /\ keepAliveTick <= ticks
      BY <1>1, <3>1 DEF IInv, Quiet
    <3>2. ASSUME kind = "push" PROVE InOrder'
      BY <1>1, <1>3, <2>1, <3>1, <3>2 DEF InOrder, counters
    <3> QED
      BY <1>1, <1>2, <1>4, <3>1, <3>2 DEF Quiet, counters
  <2> QED
    BY <2>2, <2>3, <2>4, <2>5, <2>6 DEF IInv
<1>5. CASE pCon' = "closing" /\ UNCHANGED <<connState, msgQueue>>
  <2>1. TypeOK'
    BY <1>1, <1>5 DEF IInv, TypeOK, KeepAlive, counters
  <2>2. Types' /\ Connection' /\ Due' /\ User'
    BY <1>1, <1>2, <1>5 DEF IInv, Types, Connection, Due, User, KeepAlive, counters
  <2>3. Quiet'
    BY <1>1, <1>2, <1>5 DEF IInv, Quiet, counters
  <2> QED
    BY <2>1, <2>2, <2>3 DEF IInv
<1> QED
  BY <1>4, <1>5 DEF RecvConnack

LEMMA OtherStep ==
  ASSUME IInv, RecvOther, UNCHANGED kind
  PROVE  IInv'
<1> USE ValuesAssumption, TicksAssumption
<1>1. /\ kind = "long" /\ pCon = "up" /\ posted'
      /\ UNCHANGED <<kind, connState, pending, counters, mqttTimer, pCon, unsent, user, arrived, ticks>>
  BY DEF RecvOther
<1>2. \/ UNCHANGED msgQueue
      \/ connState \in {"MQTT_DATA", "MQTT_KEEPALIVE_SEND"} /\ Len(msgQueue) < Values
         /\ msgQueue' = Append(msgQueue, 0)
  BY DEF RecvOther
<1>3. msgQueue' \in Seq(Packets) /\ Len(msgQueue') <= Values
  <2>1. msgQueue \in Seq(Packets) /\ 0 \in Packets /\ Len(msgQueue) <= Values
    BY DEF IInv, TypeOK, Types, Packets
  <2>2. Append(msgQueue, 0) \in Seq(Packets) /\ Len(Append(msgQueue, 0)) = Len(msgQueue) + 1
    BY <2>1, Appended
  <2>3. Len(msgQueue) \in Nat
    BY <2>1
  <2> QED
    BY <1>2, <2>1, <2>2, <2>3
<1>4. TypeOK'
  BY <1>1, <1>3 DEF IInv, TypeOK, KeepAlive, counters
<1>5. Types' /\ Connection'
  BY <1>1, <1>3 DEF IInv, Types, Connection
<1>6. Due' /\ User'
  BY <1>1, <1>2 DEF IInv, Due, User, KeepAlive, counters
<1>7. Quiet'
  BY <1>1 DEF Quiet
<1> QED
  BY <1>4, <1>5, <1>6, <1>7 DEF IInv

\* The acknowledged value joins those that arrived; the rest stays in order.
LEMMA SentStep ==
  ASSUME IInv, mqtt_tcpclient_sent_cb, UNCHANGED kind
  PROVE  IInv'
<1> USE ValuesAssumption, TicksAssumption
<1>1. /\ unsent # <<>> /\ unsent' = Tail(unsent) /\ sendTimeout' = 0 /\ keepAliveTick' = 0
      /\ arrived' = IF Head(unsent) = 0 THEN arrived ELSE Append(arrived, Head(unsent))
      /\ UNCHANGED <<kind, pending, reconnectTick, msgQueue, pCon, ticks>>
  BY DEF mqtt_tcpclient_sent_cb
<1>2. /\ Head(unsent) \in Packets /\ Head(unsent) = unsent[1] /\ Len(unsent) \in Nat \ {0}
      /\ Tail(unsent) \in Seq(Packets) /\ Len(Tail(unsent)) = Len(unsent) - 1
      /\ Tail(unsent) = <<>> <=> Len(unsent) = 1
  BY <1>1, TailOf DEF IInv, Types
<1>3. Types'
  <2>1. arrived' \in Seq(Packets)
    BY <1>1, <1>2, Appended DEF IInv, Types
  <2> QED
    BY <1>1, <1>2, <2>1 DEF IInv, Types
<1>4. pCon \in {"up", "closing"} /\ user \notin {"idle", "failed"}
  BY <1>1 DEF IInv, Connection, User
<1>5. CASE /\ connState \in {"MQTT_DATA", "MQTT_KEEPALIVE_SEND"} /\ pending = "PUBLISH"
           /\ msgQueue = <<>> /\ DeleteClient /\ user' = "published"
  <2>1. TypeOK'
    <3>1. sendTimeout' \in 0 .. SendTimeout /\ keepAliveTick' \in 0 .. KeepAlive' + 1
      BY <1>1 DEF KeepAlive
    <3> QED
      BY <1>1, <1>5, <3>1 DEF IInv, TypeOK, DeleteClient
  <2>2. Connection' /\ Due' /\ User'
    BY <1>1, <1>4, <1>5 DEF IInv, Connection, Due, User, DeleteClient
  <2>3. ASSUME kind = "push" PROVE unsent' = <<>> /\ 0 <= ticks
    <3>1. connState = "MQTT_DATA"
      BY <1>5, <2>3 DEF IInv, Quiet
    <3>2. InOrder /\ 0 <= ticks
      BY <2>3, <3>1 DEF IInv, TypeOK, Quiet
    <3>3. Len(unsent) = 1
      BY <1>2, <3>2 DEF InOrder
    <3> QED
      BY <1>1, <1>2, <3>2, <3>3
  <2>4. Quiet'
    BY <1>1, <1>5, <2>3 DEF Quiet, DeleteClient
  <2> QED
    BY <1>3, <2>1, <2>2, <2>4 DEF IInv
<1>6. CASE /\ \/ connState \notin {"MQTT_DATA", "MQTT_KEEPALIVE_SEND"}
              \/ pending # "PUBLISH" \/ msgQueue # <<>>
           /\ posted' = TRUE /\ UNCHANGED <<connState, mqttTimer, user>>
  <2>1. TypeOK'
    BY <1>1, <1>6 DEF IInv, TypeOK, KeepAlive
  <2>2. Connection' /\ User'
    BY <1>1, <1>4, <1>6 DEF IInv, Connection, User
  <2>3. Due'
    BY <1>1, <1>6 DEF IInv, Due, KeepAlive
  <2>4. ASSUME kind = "push", connState = "MQTT_DATA" PROVE InOrder'
    <3>1. InOrder /\ Len(arrived) \in Nat /\ Len(msgQueue) \in Nat
      BY <2>4 DEF IInv, Types, Quiet
    <3>2. /\ Len(unsent) = 1 /\ unsent[1] = Len(arrived) + 1 /\ pending = "PUBLISH"
          /\ Len(arrived) + 1 + Len(msgQueue) = Values
          /\ \A i \in 1 .. Len(msgQueue) : msgQueue[i] = Len(arrived) + 1 + i
      <4>1. Len(unsent) <= 1
        BY <3>1 DEF InOrder
      <4>2. Len(unsent) = 1
        BY <1>2, <4>1
      <4> QED
        BY <1>1, <3>1, <4>2 DEF InOrder
    <3>3. Len(arrived') = Len(arrived) + 1 /\ unsent' = <<>> /\ Len(unsent') = 0
      BY <1>1, <1>2, <3>1, <3>2, Appended, EmptySeqs DEF IInv, Types
    <3>4. msgQueue # <<>> /\ posted' /\ UNCHANGED msgQueue /\ sendTimeout' = 0
      BY <1>1, <1>6, <2>4, <3>2
    <3> QED
      BY <3>1, <3>2, <3>3, <3>4 DEF InOrder
  <2>5. ASSUME kind = "push", connState = "MQTT_CONNECT_SENDING"
        PROVE  unsent' = <<>> /\ arrived' = <<>>
    <3>1. Len(unsent) = 1 /\ unsent[1] = 0 /\ arrived = <<>>
      BY <1>2, <2>5 DEF IInv, Types, Quiet
    <3> QED
      BY <1>1, <1>2, <3>1
  <2>6. kind = "push" => connState \in {"MQTT_DATA", "MQTT_CONNECT_SENDING"} /\ 0 <= ticks
    BY <1>1 DEF IInv, TypeOK, Quiet
  <2>7. Quiet'
    <3>1. CASE kind = "push" /\ connState = "MQTT_DATA"
      BY <1>1, <1>4, <1>6, <2>4, <2>6, <3>1 DEF Quiet
    <3>2. CASE kind = "push" /\ connState = "MQTT_CONNECT_SENDING"
      <4>1. Len(unsent') = 0 /\ unsent' = <<>> /\ arrived' = <<>>
        BY <2>5, <3>2, EmptySeqs
      <4>2. /\ UNCHANGED <<kind, connState, user, ticks>> /\ sendTimeout' = 0
            /\ keepAliveTick' = 0 /\ 0 <= ticks
        BY <1>1, <1>6, <2>6, <3>2
      <4>3. \A i \in 1 .. Len(unsent') : unsent'[i] = 0
        BY <4>1
      <4>4. Len(unsent') <= 1
        BY <4>1
      <4> QED
        BY <3>2, <4>1, <4>2, <4>3, <4>4 DEF Quiet
    <3>3. CASE kind # "push"
      BY <1>1, <3>3 DEF Quiet
    <3> QED
      BY <2>6, <3>1, <3>2, <3>3
  <2> QED
    BY <1>3, <2>1, <2>2, <2>3, <2>7 DEF IInv
<1> QED
  BY <1>5, <1>6 DEF mqtt_tcpclient_sent_cb

\* The one-second timer: a keep-alive never comes due in a session of push.c, and
\* what is lost long enough is deleted and reported.
LEMMA TimerStep ==
  ASSUME IInv, mqtt_timer, UNCHANGED kind
  PROVE  IInv'
<1> USE ValuesAssumption, TicksAssumption, KeepAliveAssumption
<1>1. /\ mqttTimer /\ ticks < Life /\ ticks' = ticks + 1
      /\ sendTimeout' = IF sendTimeout > 0 THEN sendTimeout - 1 ELSE 0
      /\ UNCHANGED <<kind, pending, msgQueue, pCon, unsent, arrived>>
  BY DEF mqtt_timer
<1>2. /\ sendTimeout' \in 0 .. SendTimeout /\ ticks \in Nat /\ ticks' \in 0 .. Life
      /\ sendTimeout = 0 => sendTimeout' = 0
  BY <1>1 DEF IInv, TypeOK
<1>3. user \notin {"published", "failed"} /\ Types'
  BY <1>1 DEF IInv, User, Types
<1>4. CASE TickKeepAlive
  <2>1. /\ connState = "MQTT_DATA" /\ keepAliveTick' = keepAliveTick + 1
        /\ UNCHANGED <<reconnectTick, mqttTimer, user>>
        /\ \/ keepAliveTick' > KeepAlive /\ connState' = "MQTT_KEEPALIVE_SEND"
              /\ posted' = TRUE
           \/ keepAliveTick' <= KeepAlive /\ UNCHANGED <<connState, posted>>
    <3>1. keepAliveTick' \in Nat /\ KeepAlive \in Nat
      BY <1>4 DEF TickKeepAlive, IInv, TypeOK, KeepAlive
    <3> QED
      BY <1>4, <3>1 DEF TickKeepAlive
  <2>2. keepAliveTick \in Nat /\ keepAliveTick <= KeepAlive /\ KeepAlive' = KeepAlive
        /\ KeepAlive \in Nat
    BY <1>1, <2>1 DEF IInv, TypeOK, Due, KeepAlive
  <2>3. TypeOK'
    <3>1. keepAliveTick' \in 0 .. KeepAlive' + 1
      BY <2>1, <2>2
    <3>2. /\ posted' \in BOOLEAN
          /\ connState' \in {"MQTT_KEEPALIVE_SEND", "MQTT_DATA"}
      BY <2>1 DEF IInv, TypeOK
    <3> QED
      BY <1>1, <1>2, <2>1, <3>1, <3>2 DEF IInv, TypeOK
  <2>4. Connection' /\ Due' /\ User'
    BY <1>1, <1>3, <2>1, <2>2 DEF IInv, Connection, Due, User
  <2>5. Quiet'
    <3>1. ASSUME kind = "push"
          PROVE  keepAliveTick' <= ticks' /\ UNCHANGED <<connState, posted>> /\ InOrder
      BY <1>1, <1>2, <2>1, <2>2, <3>1 DEF IInv, Quiet, KeepAlive
    <3>2. ASSUME kind = "push" PROVE InOrder'
      BY <1>1, <1>2, <3>1, <3>2 DEF InOrder
    <3> QED
      BY <1>1, <1>3, <2>1, <3>1, <3>2 DEF IInv, Quiet
  <2> QED
    BY <1>3, <2>3, <2>4, <2>5 DEF IInv
<1>5. CASE TickReconnect
  <2>1. /\ connState = "TCP_RECONNECT_REQ" /\ UNCHANGED keepAliveTick
        /\ \/ reconnectTick < ReconnectTimeout /\ reconnectTick' = reconnectTick + 1
              /\ UNCHANGED <<connState, posted, mqttTimer, user>>
           \/ /\ reconnectTick' = 0 /\ connState' = "MQTT_DELETED" /\ posted' = TRUE
              /\ mqttTimer' = FALSE /\ user' = "failed"
    BY <1>5 DEF TickReconnect, DeleteClient
  <2>2. TypeOK'
    <3>1. reconnectTick \in 0 .. ReconnectTimeout
      BY DEF IInv, TypeOK
    <3>2. reconnectTick' \in 0 .. ReconnectTimeout
      BY <2>1, <3>1
    <3>3. keepAliveTick' \in 0 .. KeepAlive' + 1
      BY <1>1, <2>1 DEF IInv, TypeOK, KeepAlive
    <3> QED
      BY <1>1, <1>2, <2>1, <3>2, <3>3 DEF IInv, TypeOK
  <2>3. Connection' /\ Due' /\ User'
    BY <1>1, <1>3, <2>1 DEF IInv, Connection, Due, User, KeepAlive
  <2>4. Quiet'
    <3>1. ASSUME kind = "push"
          PROVE  keepAliveTick' <= ticks' /\ unsent' = <<>> /\ user' # "idle"
      <4>1. keepAliveTick <= ticks /\ unsent = <<>> /\ user # "idle"
        BY <2>1, <3>1 DEF IInv, User, Quiet
      <4>2. keepAliveTick \in Int
        BY DEF IInv, TypeOK, KeepAlive
      <4>3. user' # "idle" /\ unsent' = <<>> /\ UNCHANGED keepAliveTick
        BY <1>1, <2>1, <4>1
      <4> QED
        BY <1>1, <1>2, <4>1, <4>2, <4>3
    <3> QED
      BY <1>1, <2>1, <3>1 DEF Quiet
  <2> QED
    BY <1>3, <2>2, <2>3, <2>4 DEF IInv
<1>6. CASE /\ connState \notin {"MQTT_DATA", "TCP_RECONNECT_REQ"}
           /\ UNCHANGED <<connState, posted, mqttTimer, user, keepAliveTick, reconnectTick>>
  <2>1. TypeOK'
    BY <1>1, <1>2, <1>6 DEF IInv, TypeOK, KeepAlive
  <2>2. Connection' /\ Due' /\ User'
    BY <1>1, <1>6 DEF IInv, Connection, Due, User
  <2>3. Quiet'
    BY <1>1, <1>2, <1>6 DEF IInv, TypeOK, Quiet
  <2> QED
    BY <1>3, <2>1, <2>2, <2>3 DEF IInv
<1> QED
  BY <1>4, <1>5, <1>6 DEF mqtt_timer

\* The task sends the next value only when nothing else is on its way.
LEMMA SendStep ==
  ASSUME IInv, posted, TaskSend, UNCHANGED <<kind, ticks>>
  PROVE  IInv'
<1> USE ValuesAssumption, TicksAssumption
<1>1. /\ connState = "MQTT_DATA" /\ msgQueue # <<>>
      /\ pending' = IF Head(msgQueue) = 0 THEN "answer" ELSE "PUBLISH"
      /\ sendTimeout' = SendTimeout /\ keepAliveTick' = 0 /\ msgQueue' = Tail(msgQueue)
      /\ \/ unsent' = Append(unsent, Head(msgQueue))
         \/ unsent # <<>> /\ UNCHANGED unsent
      /\ posted' = FALSE
      /\ UNCHANGED <<kind, connState, reconnectTick, mqttTimer, pCon, user, arrived, ticks>>
  BY DEF TaskSend
<1>2. /\ Head(msgQueue) \in Packets /\ Head(msgQueue) = msgQueue[1] /\ Len(msgQueue) \in Nat \ {0}
      /\ Tail(msgQueue) \in Seq(Packets) /\ Len(Tail(msgQueue)) = Len(msgQueue) - 1
      /\ \A i \in 1 .. Len(msgQueue) - 1 : Tail(msgQueue)[i] = msgQueue[i + 1]
  BY <1>1, TailOf DEF IInv, Types
<1>3. Append(unsent, Head(msgQueue)) \in Seq(Packets)
  BY <1>2, Appended DEF IInv, Types
<1>4. pending' \in {"PUBLISH", "answer"} /\ KeepAlive' = KeepAlive /\ KeepAlive \in Nat
  BY <1>1 DEF KeepAlive
<1>5. TypeOK'
  <2>1. /\ sendTimeout' \in 0 .. SendTimeout /\ keepAliveTick' \in 0 .. KeepAlive' + 1
        /\ Len(msgQueue') <= Values
    BY <1>1, <1>2, <1>4 DEF IInv, TypeOK
  <2> QED
    BY <1>1, <1>4, <2>1 DEF IInv, TypeOK
<1>6. Types'
  BY <1>1, <1>2, <1>3 DEF IInv, Types
<1>7. Connection' /\ Due' /\ User'
  BY <1>1, <1>4 DEF IInv, Connection, Due, User
<1>8. ASSUME kind = "push" PROVE InOrder'
  <2>1. InOrder /\ Len(arrived) \in Nat
    BY <1>1, <1>8 DEF IInv, Types, Quiet
  <2>2. unsent = <<>> /\ Len(unsent) = 0
    BY <2>1, EmptySeqs DEF InOrder
  <2>3. /\ Len(arrived) + Len(msgQueue) = Values /\ Head(msgQueue) = Len(arrived) + 1
        /\ \A i \in 1 .. Len(msgQueue) : msgQueue[i] = Len(arrived) + i
    BY <1>2, <2>1, <2>2 DEF InOrder
  <2>4. /\ Len(unsent') = 1 /\ unsent'[1] = Len(arrived) + 1 /\ unsent' # <<>>
    <3>1. unsent \in Seq(Packets) /\ unsent' = Append(unsent, Head(msgQueue))
      BY <1>1, <2>2 DEF IInv, Types
    <3>2. /\ Len(unsent') = Len(unsent) + 1 /\ unsent' # <<>>
          /\ unsent'[Len(unsent) + 1] = Head(msgQueue)
      BY <1>2, <3>1, Appended
    <3> QED
      BY <2>2, <2>3, <3>2
  <2>5. /\ Len(msgQueue') = Len(msgQueue) - 1 /\ UNCHANGED arrived
        /\ pending' = "PUBLISH" /\ ~posted'
        /\ \A i \in 1 .. Len(msgQueue') : msgQueue'[i] = Len(arrived) + 1 + i
    BY <1>1, <1>2, <2>1, <2>3
  <2> QED
    BY <1>2, <2>1, <2>3, <2>4, <2>5 DEF InOrder
<1>9. Quiet'
  BY <1>1, <1>8 DEF IInv, TypeOK, Quiet
<1> QED
  BY <1>5, <1>6, <1>7, <1>9 DEF IInv

LEMMA TaskStep ==
  ASSUME IInv, MQTT_Task, UNCHANGED kind
  PROVE  IInv'
<1> USE ValuesAssumption, TicksAssumption
<1>1. posted /\ UNCHANGED <<kind, ticks>>
  BY DEF MQTT_Task
<1>2. CASE TaskDisconnect
  <2>1. TypeOK' /\ Types'
    BY <1>1, <1>2 DEF TaskDisconnect, IInv, TypeOK, Types, KeepAlive, counters
  <2>2. Connection' /\ Due' /\ User' /\ Quiet'
    BY <1>1, <1>2 DEF TaskDisconnect, IInv, Connection, Due, User, Quiet, KeepAlive, counters
  <2> QED
    BY <2>1, <2>2 DEF IInv
<1>3. CASE TaskDelete
  <2> USE DEF TaskDelete, mqtt_client_delete
  <2>1. Types' /\ Len(msgQueue') <= Values
    BY <1>1, <1>3, EmptySeqs DEF IInv, Types
  <2>2. TypeOK'
    BY <1>1, <1>3, <2>1 DEF IInv, TypeOK, KeepAlive, counters
  <2>3. Connection' /\ Due' /\ User'
    BY <1>1, <1>3 DEF IInv, Connection, Due, User, KeepAlive, counters
  <2>4. Quiet'
    BY <1>1, <1>3 DEF IInv, Quiet, counters
  <2> QED
    BY <2>1, <2>2, <2>3, <2>4 DEF IInv
<1>4. CASE mqtt_send_keepalive
  <2> USE DEF mqtt_send_keepalive
  <2>1. kind = "long" /\ Append(unsent, 0) \in Seq(Packets)
    BY <1>4, Appended DEF IInv, Types, Quiet, Packets
  <2>2. TypeOK' /\ Types'
    <3>1. sendTimeout' \in 0 .. SendTimeout /\ keepAliveTick' \in 0 .. KeepAlive' + 1
      BY <1>1, <1>4 DEF IInv, TypeOK, KeepAlive
    <3>2. TypeOK'
      BY <1>1, <1>4, <3>1 DEF IInv, TypeOK
    <3>3. Types'
      BY <1>1, <1>4, <2>1 DEF IInv, Types
    <3> QED
      BY <3>2, <3>3
  <2>3. Connection' /\ Due' /\ User'
    BY <1>1, <1>4 DEF IInv, Connection, Due, User, KeepAlive
  <2>4. Quiet'
    BY <1>1, <2>1 DEF Quiet
  <2> QED
    BY <2>2, <2>3, <2>4 DEF IInv
<1>5. CASE TaskSend
  BY <1>1, <1>5, SendStep
<1>6. CASE TaskNothing
  <2> USE DEF TaskNothing
  <2>1. TypeOK' /\ Types'
    BY <1>1, <1>6 DEF IInv, TypeOK, Types, KeepAlive, counters
  <2>2. Connection' /\ Due' /\ User'
    BY <1>1, <1>6 DEF IInv, Connection, Due, User, KeepAlive, counters
  <2>3. ASSUME kind = "push", connState = "MQTT_DATA" PROVE FALSE
    BY <1>1, <1>6, <2>3 DEF IInv, Quiet, InOrder
  <2>4. Quiet'
    BY <1>1, <1>6, <2>3 DEF IInv, Quiet, counters
  <2> QED
    BY <2>1, <2>2, <2>4 DEF IInv
<1> QED
  BY <1>2, <1>3, <1>4, <1>5, <1>6 DEF MQTT_Task

LEMMA Invariance == Spec => []IInv
<1>1. ASSUME IInv, Next PROVE IInv'
  BY <1>1, PushStep, NetworkStep, ConnectStep, ConnackStep, OtherStep, SentStep, TimerStep, TaskStep
     DEF Next
<1>2. ASSUME IInv, UNCHANGED vars PROVE IInv'
  <2> USE <1>2 DEF vars, counters
  <2>1. TypeOK' /\ Types'
    BY DEF IInv, TypeOK, Types, KeepAlive
  <2>2. Connection' /\ Due' /\ User'
    BY DEF IInv, Connection, Due, User, KeepAlive
  <2>3. Quiet'
    BY DEF IInv, Quiet, InOrder
  <2> QED
    BY <2>1, <2>2, <2>3 DEF IInv
<1> QED
  BY <1>1, <1>2, InitIInv, PTL DEF Spec

\* Every variable keeps its type, and the timeouts bound their counters.
THEOREM TypeCorrect == Spec => []TypeOK
  BY Invariance, PTL DEF IInv

\* Whatever the network does, the task never sends on a connection that is gone,
\* and a failed client is freed before mqttPush may clear its structure.
THEOREM ConnectionAlwaysOwned == Spec => []ConnectionOwned
<1>1. IInv => UsesLiveConnection
  BY DEF IInv, Connection, UsesLiveConnection
<1>2. IInv => FailedIsFreed
  BY DEF IInv, User, FailedIsFreed
<1> QED
  BY <1>1, <1>2, Invariance, PTL DEF ConnectionOwned

\* A client that push.c waits for is moved on by a callback or by its timer, but for
\* one that connects although nobody asked the stack to.
THEOREM WaitsAreServed == Spec => []WaitingIsServed
<1>1. IInv => WaitingIsServed
  BY DEF IInv, TypeOK, Connection, User, WaitingIsServed
<1> QED
  BY <1>1, Invariance, PTL

\* The client implements MqttSession: success means that all values arrived, in
\* order; a failure follows a loss.
THEOREM SessionImplemented == Spec => RefinesSession
<1> USE ValuesAssumption, TicksAssumption, HostsAssumption
<1> DEFINE state == IF kind = "long" \/ user # "waiting" THEN "none"
                    ELSE IF connState = "TCP_RECONNECT_REQ" THEN "down" ELSE "open"
           got   == IF kind = "long" THEN <<>> ELSE arrived
<1>1. Init => Session!Init
  BY DEF Init, Session!Init
<1>2. ASSUME IInv, Next PROVE [Session!Next]_<<state, got>>
  <2>1. UNCHANGED kind
    BY <1>2 DEF Next
  <2>2. CASE kind = "long"
    BY <2>1, <2>2
  <2>3. CASE kind = "push"
    <3> USE <2>1, <2>3
    <3>1. got = arrived /\ got' = arrived'
      OBVIOUS
    <3>2. /\ user # "waiting" => state = "none"
          /\ user = "waiting" /\ connState = "TCP_RECONNECT_REQ" => state = "down"
          /\ user = "waiting" /\ connState # "TCP_RECONNECT_REQ" => state = "open"
      OBVIOUS
    <3>3. /\ user' # "waiting" => state' = "none"
          /\ user' = "waiting" /\ connState' = "TCP_RECONNECT_REQ" => state' = "down"
          /\ user' = "waiting" /\ connState' # "TCP_RECONNECT_REQ" => state' = "open"
      OBVIOUS
    <3> HIDE DEF state, got
    <3>4. CASE mqttPush
      BY <3>1, <3>2, <3>3, <3>4 DEF mqttPush, Session!Next, Session!Start, state, got
    <3>5. CASE DnsFound \/ mqtt_tcpclient_connect_cb \/ RecvConnack
      <4>1. UNCHANGED <<user, arrived>> /\ connState' # "TCP_RECONNECT_REQ"
        BY <1>2, <3>5 DEF DnsFound, mqtt_tcpclient_connect_cb, RecvConnack, IInv, Connection
      <4>2. connState # "TCP_RECONNECT_REQ"
        BY <1>2, <3>5 DEF DnsFound, mqtt_tcpclient_connect_cb, RecvConnack, IInv, Connection
      <4> QED
        BY <3>1, <3>2, <3>3, <4>1, <4>2
    <3>6. CASE DnsFailed \/ mqtt_tcpclient_recon_cb \/ mqtt_tcpclient_discon_cb
      <4>1. /\ UNCHANGED <<user, arrived>> /\ connState' = "TCP_RECONNECT_REQ"
            /\ connState # "TCP_RECONNECT_REQ"
        BY <1>2, <3>6 DEF DnsFailed, mqtt_tcpclient_recon_cb, mqtt_tcpclient_discon_cb, IInv, Connection
      <4> QED
        BY <3>1, <3>2, <3>3, <4>1 DEF Session!Next, Session!Lose, state, got
    <3>7. CASE mqtt_tcpclient_sent_cb
      <4>1. connState \in {"MQTT_DATA", "MQTT_CONNECT_SENDING"} /\ user = "waiting"
        BY <1>2, <3>7 DEF mqtt_tcpclient_sent_cb, IInv, TypeOK, Connection, User, Quiet
      <4>2. /\ Len(unsent) \in Nat \ {0} /\ Head(unsent) = unsent[1]
            /\ Len(arrived) \in Nat /\ Len(msgQueue) \in Nat
        BY <1>2, <3>7, TailOf DEF mqtt_tcpclient_sent_cb, IInv, Types
      <4>3. CASE connState = "MQTT_CONNECT_SENDING"
        <5>1. Head(unsent) = 0
          BY <1>2, <4>2, <4>3 DEF IInv, Quiet
        <5> QED
          BY <3>1, <3>2, <3>3, <3>7, <4>1, <4>3, <5>1 DEF mqtt_tcpclient_sent_cb
      <4>4. CASE connState = "MQTT_DATA"
        <5>1. InOrder
          BY <1>2, <4>4 DEF IInv, Quiet
        <5>2. Len(unsent) = 1
          <6>1. Len(unsent) <= 1
            BY <5>1 DEF InOrder
          <6> QED
            BY <4>2, <6>1
        <5>3. /\ Head(unsent) = Len(arrived) + 1 /\ pending = "PUBLISH"
              /\ Len(arrived) + 1 + Len(msgQueue) = Values
          BY <3>7, <4>2, <5>1, <5>2 DEF InOrder, mqtt_tcpclient_sent_cb
        <5>4. arrived' = Append(arrived, Len(arrived) + 1)
          BY <3>7, <4>2, <5>3 DEF mqtt_tcpclient_sent_cb
        <5>5. Len(arrived') = Len(arrived) + 1
          BY <1>2, <5>4 DEF IInv, Types
        <5>6. \/ msgQueue = <<>> /\ user' = "published"
              \/ msgQueue # <<>> /\ UNCHANGED <<user, connState>>
          BY <3>7, <4>4, <5>3 DEF mqtt_tcpclient_sent_cb
        <5>7. msgQueue = <<>> <=> Len(msgQueue) = 0
          BY <1>2, EmptySeq DEF IInv, Types
        <5>8. Len(arrived) < Values /\ (Len(arrived') = Values <=> msgQueue = <<>>)
          BY <4>2, <5>3, <5>5, <5>7
        <5>9. state = "open" /\ state' = IF Len(arrived') = Values THEN "none" ELSE "open"
          BY <3>2, <3>3, <4>1, <4>4, <5>6, <5>8
        <5> QED
          BY <3>1, <5>4, <5>8, <5>9 DEF Session!Next, Session!Deliver, state, got
      <4> QED
        BY <4>1, <4>3, <4>4
    <3>8. CASE mqtt_timer
      <4>1. UNCHANGED arrived
        BY <3>8 DEF mqtt_timer
      <4>2. CASE UNCHANGED user /\ (connState' = "TCP_RECONNECT_REQ" <=> connState = "TCP_RECONNECT_REQ")
        BY <3>1, <3>2, <3>3, <4>1, <4>2
      <4>3. CASE connState = "TCP_RECONNECT_REQ" /\ user' = "failed"
        BY <3>1, <3>2, <3>3, <4>1, <4>3 DEF Session!Next, Session!Fail, state, got
      <4> QED
        BY <3>8, <4>2, <4>3 DEF mqtt_timer, TickKeepAlive, TickReconnect
    <3>9. CASE MQTT_Task
      <4>1. /\ UNCHANGED <<user, arrived>>
            /\ connState' = "TCP_RECONNECT_REQ" <=> connState = "TCP_RECONNECT_REQ"
        BY <3>9 DEF MQTT_Task, TaskDisconnect, TaskDelete, mqtt_client_delete, mqtt_send_keepalive,
                    TaskSend, TaskNothing
      <4> QED
        BY <3>1, <3>2, <3>3, <4>1
    <3> QED
      BY <1>2, <3>4, <3>5, <3>6, <3>7, <3>8, <3>9 DEF Next, RecvOther
  <2> QED
    BY <1>2, <2>2, <2>3 DEF IInv, Types
<1>3. UNCHANGED vars => UNCHANGED <<state, got>>
  BY DEF vars
<1> QED
  BY <1>1, <1>2, <1>3, Invariance, PTL DEF Spec, RefinesSession, Session!Spec
=============================================================================
