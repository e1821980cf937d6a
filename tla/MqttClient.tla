----------------------------- MODULE MqttClient -----------------------------
(***************************************************************************)
(* The MQTT client of lib/mqtt/mqtt.c with its user push.c: mqttPush       *)
(* starts it, mqttPushCb queues the values once the broker accepted the    *)
(* connection, mqttPublishCb and mqttErrorCb delete it.                    *)
(*                                                                         *)
(* The client is driven by callbacks of the SDK's TCP stack and name       *)
(* service, by its own one-second timer, and by MQTT_Task, a task with an  *)
(* event queue of one: a post while an event waits is lost, which is why   *)
(* MQTT_Task looks at connState only.  Each of them runs to its end before *)
(* the next; their order is free.                                          *)
(*                                                                         *)
(* Not modelled: TLS (the same calls under other names) and the            *)
(* TCP_RECONNECT case of MQTT_Task, which push.c's timeoutCb pre-empts.    *)
(***************************************************************************)
EXTENDS Naturals, Sequences

CONSTANTS
  Values,            \* how many values mqttPushCb publishes
  Hosts,             \* what MQTT_Connect meets: "ip", "lookup", "cached"
  Sessions,          \* what is allowed to happen: "push", "long"
  SendTimeout,       \* MQTT_SEND_TIMOUT
  ReconnectTimeout,  \* MQTT_RECONNECT_TIMEOUT
  KeepAliveTicks,    \* half of the keep-alive time
  ShortKeepAlive,    \* the same in a session that outlives it
  Life               \* timer ticks until the device sleeps at the latest

ASSUME ValuesAssumption == Values \in Nat /\ Values > 0

ASSUME HostsAssumption ==
  /\ Hosts \subseteq {"ip", "lookup", "cached"}
  /\ Sessions \subseteq {"push", "long"}

ASSUME TicksAssumption ==
  /\ SendTimeout \in Nat /\ SendTimeout > 0
  /\ ReconnectTimeout \in Nat /\ KeepAliveTicks \in Nat /\ ShortKeepAlive \in Nat
  /\ Life \in Nat

\* push.c asks for 120 s of keep-alive; its timeout comes after 45.
ASSUME KeepAliveAssumption == Life <= KeepAliveTicks

VARIABLES
  kind,           \* the kind of session: as push.c uses it, or "long": the broker
                  \* sends packets nobody asked for, and keep-alives come due
  connState,
  pending,        \* mqtt_state.pending_msg_type
  sendTimeout, keepAliveTick, reconnectTick,
  msgQueue,       \* the packets waiting: the number of the value, 0 for an answer
  posted,         \* an event waits in mqtt_procTaskQueue
  mqttTimer,      \* mqttTimer is armed
  pCon,           \* "null", or allocated: "unasked" (nobody asked to connect it),
                  \* "lookup", "connecting", "up", "closing", "idle" (lost)
  unsent,         \* packets given to espconn_send whose sent callback is to come:
                  \* the number of the value they publish, or 0
  user,           \* push.c: "idle", "waiting", "published", "failed"
  arrived,        \* values the broker's TCP has acknowledged, in order
  ticks           \* seconds since the first attempt

counters == <<sendTimeout, keepAliveTick, reconnectTick>>
vars == <<kind, connState, pending, counters, msgQueue, posted, mqttTimer, pCon, unsent, user,
          arrived, ticks>>

AllValues == [i \in 1 .. Values |-> i]

Init ==
  /\ kind \in Sessions
  /\ connState = "WIFI_INIT"
  /\ pending = "none"
  /\ sendTimeout = 0 /\ keepAliveTick = 0 /\ reconnectTick = 0
  /\ msgQueue = <<>>
  /\ posted = FALSE
  /\ mqttTimer = FALSE
  /\ pCon = "null"
  /\ unsent = <<>>
  /\ user = "idle"
  /\ arrived = <<>>
  /\ ticks = 0

-----------------------------------------------------------------------------
(* push.c's side *)

\* The stack may refuse to connect; the result is ignored, and no callback comes.
espconn_connect == pCon' \in {"connecting", "unasked"}

\* mqttPush: MQTT_InitConnection clears everything, MQTT_InitClient starts the
\* task, MQTT_Connect opens the connection.  A retry comes seconds after
\* mqttErrorCb: MQTT_Task has run by then.
mqttPush ==
  /\ user \in {"idle", "failed"}
  /\ ~posted
  /\ user' = "waiting"
  /\ connState' = "TCP_CONNECTING"
  /\ pending' = "none"
  /\ sendTimeout' = 0 /\ keepAliveTick' = 0 /\ reconnectTick' = 0
  /\ msgQueue' = <<>>
  /\ posted' = TRUE
  /\ mqttTimer' = TRUE
  /\ unsent' = <<>>
  /\ arrived' = <<>>
  /\ \E host \in Hosts :
       \/ host = "ip" /\ espconn_connect
       \/ host = "lookup" /\ pCon' = "lookup"
       \/ host = "cached" /\ pCon' = "unasked"   \* the name is known: no callback comes
  /\ UNCHANGED ticks

\* MQTT_Disconnect and MQTT_DeleteClient, called one after the other.
DeleteClient ==
  /\ connState' = "MQTT_DELETED"
  /\ posted' = TRUE
  /\ mqttTimer' = FALSE

-----------------------------------------------------------------------------
(* Callbacks of the TCP stack and the name service *)

\* mqtt_dns_found with an address: go on and connect, unless it is 0.0.0.0, and
\* post.  (client->ip is set by a lookup that needs no callback only.)
DnsFound ==
  /\ pCon = "lookup"
  /\ \/ espconn_connect /\ connState' = "TCP_CONNECTING"
     \/ pCon' = "unasked" /\ UNCHANGED connState
  /\ posted' = TRUE
  /\ UNCHANGED <<pending, counters, msgQueue, mqttTimer, unsent, user, arrived, ticks>>

DnsFailed_KeepsState ==
  /\ pCon = "lookup"
  /\ pCon' = "idle"
  /\ UNCHANGED <<connState, pending, counters, msgQueue, posted, mqttTimer, unsent, user,
                 arrived, ticks>>

\* mqtt_dns_found without one: nothing is posted.
DnsFailed ==
  /\ pCon = "lookup"
  /\ pCon' = "idle"
  /\ connState' = "TCP_RECONNECT_REQ"
  /\ UNCHANGED <<pending, counters, msgQueue, posted, mqttTimer, unsent, user, arrived, ticks>>

mqtt_tcpclient_connect_cb ==
  /\ pCon = "connecting"
  /\ pCon' = "up"
  /\ pending' = "CONNECT"
  /\ sendTimeout' = SendTimeout
  /\ unsent' = Append(unsent, 0)
  /\ connState' = "MQTT_CONNECT_SENDING"
  /\ posted' = TRUE
  /\ UNCHANGED <<keepAliveTick, reconnectTick, msgQueue, mqttTimer, user, arrived, ticks>>

recon_cb_KeepsState ==
  /\ pCon \in {"connecting", "up", "closing"}
  /\ pCon' = "idle"
  /\ unsent' = <<>>
  /\ posted' = TRUE
  /\ UNCHANGED <<connState, pending, counters, msgQueue, mqttTimer, user, arrived, ticks>>

\* The connection is reset, refused or times out.
mqtt_tcpclient_recon_cb ==
  /\ pCon \in {"connecting", "up", "closing"}
  /\ pCon' = "idle"
  /\ unsent' = <<>>
  /\ connState' = "TCP_RECONNECT_REQ"
  /\ posted' = TRUE
  /\ UNCHANGED <<pending, counters, msgQueue, mqttTimer, user, arrived, ticks>>

\* Either side closed the connection.
mqtt_tcpclient_discon_cb ==
  /\ pCon \in {"up", "closing"}
  /\ pCon' = "idle"
  /\ unsent' = <<>>
  /\ connState' = "TCP_RECONNECT_REQ"
  /\ posted' = TRUE
  /\ UNCHANGED <<pending, counters, msgQueue, mqttTimer, user, arrived, ticks>>

\* CONNACK while it is awaited: mqttPushCb queues the values, or the broker's
\* refusal closes the connection.  The segment that brings it also acknowledges
\* CONNECT, and TCP reports that first.
RecvConnack ==
  /\ connState = "MQTT_CONNECT_SENDING"
  /\ pCon = "up"
  /\ unsent = <<>>
  /\ \/ /\ connState' = "MQTT_DATA"
        /\ msgQueue' = msgQueue \o AllValues
        /\ UNCHANGED pCon
     \/ /\ pCon' = "closing"
        /\ UNCHANGED <<connState, msgQueue>>
  /\ posted' = TRUE
  /\ UNCHANGED <<pending, counters, mqttTimer, unsent, user, arrived, ticks>>

\* Any other packet; some are answered, if the queue has room.
RecvOther ==
  /\ kind = "long"
  /\ pCon = "up"
  /\ posted' = TRUE
  /\ \/ /\ connState \in {"MQTT_DATA", "MQTT_KEEPALIVE_SEND"}
        /\ Len(msgQueue) < Values
        /\ msgQueue' = Append(msgQueue, 0)
     \/ UNCHANGED msgQueue
  /\ UNCHANGED <<connState, pending, counters, mqttTimer, pCon, unsent, user, arrived, ticks>>

sent_cb_QueueNotEmpty ==
  /\ unsent # <<>>
  /\ unsent' = Tail(unsent)
  /\ arrived' = IF Head(unsent) = 0 THEN arrived ELSE Append(arrived, Head(unsent))
  /\ sendTimeout' = 0 /\ keepAliveTick' = 0
  /\ \/ /\ connState \in {"MQTT_DATA", "MQTT_KEEPALIVE_SEND"}
        /\ pending = "PUBLISH"
        /\ DeleteClient
        /\ user' = "published"
     \/ /\ connState \notin {"MQTT_DATA", "MQTT_KEEPALIVE_SEND"} \/ pending # "PUBLISH"
        /\ posted' = TRUE
        /\ UNCHANGED <<connState, mqttTimer, user>>
  /\ UNCHANGED <<pending, reconnectTick, msgQueue, pCon, ticks>>

\* The oldest packet was acknowledged.  If the packet sent last is a PUBLISH,
\* publishedCb runs: mqttPublishCb deletes the client once the queue is empty.
mqtt_tcpclient_sent_cb ==
  /\ unsent # <<>>
  /\ unsent' = Tail(unsent)
  /\ arrived' = IF Head(unsent) = 0 THEN arrived ELSE Append(arrived, Head(unsent))
  /\ sendTimeout' = 0 /\ keepAliveTick' = 0
  /\ \/ /\ connState \in {"MQTT_DATA", "MQTT_KEEPALIVE_SEND"}
        /\ pending = "PUBLISH"
        /\ msgQueue = <<>>
        /\ DeleteClient
        /\ user' = "published"
     \/ /\ \/ connState \notin {"MQTT_DATA", "MQTT_KEEPALIVE_SEND"}
           \/ pending # "PUBLISH"
           \/ msgQueue # <<>>
        /\ posted' = TRUE
        /\ UNCHANGED <<connState, mqttTimer, user>>
  /\ UNCHANGED <<pending, reconnectTick, msgQueue, pCon, ticks>>

-----------------------------------------------------------------------------
(* The timer: mqtt_timer, once a second *)

KeepAlive == IF kind = "long" THEN ShortKeepAlive ELSE KeepAliveTicks

TickKeepAlive ==
  /\ connState = "MQTT_DATA"
  /\ keepAliveTick' = keepAliveTick + 1
  /\ IF keepAliveTick' > KeepAlive
       THEN connState' = "MQTT_KEEPALIVE_SEND" /\ posted' = TRUE
       ELSE UNCHANGED <<connState, posted>>
  /\ UNCHANGED <<reconnectTick, mqttTimer, user>>

TickReconnect_NoCallback ==
  /\ connState = "TCP_RECONNECT_REQ"
  /\ \/ /\ reconnectTick < ReconnectTimeout
        /\ reconnectTick' = reconnectTick + 1
        /\ UNCHANGED <<connState, posted>>
     \/ /\ reconnectTick = ReconnectTimeout
        /\ reconnectTick' = 0
        /\ connState' = "TCP_RECONNECT"
        /\ posted' = TRUE
  /\ UNCHANGED <<keepAliveTick, mqttTimer, user>>

\* Past the timeout connState becomes TCP_RECONNECT, and timeoutCb, that is
\* mqttErrorCb, at once deletes the client.
TickReconnect ==
  /\ connState = "TCP_RECONNECT_REQ"
  /\ \/ /\ reconnectTick < ReconnectTimeout
        /\ reconnectTick' = reconnectTick + 1
        /\ UNCHANGED <<connState, posted, mqttTimer, user>>
     \/ /\ reconnectTick = ReconnectTimeout
        /\ reconnectTick' = 0
        /\ DeleteClient
        /\ user' = "failed"
  /\ UNCHANGED keepAliveTick

mqtt_timer ==
  /\ mqttTimer
  /\ ticks < Life
  /\ ticks' = ticks + 1
  /\ \/ TickKeepAlive
     \/ TickReconnect
     \/ /\ connState \notin {"MQTT_DATA", "TCP_RECONNECT_REQ"}
        /\ UNCHANGED <<connState, posted, mqttTimer, user, keepAliveTick, reconnectTick>>
  /\ sendTimeout' = IF sendTimeout > 0 THEN sendTimeout - 1 ELSE 0
  /\ UNCHANGED <<pending, msgQueue, pCon, unsent, arrived>>

-----------------------------------------------------------------------------
(* MQTT_Task *)

TaskDisconnect ==
  /\ connState = "TCP_RECONNECT_DISCONNECTING"
  /\ pCon' = IF pCon = "up" THEN "closing" ELSE pCon
  /\ posted' = FALSE
  /\ UNCHANGED <<connState, pending, counters, msgQueue, mqttTimer, unsent, user, arrived>>

\* mqtt_tcpclient_delete aborts and frees the connection: no more callbacks.
mqtt_client_delete ==
  /\ pCon' = "null"
  /\ unsent' = <<>>
  /\ msgQueue' = <<>>
  /\ connState' = "WIFI_INIT"

TaskDelete ==
  /\ connState = "MQTT_DELETED"
  /\ mqtt_client_delete
  /\ posted' = FALSE
  /\ UNCHANGED <<pending, counters, mqttTimer, user, arrived>>

mqtt_send_keepalive ==
  /\ connState = "MQTT_KEEPALIVE_SEND"
  /\ pending' = "PINGREQ"
  /\ sendTimeout' = SendTimeout
  /\ \/ /\ unsent' = Append(unsent, 0)
        /\ keepAliveTick' = 0
        /\ connState' = "MQTT_DATA"
     \/ /\ connState' = "TCP_RECONNECT_DISCONNECTING"   \* espconn_send failed
        /\ UNCHANGED <<unsent, keepAliveTick>>
  /\ posted' = TRUE
  /\ UNCHANGED <<reconnectTick, msgQueue, mqttTimer, pCon, user, arrived>>

\* The result of espconn_send is ignored; while an earlier packet is not
\* acknowledged the stack may refuse another one.
TaskSend ==
  /\ connState = "MQTT_DATA"
  /\ msgQueue # <<>>
  /\ sendTimeout = 0
  /\ pending' = IF Head(msgQueue) = 0 THEN "answer" ELSE "PUBLISH"
  /\ sendTimeout' = SendTimeout
  /\ keepAliveTick' = 0
  /\ msgQueue' = Tail(msgQueue)
  /\ \/ unsent' = Append(unsent, Head(msgQueue))
     \/ unsent # <<>> /\ UNCHANGED unsent
  /\ posted' = FALSE
  /\ UNCHANGED <<connState, reconnectTick, mqttTimer, pCon, user, arrived>>

TaskNothing ==
  /\ \/ connState \in {"WIFI_INIT", "TCP_CONNECTING", "TCP_RECONNECT_REQ", "MQTT_CONNECT_SENDING"}
     \/ connState = "MQTT_DATA" /\ (msgQueue = <<>> \/ sendTimeout # 0)
  /\ posted' = FALSE
  /\ UNCHANGED <<connState, pending, counters, msgQueue, mqttTimer, pCon, unsent, user, arrived>>

MQTT_Task ==
  /\ posted
  /\ TaskDisconnect \/ TaskDelete \/ mqtt_send_keepalive \/ TaskSend \/ TaskNothing
  /\ UNCHANGED ticks

-----------------------------------------------------------------------------
Next ==
  /\ \/ mqttPush
     \/ DnsFound \/ DnsFailed
     \/ mqtt_tcpclient_connect_cb \/ mqtt_tcpclient_recon_cb \/ mqtt_tcpclient_discon_cb
     \/ RecvConnack \/ RecvOther \/ mqtt_tcpclient_sent_cb
     \/ mqtt_timer \/ MQTT_Task
  /\ UNCHANGED kind

Spec == Init /\ [][Next]_vars

(* The SDK runs posted tasks and due timers; brokers and networks promise  *)
(* nothing.                                                                *)
FairSpec == Spec /\ WF_vars(MQTT_Task /\ UNCHANGED kind) /\ WF_vars(mqtt_timer /\ UNCHANGED kind)

-----------------------------------------------------------------------------
(* Properties *)

\* Types; the counters stay within the timeouts that reset them.
TypeOK ==
  /\ connState \in {"WIFI_INIT", "TCP_CONNECTING", "TCP_RECONNECT_REQ", "MQTT_CONNECT_SENDING",
                    "MQTT_DATA", "MQTT_KEEPALIVE_SEND", "TCP_RECONNECT_DISCONNECTING",
                    "MQTT_DELETED"}
  /\ pending \in {"none", "CONNECT", "PUBLISH", "PINGREQ", "answer"}
  /\ sendTimeout \in 0 .. SendTimeout
  /\ keepAliveTick \in 0 .. KeepAlive + 1
  /\ reconnectTick \in 0 .. ReconnectTimeout
  /\ Len(msgQueue) <= Values
  /\ posted \in BOOLEAN /\ mqttTimer \in BOOLEAN
  /\ pCon \in {"null", "unasked", "lookup", "connecting", "up", "closing", "idle"}
  /\ user \in {"idle", "waiting", "published", "failed"}
  /\ ticks \in 0 .. Life

\* An attempt ends by success exactly when the last value is acknowledged, all
\* of them in order, and by failure only after a loss.
Session == INSTANCE MqttSession WITH
  session <- IF kind = "long" \/ user # "waiting" THEN "none"
             ELSE IF connState = "TCP_RECONNECT_REQ" THEN "down" ELSE "open",
  arrived <- IF kind = "long" THEN <<>> ELSE arrived

RefinesSession == Session!Spec

\* MQTT_Task never hands a connection that was freed or lost to the stack.
UsesLiveConnection ==
  connState \in {"MQTT_DATA", "MQTT_KEEPALIVE_SEND", "TCP_RECONNECT_DISCONNECTING"}
    => pCon \in {"up", "closing"}

\* After mqttErrorCb and the task's run nothing of the client is left: the next
\* mqttPush may clear the structure.
FailedIsFreed == user = "failed" /\ ~posted => pCon = "null" /\ ~mqttTimer

\* Of a client's connection, the task uses it only while it lives, and push.c
\* reuses its memory only when it is gone.
ConnectionOwned == UsesLiveConnection /\ FailedIsFreed

\* A client that push.c waits for is moved on by a callback of its connection or,
\* once that is lost, by its own timer, whatever callbacks, packets and posts came
\* before.  One case is left to push.c's timeout: a client that connects although
\* nobody asked the stack to (the name is known, is 0.0.0.0, or the stack refused).
WaitingIsServed ==
  user = "waiting" =>
    \/ connState # "TCP_RECONNECT_REQ" /\ pCon \in {"lookup", "connecting", "up", "closing"}
    \/ connState = "TCP_RECONNECT_REQ" /\ mqttTimer
    \/ connState = "TCP_CONNECTING" /\ pCon = "unasked"

\* A lost connection is reported to push.c, unless the device sleeps before the
\* timeout has passed.
FailureReported ==
  (user = "waiting" /\ connState = "TCP_RECONNECT_REQ" /\ ticks + ReconnectTimeout < Life)
    ~> user = "failed"
=============================================================================
