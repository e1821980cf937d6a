# espweather in TLA+

A verification project for the firmware of the espweather sensor (`src/firmware`): TLA+ modules
that follow its C code, TLC runs over small instances of them, and theorems checked by TLAPS.

espweather is a battery-powered ESP8266 board. It wakes up, reads its sensors, joins the WiFi,
sends the values to an HTTP server and an MQTT broker, and goes back to deep sleep, which ends
in a reset. A button switches to a configuration mode with a web server. All code runs in
callbacks of the vendor's SDK: timers, TCP and name-service callbacks, a task with an event
queue, an interrupt-free main loop that runs one of them at a time. There are no threads, but
nearly every function leaves its result to a callback that comes later, in an order nobody
chooses, and possibly after the state it was meant for has gone.

## Inventory

| component | source | state | operations | what makes it correct |
|---|---|---|---|---|
| push cycle | `user/push.c` | `pushState`, `pushErrorDelay`, `pushRetries`, `pushRedirect`, one-shot `pushTimer` (500 ms), `pushTimeoutTimer` (45 s), `mqttClient` | `pushSensorData`, `pushTimerCb`, `httpPushCb`, `mqttPushCb`, `mqttPublishCb`, `mqttErrorCb`, `pushTimeoutCb` | every wait has something to wait for; retries are bounded and fit into the timeout; every server gets its chance; the device always sleeps, for the right time |
| configuration and modes | `user/config.c`, `user/user_main.c` | parameter sector in flash, `myConfig`, SDK's WiFi mode and credentials, RTC magic, button counter, restart timer | `user_init`, `init_done`, `configLoad/Save/Reset`, `configCheckWifiMode`, `configBtnTimerCb` | radio fits the mode, RAM and flash agree but for an interval a server sent, power may fail anywhere, no restart loop |
| settings forms | `user/cgiconfig.c`, `user/cgiwifi.c` | none of their own | load and save | what is saved is what the user saved |
| sensors | `user/sensors.c` | status per sensor, five-second read limit, DHT22's delay | `sensorsInit`, `sensorsRead`, the page of values | fallback per value, failure and pending not masked, values recent |
| sensor drivers | `user/i2c-common.c`, `sht3x.c`, `sht1x.c`, `bmx280.c`, `bmp180.c`, `ms5637.c`, `dht22.c` | two shared lines, DHT22's pulses | `Init` and `Read` of each | lines left free, neighbours undisturbed, damaged readings refused (a DHT22's come as 0) |
| MQTT session | `lib/mqtt/mqtt.c` | `connState`, `pending_msg_type`, `sendTimeout`, ticks, `pCon`, 1 s `mqttTimer`, task queue of one | `MQTT_Connect`, `MQTT_DeleteClient`, TCP callbacks, `mqtt_timer`, `MQTT_Task` | success only if everything arrived, failure always reported, client freed |
| MQTT outgoing queue | `lib/mqtt/queue.c`, `proto.c`, `ringbuf.c` | ring, global copies of its pointers, parser on the stack | `QUEUE_Puts/Gets`, `PROTO_AddRb/ParseRb`, loop of `MQTT_Publish` | first in, first out, whole messages, also when full |
| MQTT encoding | `lib/mqtt/mqtt_msg.c` | message buffer, message id | build, parse | lengths right at 127/128, what is read is what was built |
| HTTP client | `lib/httpclient/httpclient.c` | one block of memory per request | `http_post/get`, name, connect, sent, receive, disconnect callbacks | one answer per request, no gap in it, everything freed |
| web server | `lib/httpd/httpd.c`, `httpdespfs.c` | connection pool, request head and body buffers, open files | `httpdConnectCb`, `httpdRecvCb`, `httpdSentCb`, `httpdDisconCb`, `httpdReconCb`, handlers | slots neither leak nor are shared, answers in order and to their end |
| WiFi scan, live values | `user/cgiwifi.c`, `cgisensor.c`, `cgibuild.c` | last result, `scanInProgress` | scan, listing in pieces, pages | a listing shows one scan |
| authentication | `lib/httpd/auth.c`, `base64.c` | none; the login is in the configuration | `authBasic` | no URL that begins with `/admin` without the login |
| file system | `lib/espfs`, `mkespfsimage` | image, open files | pack; `espFsOpen/Read/Close` | reads what was packed |
| heatshrink | `lib/heatshrink` | encoder and decoder between calls | `sink`, `poll`, `finish` | what was compressed comes back, in pieces of any size |
| text helpers | `user/strreplace.c`, `lib/mqtt/utils.c`, parts of others | none | decode, replace, format, parse | nothing lost or changed on the way |
| battery, console, browser pages, heatshrink's tests | | | | see "Not modelled" |

Interactions: `pushTimerCb` calls `sensorsRead`, `http_get/http_post` and `MQTT_Connect`; the
outcomes of the last two come back as `httpPushCb`, `mqttPublishCb`, `mqttErrorCb`, each of which
writes `pushState` or `pushErrorDelay` whatever `pushState` is. The page of values calls
`sensorsRead` between two calls of the cycle. The forms write the configuration the cycle reads
and the login the server asks for. The button and the timeout both end the device's waking time.
`MQTT_Publish` and `MQTT_Task` are the two ends of the outgoing queue. All drivers share two
lines, and all connections of the server share one scan result.

The hard parts, one entry each in `PROJECT.json` "hazards": answers that come late, delays and
counters shared by two phases, two timers that race, power lost between two writes, callbacks
that overwrite a pending deletion, a task queue of length one, a ring that has to be rolled
back, responses that stop half way, a result replaced while it is listed, handlers run once more
for a connection that is gone, lines shared by two protocols, coders suspended in the middle of a
token, arithmetic at 32 bits.

## Modules

| module | models | abstract specification |
|---|---|---|
| `Push` | push cycle | `PushCycle`: phases in one direction, servers talked to in their phase only |
| `MCPush` | `Push` with the history of a cycle (attempts, servers settled with) | |
| `TimedPush` | `Push` with a clock and an environment of limited slowness | |
| `Sensors` | selection and fallback per value, the READ loop and the page beside it | |
| `RingBuf` | ring buffer with roll-back | `ByteFifo`: a byte queue with a mark to go back to |
| `MsgQueue` | messages over `RingBuf`: stuffing, parser, eviction; `MCMsgQueue` gives it bytes | `MsgFifo`: a message queue that drops its oldest for want of room |
| `MqttClient` | MQTT session with its user `push.c` | `MqttSession`: success when all values arrived, failure after a loss |
| `HttpClient` | HTTP client | `HttpRequests`: one answer per request |
| `Device` | boot, modes, flash, button, forms, sleep, power loss | |
| `Httpd` | web server with its handlers, files, scan and login; `MCWeb` gives it requests | `Answers` in the module: what a client may get |
| `MqttMsg`, `I2cBus`, `SensorDrivers`, `Heatshrink`, `EspFs`, `Texts` | pure algorithms | |
| `Packets` | what both ends of a connection make of the packets of `MqttMsg` | the inverse, read as a broker reads |
| `BusSharing` | what the drivers of `SensorDrivers` owe each other on the two lines | |
| `Codecs` | properties of the other algorithms, one kind of input each; `MCCodecs` gives it inputs | the inverse, or a definition of the format |
| `Conversions` | the machine under both: takes one input of one kind after the other | |
| `PushProofs`, `SensorsProofs`, `MsgQueueProofs`, `MqttProofs`, `HttpClientProofs`, `HttpdProofs`, `DeviceProofs`, `ConversionProofs` | theorems | |

How they fit: `Push` takes of the two clients only what `HttpRequests` and `MqttSession`
promise (an accepted request is answered at most once; a session ends by success or, after a
loss, by failure), and `HttpClient` and `MqttClient` are shown to implement those promises.
`TimedPush` takes from `Sensors` that READ is short (`ReadIsShort`: at most four and five calls).
`Device` takes of `Push` only that a cycle finishes or times out, which is what
`AlwaysSleepsAgain` of `Push` says. `MqttClient` uses a plain sequence as its queue, which is
what `MsgQueue` implements. `Httpd` counts the bytes of requests and files; `Texts` and `EspFs` say
what is in them. What a driver may return to `Sensors` is any of its results; `SensorDrivers` says
which readings count.

### Push

One action per callback; `pushTimerCb` is a disjunction with one disjunct per `case`. The
constants of `enum push_states` are numbers because the code adds to `pushState`: a callback in
the wrong phase moves it to the wrong next phase. `timer` and `timeout` say that a timer is
armed; time is not measured, so an armed timer may fire at any moment, which covers every
speed of servers and network (and more orders than 45 s allow). `inflight` counts HTTP requests
without an answer, `client` is the MQTT client as seen from here. `TickHttp` has three
outcomes: `httpPush` returns 1, the request is under way, or its callback ran before `http_get`
returned. `http = "badurl"` is a configured address that `http_get` rejects.
`cgiSensorConfig` may change the configuration in the middle of a cycle.
`SleepTimes` is what `interval*1000*1000` may come to as the argument of `system_deep_sleep`, in units of
64 us so that TLC's integers hold it. The product is a signed `int`: up to 2147 s it is exact. Beyond, it
overflows, which C leaves undefined, and the sleep is any of what a build can make of it: the low 32 bits,
or, where these are negative and the SDK's parameter has 64 bits, a time longer than any setting.

### TimedPush

The actions of `Push`, without the forms, with a clock that counts periods of `pushTimer`: one
period passes with every call of `pushTimerCb`, and goes on passing when a callback left the
timer unarmed. `pushTimeoutCb` runs at period 90 (`PUSH_TIMEOUT_SEC`), and `InTime` forbids the
environment to be slower than its constants: sensors 9 readings, WiFi 4.5 s, an HTTP answer 1 s, a
broker 1 s, `mqtt_timer` 5 to 6 s until it reports a loss. With these
`HttpLeavesTime` holds to the period: all failed attempts, the delays after them and the redirects
just fit, and one period more of waiting for WiFi breaks it, which is the answer to the hazard at `push.c:336` (the comment
there says 30 s, `PUSH_TIMEOUT_SEC` is 45). `BrokerTriedAgain` says all attempts but one, because a
broker that is lost each time has room for four of five: `mqtt_timer` takes longer to report a loss
than the cycle waits after it.

### Sensors

The table of known sensors is a sequence; `Useable(v)` are the rows found at boot that deliver the
value `v`, and `sensorsRead` asks a row only if no row before it delivered. A reading may succeed,
fail or (DHT22 before its delay has passed) be pending; `sensorsRead` returns the result of the
last row that did not deliver, so pending hides failed and failed hides pending. The web page
calls `sensorsRead` with `first_read` at any moment, which resets states unless the limit of five
seconds says otherwise. Time counts in calls of the cycle's timer.

### RingBuf and MsgQueue

`RingBuf` keeps the physical block, both pointers as offsets, the counter, and the three global
copies `QUEUE_Puts` takes; its own `Next` lets puts, gets and roll-backs come in any order that
`QUEUE_Puts` allows. `MsgQueue` runs the same operators byte by byte: `PROTO_AddRb` puts, a full
ring rolls back, the caller gives up or evicts with `QUEUE_Gets` and tries again. `PROTO_Init`
sets `isBegin` to either value, because the C function leaves it uninitialised.

### MqttClient

One action per TCP callback, `mqtt_timer`, and `MQTT_Task` with one disjunct per `case` that can
be reached from `push.c`. `posted` is the task's event queue of one: posting while it is set
changes nothing. `unsent` is what the TCP stack has taken and not yet reported as sent; the
`sent` callback of a packet comes before the packet that answers it. `Hosts` says how
`espconn_gethostbyname` or `MQTT_Connect` gets at an address: an IP address, a lookup, or a name
that is known already, for which the SDK returns `ESPCONN_OK` and makes no callback (what
`httpclient.c` says and handles); the run has all three. `espconn_connect` may refuse, which nobody looks at,
and a lookup may find 0.0.0.0, which `mqtt_dns_found` passes over in silence. In these three cases `pCon` is
"unasked": the client is `TCP_CONNECTING`, and no callback will ever come. `WaitingIsServed` says that these are
the only cases in which `push.c` waits for nothing but its own timeout. `Sessions` has two kinds: "push", as `push.c` uses the client,
with a broker that only answers; and "long", with a keep-alive shorter than the session and a broker that
sends packets nobody asked for, some of which are answered. `ticks` is bounded by `Life`: 18 in the
run, which is longer than the two timeouts that can follow each other (5 s to send, 5 s to
reconnect); the theorems hold for every `Life` up to the keep-alive time.

### HttpClient

`owned` names the blocks a request holds, `buffer` holds the numbers of the segments kept,
`cut` is `req->buffer[0] = '\0'`. The limit of the buffer and a failed allocation are the same
branch in the code and in the model. `phase` follows the callbacks; a server may close after any
segment or stay silent for ever.

### Device

Three stores outlive a reset: the parameter sector, what the SDK stores by itself (WiFi mode and
credentials) and RTC memory. Every handler that saves has a second outcome in which power is lost
on the way (`SaveInterrupted`): sector untouched, erased or written, and nothing of the handler
after that. A switched-off device is a state, so the battery may be changed at any time.
The sleep interval is kept beside the other settings, because `httpPushCb` writes a server's into the structure
in RAM, at any time of a cycle and without saving it; every later save writes the whole structure.

### Httpd

One action per SDK callback. A slot of the pool is the C structure: position in the head, length
and progress of the body, the handler to be called next and its private data. `Feed` is the loop of
`httpdRecvCb` over the bytes that came, in units of which a head has at most `MaxHead` and a body
buffer holds `MaxPost`: the limit of a head is met from both sides, and a form may be longer than the
buffer. A call of a handler is a function on a record `w` of everything it may change (slot,
shared results, what is written), so that one callback may run several handlers as the code does.
`out` is what a connection's client was sent, `unsent` counts sends that are not confirmed.
A disconnect callback flushes every slot whose connection is seen as closed, which may be another's
than the one it came for: `LooksClosed`. `mixed` marks listings during which another one started a
scan, which the code breaks (see below).

A slot knows its connection by the address of the `espconn` only. After a reset (`httpdReconCb`) the slot
holds on to an address whose memory is free: to a disconnect callback it may look closed or not (`seen`), and a
new connection may get the same address. Then two slots have it, and `httpdFindConnData` finds the first of them; if that is not its own, the
new client's request goes into the rest of its predecessor's, and it is sent what that slot still has to send. Such a
connection is an "heir". `PoolMatches` and `SlotsConsistent` hold with heirs, `AnswerNeverStalls` too; what an heir
is told is right for its predecessor only, and `ResponseInOrder` and the part of `AdminOnlyByLogin` about refusals
speak of connections that have a slot of their own.

The table of handlers compares the characters of a URL with `/admin*`, while `espFsOpen` strips the slashes a
name begins with (`FileName`). A file of the image that is stored as `admin/...` is therefore also the file of
URLs that do not begin with `/admin`, for which the table asks for no login; the handlers below `/admin` are not, since
they are found by the URL. `AdminOnlyByLogin` speaks of URLs that begin with `/admin`.

Of the SDK is assumed that every send is confirmed by one callback, of clients that none sends more than
the slot that serves it awaits.

### The pure algorithms

- `MqttMsg` (properties in `Packets`): each `mqtt_msg_*` builds a sequence of bytes, each `mqtt_get_*` reads one. Lengths,
  flags, the shift of the fixed header at 128 bytes and the id's 16 bits are those of the code.
- `I2cBus`: each write of a level to clock or data (`C0`, `C1`, `D0`, `D1`), and each level a device puts on
  data (`S0`, `S1`), is a step of the two lines. `Moved` says what the devices make of it: an I2C device hears
  starts, stops and bytes (`i2c`), an SHT1x its own start (`sht`). A call on the bus takes a session, the lines and what
  is known of the device, to the session after it. Devices answer with the bytes given, or do not acknowledge the bytes given.
- `SensorDrivers`: every `Init` and `Read` on that bus, their early returns included, the checksums
  bit by bit (`shtCRC` through the table as it is typed in), and whether a reading counts.
- `Heatshrink`: both machines state by state, `poll` as iteration until the input or the room is used
  up. The index that makes the encoder's search fast is left out; which match it finds is not.
- `EspFs`: packing and reading with the decoder in between, in pieces of any length.
- `Texts`: forms, logins and base64, URL parsing, chunked bodies, addresses, placeholders, numbers. A text
  that `httpdUrlDecode` wrote ends at its zero, if it has one (`TextIn`).

`Conversions` chooses a kind of input at first and then takes its inputs one by one; the invariants of `Packets`, `BusSharing` and `Codecs` compare what the code's operators make of
it with an independent definition (the inverse, a checksum by polynomial division, a
grammar). They hold of one state each: TLC enumerates the inputs, no behaviour is involved. Of the ways to cut
compressed data into pieces, either the encoder's vary or the decoder's do.

## Runs

`TLC` checks every run in less than five minutes. Sizes are distinct states.

| run | bounds | question |
|---|---|---|
| `push_alone` (9,082) | one server at a time, interval 2147 s, forms at any time, limits of `push.h` | `MqttWaitCovered`, `ClientNotClobbered`, attempts bounded and no server forgotten (`ServersTried`), retries without the timeout's help, exact sleep, sleeping again and again |
| `timed_push` (687,979) | both servers in any combination, rejected address, 90 periods | `HttpWaitCovered`, refinement of `PushCycle`, what fits before the timeout |
| `sensors` (64,504) | all six sensors, found or not, every result; real limits | READ long and short enough, complete values, recent values |
| `message_queue` (44,049) | ring of 7 bytes; four messages over plain, stuffed and stuffing-result bytes, one too large | ring used as `RingBuf` specifies and implementing `ByteFifo`; whole messages, eviction, termination |
| `mqtt_push` (488,331) | 5 values, real timeouts, 18 s; both kinds of session, all ways to the broker | connection owned, waits served, refinement of `MqttSession`, failure reported |
| `device` (26,225) | 2 settings, 2 intervals of the user and one of a server, all WiFi modes, real button counts | radio, flash, credentials, no boot loop |
| `http_client` (9,936) | 2 parallel requests, 4 segments, room for 3 | one answer, no hole, nothing left |
| `web` (810,140) | 3 connections, 2 slots, 11 kinds of request, 2 logins, addresses used again | pool, cleaning up, order and end of answers, login |
| `codecs` (21,745) | lengths on both sides of every limit | the pure algorithms |
| `push_default`, `push_long_sleep`, `sht1x_crc` | | see below |

A property of a run may be the conjunction of several definitions (`ConnectionOwned` of
`MqttClient`, `TextsReadBack` of `Codecs`); each part has its own comment where it is defined.

The bounds are enough because they are the program's own wherever the code has a number
(`push.h`, `MQTT_SEND_TIMOUT`, `MQTT_RECONNECT_TIMEOUT`, `limitTimer`, button counts), and otherwise
let each limit be met from both sides: a ring smaller than its longest message, a response longer
than its buffer, a keep-alive shorter than the session, more connections than slots, a form longer
than its buffer, a file that ends at the end of a piece. In `web`, two slots and three connections
are the least in which a slot is reused while another is in use and a connection finds none.
One value of `X-Interval-Override` in range is enough for properties that do not depend on it;
intervals matter in `push_alone` (2147 s is the longest whose microseconds fit a signed `int`) and
`push_long_sleep` (7200 s does not fit).

Deadlock is checked except where the system may really stop: a device whose client waits for a
silent broker at the end of `Life`, requests that are all answered, connections whose server never
closes them.

### Disagreements found

Three runs expect a violation; each has one property that a comment or the Readme states:

- `push_default` ("Should not happen"): the last HTTP attempt is not waited for (`push.c:121`), and
  its callback advances `pushState` wherever the cycle is. An answer during `PUSH_FINISH` leads to
  the default case, and only the timeout puts the device to sleep.
- `push_long_sleep` ("min 30s / max 6h"): the microseconds of an accepted interval above 2147 s overflow
  a signed `int`; two hours become 48 minutes, or a time nobody waits for.
- `sht1x_crc` ("CRC Lookup table"): entry 114 is 54 and should be 154; it is the only wrong one. A
  good reading whose checksum passes through it is refused.

Weaknesses met while modelling that are not kept as runs (most contradict no statement of the
repository; where one does, it is quoted, and the properties state what the code does). In the push cycle and its clients:

- With both servers on, `MqttWaitCovered`, `ClientNotClobbered` and `ServersTried` fail: the late HTTP
  callback moves the MQTT phase on, where no client exists, or leaves it a `pushErrorDelay` that
  sends it back to `PUSH_MQTT` over a live client. This is why `MCPush` has one server at a time, and
  why the theorems about the MQTT phase assume that no HTTP request is made.
- A disconnect between `MQTT_DeleteClient` and the task overwrites `MQTT_DELETED` (`mqtt.c:509`); the
  client stays allocated until the device sleeps. No property forbids it.
- The timeout may put the device to sleep within the second before a mode switch restarts it
  (`config.c:176`); the new mode is in flash and takes effect at the next boot.
- `MQTT_Connect` ignores that `espconn_gethostbyname` may know the name already, as it does after the first
  successful lookup (`mqtt.c:938`; `httpclient.c:424` handles it): the cycle waits for its timeout. `Push` shows this
  as a client that never calls back. `TimedPush` assumes of a broker that it answers or is lost in time, so
  `BrokerTriedAgain` is about brokers that are known by their IP address or looked up anew.
- In "long" sessions the broker's own packets wake the task before the acknowledgement, and the result
  of `espconn_send` is ignored: packets are lost. `push.c` has no such session.
- A server's interval, "temporary" at `push.c:224`, is part of the structure in RAM, so that the next
  save, which may be `cgiUserConfig`'s of a new login, writes it to flash, where it replaces the user's.
  `ConfigStored` lets `Overrides` be found in the sector for this reason.
- On a device whose WiFi mode is wrong at first (as flashed), the restart that corrects it uses up
  the first start, so the minute of waiting does not come.
- A response that broke off after its first segment is used (`httpclient.c:316`, a FIXME there).
- `mqtt_get_id` does not read the id of UNSUBSCRIBE, nor of a SUBSCRIBE with two length bytes.

In the web server:

- A file whose length is a multiple of 1024 is never closed by the server; a method other than GET
  and POST, and a head longer than its buffer, are never answered (`Closes` names these).
- A second listing that ends during a listing leaves a broken one; `cgiWiFiScan` on an aborted
  connection writes through a send buffer that is no more (`AbortIsSeen` allows this handler only); if
  `wifi_station_scan` fails, `scanInProgress` stays 1.
- A form longer than `MAX_POST` runs once per piece. A number that is missing is `atoi` of an
  uninitialised buffer, since `httpdFindArg` returns -1 and the test is for 0 (`cgiconfig.c:70`); the
  same happens to `admin_pass` and `action`.
- `httpdUrlDecode` "also zero-terminates the ret buffer" (`httpd.c:112`, and likewise for `httpdFindArg` at line
  139), but not when the value fills it. `FormsReadBack` asks for the zero only where there is room left for it.
- A connection at the address of one that was reset is served by the old slot (`httpd.c:526` to 529 say that not
  every such case is caught); files stored as `admin/...` have URLs for which no login is asked. Both are
  described with `Httpd` above.

In the drivers and texts:

- DHT22 returns OK with zeros after a checksum mismatch, and reads negative temperatures as two's
  complement. `i2cRead*` return 0 without an error, so BMx280, BMP180 and MS5637 report OK for a sensor
  that does not answer, and a MS5637 PROM of zeros passes its checksum. `shtConvertTemperature` casts a
  negative float to `uint16_t`. BMx280 and BMP180 share an address. A SHT1x conversion that ends late
  may pull data low during another driver's transfer.
- `UTILS_StrToIP` takes "1.2.3.x" and "10.0.0.1.example.com" for addresses. A password of 32
  characters is not terminated (the page limits it to 31).
- `mkespfsimage` strips the dot of a hidden file, and leaves empty files out.

## Fairness

- `Push`: weak fairness of `pushTimerCb` (`TimerFairness`). An armed SDK timer fires. Nothing is assumed of
  servers, sensors, WiFi or users. The timeout and waking up are assumed by `AlwaysSleepsAgain`
  alone, so that the retry properties show what the cycle achieves by itself.
- `MqttClient!FairSpec`: weak fairness of the task and the one-second timer, none of the network.
- `MsgQueue!FairSpec`: a function that was called runs to its return.
- `Device!FairSpec`: the SDK boots, calls `init_done`, fires the restart timer, the timeout and
  the wake-up. Nobody has to press the button or to change the battery.
- `Httpd` has none: `AnswerNeverStalls` is an invariant (a callback is due), because clients need not
  acknowledge anything.

## Proofs

For every value of the constants that satisfies the named assumptions (all evaluated by TLC in the
runs; the assumptions on two timeouts, `DelayAssumption` and `KeepAliveAssumption`, are what the
numbers in the code satisfy: DHT22's two seconds are less than five readings, the device sleeps
before a keep-alive is due):

- `PushProofs`. The invariant is `IInv == CountersOK /\ RestOK /\ ControlOK`. `HttpWaitCovered` is
  not inductive: one has to know that no request is under way and no delay is counting before
  `PUSH_HTTPWAIT` (`timer /\ pushState <= HTTP => inflight = 0 /\ pushErrorDelay = 0`), and that
  `pushState` stays within two steps of `PUSH_FINISH` because every step beyond takes one of at
  most two strays (an answer, a client) away. From it: `TypeCorrect`, `HttpNeverHangs`, and
  `SleepIsExact` for intervals of at most 2147 s, whose microseconds fit the signed `int` (a bound like this
  is needed, as the finding about 7200 s shows). `MqttNeverHangs` and `ClientIsFresh` need a second invariant, `MInv`, and the
  assumption that no HTTP request can be made, without which they are false (see above).
  `CycleImplemented` is the refinement of `PushCycle`, step by step. `EveryServerTried` is about `HSpec`,
  the cycle with its history; its invariant `TriesOK` says, phase by phase, how the attempts made relate
  to the retry counter, to requests under way and to clients, with one server at work.
  `TimeoutIsLongEnough` is about `TSpec`, the cycle in time. Its invariant `TimeInv` says for every state what the periods
  so far and those still needed add up to at most (`HttpTime`; `BrokerTime` where no HTTP server is in use): what is left of
  waiting for sensors, WiFi, an answer or a broker, of redirects and of the delay, and a full
  attempt for each that may follow. At the start that is `HttpBudget` and `BrokerBudget`, and the theorem's hypotheses are that
  the timeout is not shorter than either. With the numbers of `push.h` and `TimedPush.cfg` they are 90 and
  86 periods, and the timeout is 90.
- `SensorsProofs`. `ReadTimely` bounds `reading`, a history of how long READ has lasted. Inductively
  it needs that all readings but as many as DHT22's delay lasts are counted as failures
  (`CountedOrPending`), that the delay passes with the readings (`DelayPasses`), and that DHT22
  neither fails nor answers before it has (`DhtAnswersLate`); `OnlyDhtIsPending` and `OkReadsAll` are lemmas about the loop of `sensorsRead`,
  by the order of the table. `ValuesAreRecent` rests on `AgesOK`: within the five seconds between two
  readings no value is older than the last first reading, and in READ the cycle's values are as old
  as its readings. `OkIsComplete` is the action property: a cycle that goes on has each
  value from the first row that delivers it, or five failures behind it.
- `MsgQueueProofs`, the ring. `RingInv` adds to `PointersAgree` that the copies `QUEUE_Puts` took
  describe a prefix of the ring (`CopiesAgree`): a get while a put is under way would break it,
  and the code has none. `RingIsFifo` proves `PutAppends`, `GetTakesFirst` and `RollBackCuts` about
  the ring's content, by index arithmetic modulo `Size`, and from them the refinement of
  `ByteFifo`, for every size and every set of bytes.
- `MsgQueueProofs`, the queue over it. `ReadsTo(s, c, t)` says that the bytes `c` take a parser from what it
  knows in `s` to what it knows in `t` (messages ended, data so far, escaped, in a frame), by a trace with one
  entry per byte, all of them legal at their place. `FrameReads` proves that a frame reads as its message and
  that only its last byte ends it; `ReadIs`, that the abstraction, which reads the whole ring,
  finds what such a trace ends with. The invariant is `QueueInv == RingInv /\ ControlOK /\ Stored(Pending)`.
  `Stored(q)` says by control state how the bytes stand for the messages `q`: `AtRest`, the ring reads from nothing to `q`;
  `Adding`, it reads to a state from which the bytes still to be put complete one more frame, and up
  to the saved counter it is at rest, so that rolling back loses nothing else; `Parsing`, the parser stands where reading goes on,
  whatever `isBegin` held at first, because the first byte of every frame sets it. From it `QueueUsesRing`
  (and so `QueueRingIsFifo`), `QueueAlwaysConsistent`, `EvictsOnlyFull` and `QueueImplemented`, the refinement of `MsgFifo`. All hold
  for every ring, every size of the buffers and all sets of messages that `MessagesAssumption` admits: arrays of `uint8_t`, none
  longer than the buffer `QUEUE_Gets` fills.
- `MqttProofs`. `IInv` says what `connState` implies about the connection (`Connection`), which callback or
  post is due (`Due`), what the user knows (`User`), and, in sessions as `push.c` has them, where
  each value is (`Quiet`): arrived, unsent, in the task's hands or queued, in this order, with nothing between.
  From it `ConnectionAlwaysOwned`, `WaitsAreServed` (whichever way the broker is found), and the refinement of
  `MqttSession` for any number of values.
- `HttpClientProofs`. A buffer that begins with the first segment and was not cut holds all that came
  (`WholeIsInOrder`), and each phase of a request says what it owns (`Phases`). From these no hole,
  nothing left, and the refinement of `HttpRequests`.
- `HttpdProofs`. The invariant is `HttpInv`: `PoolInv` (pool and connections agree, the work being in
  the disconnect callback, which flushes slots of other connections, and in the connect callback, after which two slots may
  have one address), `StateOK`, `SlotsOK` and
  `ConnTypes` (types), `AllServed` (`ServesOK` relates each slot to how many units of its client's request
  have come, by case of the part of the request they end in, and says that a handler left in the slot fits the
  request), and `FilesAccounted` if `FilesFit`. From it `NeverStalls` and `AdminAlwaysByLogin` without
  further hypotheses. `SlotsAlwaysConsistent` has the hypothesis `FilesFit`, no request for a file has a body longer than the
  buffer: such a request is processed once for every buffer and would open its file each time anew. Browsers send no body with a `GET`. `ResponsesInOrder` needs a second
  invariant, `OrderInv`: what each client was told is what its slot stands for (`AllTold`: a page for
  every buffer of a form, a head and the pieces before the position of a file, the entries before the
  position of a listing). Its hypothesis is `LongBodiesAreForms`, only forms are longer than the buffer,
  because any other handler would answer a longer request once for every buffer. It implies `FilesFit`.
  The loops over the units of a segment (`Feed`) and over the slots to be flushed are recursive
  functions; their lemmas are inductions over the set of arguments for which they hold
  (`BoundedInduction`; the library's induction theorems have an operator as parameter, which the provers
  cannot instantiate, so induction is said of sets here and in `MsgQueueProofs`). `RequestsAssumption` says that requests name URLs the
  model knows, one of every kind the table and the file system tell apart, and `FilesAssumption` that no file has the
  name of another handler. `AdminAlwaysByLogin` does not say that the files stored as `admin/...` have URLs
  beginning with `/admin` only.
- `DeviceProofs`. `RadioMatchesMode` and `ConfigStored` together are inductive with the SDK's mode being
  one of those it may have; one lemma per group of actions. Of the interval, RAM and flash may differ by what a server
  sent in this boot.
- `ConversionProofs`, the packets. `PacketsAgree` states `PacketsReadBack` for every size of the buffer that two length
  bytes can say (`BufferAssumption`: `fini_message` writes no third one; the firmware's buffer has 1024
  bytes), all texts, ids of 16 bits and all flags. `Builds(k, id, whole)` says of a message under construction that it is `whole`, or has
  failed because `whole` does not fit; every `append_*` keeps it. `Holds(b, pos, s)` says where in
  a packet a text is, and stays true of whatever is appended or put in front. `HeadedReads` reads the
  two header lengths back (the recursive function of `mqtt_get_total_length` has two or three values then). For
  a packet that arrives in pieces the same places are used, but only those before its end (`HoldsArrived`), so
  that one description, `PublishAt`, serves the whole packet and its beginnings. `ConnectReadsBack` follows the
  packet string by string to its last byte, as a broker reads it, whichever strings are left out.
- `ConversionProofs`, the bus. `BusAgrees` states `BusShared` for every device address, register and data, and whichever
  bytes are refused (`BusInputs`: bytes are bytes, a register is one to three of them; the device has seven
  address bits). The state of the lines is written out at the places
  where the code can be between two bits (`Line`) or two bytes (`Between`, `Idle`). `ByteWritten` and `ByteSent` follow a byte bit by bit: the devices hear the byte
  and nothing else, whatever it is. Then every call is one equation between sessions (`SendStart`, `WriteByte`,
  `ReadByte`, `SendStop`), and three predicates carry through the drivers' early returns. `Calm`: the bus is free, no SHT1x has heard its start, and what was heard are whole bytes
  (`DriversShareBus` for the I2C drivers; a loop over registers and the 25 attempts of the SHT3x are inductions,
  `ReadRegistersCalm`, `Sht3Waited`). `Deaf`: no transaction is open and the I2C devices have heard
  nothing but starts and stops. The SHT1x drivers change data at a high clock in `shtStart` only, where the start
  they make is followed by a stop before a bit has gone by. `Stands`: what exactly was heard so far, how many bytes were sent and what the device still has to send, from which
  `RegisterTransfer` follows for values of one, two and three bytes.

Only model-checked: everything under fairness (`AlwaysSleepsAgain`, `HttpRetryHappens`,
`MqttRetryHappens`, `FailureReported`, `PublishReturns`, `NoBootLoop`), since liveness and ENABLED
are out of the prover's reach; and the other pure algorithms (`ReadingsTrusted`, `FilesComeBack`,
`FormsReadBack`, `TextsReadBack`), which are inductions over data by nature and of which some need `Bitwise`.

## Not modelled

The SDK, the TCP stack, the name service, flash and hardware, except for what the code sees of
them. TLS (the same calls under other names). JSON of the pages, headers, content types, LED patterns
and log output. The compensation formulas of the sensors and the battery's (floating point and data
sheet arithmetic with no control flow). `MQTT_Subscribe`, `MQTT_UnSubscribe` and `deliver_publish`:
`push.c` subscribes to nothing and registers no data callback. `TCP_RECONNECT` of `MQTT_Task` is
pre-empted by `push.c`'s timeout callback, which deletes the client first. `PROTO_Parse`, `PROTO_Add`,
`cgiRedirectToHostname`, `cgiRedirectApClientToHostname` and `cgiEspFsTemplate` are not called.
Arguments and search index of the heatshrink tool, gzip in `mkespfsimage` (off), the browser's
scripts, heatshrink's tests and the board layouts are left out for good.

## Plan

Done, in the order of what the device is for: `Push`, `RingBuf`, `MsgQueue`, `MqttClient`,
`HttpClient`, `Device`; then `Httpd`, `Sensors`, the pure algorithms, `TimedPush`, and the proofs of
every state machine, of the MQTT packets and of the sensors' bus.

What is left is what the prover does not reach: liveness, and what the other recursive
algorithms compute for every input.
