------------------------------ MODULE MCCodecs ------------------------------
(***************************************************************************)
(* Codecs with its inputs: lengths on both sides of every limit in the     *)
(* code, numbers at the ends of their ranges, every byte that may go       *)
(* unacknowledged.                                                         *)
(***************************************************************************)
EXTENDS Codecs

-----------------------------------------------------------------------------
(* MQTT packets: 127 is the last length in one byte, 200 the buffer here *)

Texts(lengths) == {Text(n) : n \in lengths}

Topics == Texts({0, 1, 2, 64, 121, 122, 123, 124})
Ids    == {0, 1, 254, 255, 256, 65534, 65535}

PublishInputs ==
  [topic : Topics, data : Texts({0, 1, 2, 59, 60, 61, 62, 63, 64, 131, 132, 133}),
   qos : 0 .. 2, retain : 0 .. 1, id : Ids]

PartInputs ==
  [topic : Texts({1, 2, 64, 123}), data : Texts({0, 1, 2, 62}), qos : 0 .. 1, retain : {0},
   id : {1}]

AckInputs == [topic : Topics, id : Ids \ {0}]

ConnectInputs ==
  [client_id : Texts({0, 3, 20}), clean_session : BOOLEAN, will_topic : Texts({0, 4}),
   will_message : Texts({0, 2, 90, 130}), will_qos : 0 .. 2, will_retain : BOOLEAN,
   username : Texts({0, 5}), password : Texts({0, 6}), keepalive : {120, 258}]

-----------------------------------------------------------------------------
(* The bus: no byte, one byte, or some in a row are not acknowledged; an SHT3x *)
(* is asked 25 times                                                           *)

DeviceData ==
  [sht3Init   |-> <<>>, shtInit |-> <<0, 0>>,
   sht3Read   |-> Sht3Frame(26000) \o Sht3Frame(30000),
   shtRead    |-> Sht1Frame(3, 6400) \o Sht1Frame(5, 1800),
   bmpInit    |-> <<85>> \o Text(22), bmpRead |-> Text(5),
   bmx280Init |-> <<96>> \o Text(34), bmx280Read |-> Text(6), bme280Read |-> Text(8),
   msInit     |-> AsBytes(MsProm(<<1, 2, 3, 4, 5, 6, 7>>)), msRead |-> Text(6)]

BusInputs ==
  {[driver |-> d, nacks |-> n, data |-> DeviceData[d]] :
     d \in DOMAIN DeviceData,
     n \in {{}} \cup {{k} : k \in 1 .. 16} \cup {k .. 99 : k \in 1 .. 8}
             \cup {4 .. n : n \in {27, 28}}}

RegisterInputs ==
  [device : {68, 118, 119}, register : {0, 48, 224, 255}, nacks : {{}, {1}, {2}, {3}},
   data : {<<0>>, <<255>>, <<170>>, <<1, 128>>, <<127, 254>>, <<85, 0, 255>>, <<6, 128, 1>>}]

RawWords == {0, 1, 255, 256, 8487, 16384, 26214, 32767, 32768, 48879, 65534, 65535}

ReadingInputs == [t : RawWords, h : RawWords]

DamageInputs ==
  [t : {6400, 26214}, h : {1800}, flips : {{i} : i \in 1 .. 48}]
    \cup [t : {6400}, h : {1800}, flips : {{i, i + d} : i \in 1 .. 32, d \in {1, 2, 7, 8, 15}}]

ShtInputs == [t : {256 * high : high \in 10 .. 60}, h : {1800}]

-----------------------------------------------------------------------------
(* Files and compression: text that repeats itself at several distances *)

Pattern(n, period) == [i \in 1 .. n |-> ((i % period) * 37 + (i \div 64)) % 256]

FileSets ==
  {<<[path |-> <<Dot, Slash>> \o Text(3), data |-> Pattern(a, p)],
     [path |-> <<Dot, Slash>> \o Text(4) \o <<Slash>> \o Text(2), data |-> Pattern(b, 251)],
     [path |-> Text(5), data |-> <<>>],
     [path |-> <<Slash>> \o Text(8), data |-> Pattern(c, 3)]>> :
     a \in {1, 2, 61}, b \in {4, 7}, c \in {40, 130}, p \in {1, 5}}

FileInputs ==
  [files : FileSets, compression : {COMPRESS_NONE, COMPRESS_HEATSHRINK}, level : {1, -1},
   len : {1, 16, 40, 200}]

\* Either the encoder's pieces vary or the decoder's do; the smallest are for the
\* shorter texts.
PieceInputs ==
  {x \in [data : {<<>>, <<0>>, Pattern(7, 1), Pattern(40, 5), Pattern(90, 17), Pattern(150, 40)},
          w : {4, 5, 9}, l : {3, 4}, in : {1, 2, 13, 64}, out : {1, 5, 64}, in2 : {1, 3, 8, 64},
          ibs : {1, 2, 16}, out2 : {1, 3, 64}] :
     /\ x.l < x.w
     /\ (x.in = 64 /\ x.out = 64) \/ (x.in2 = 8 /\ x.ibs = 16 /\ x.out2 = 64)
     /\ Len(x.data) > 40 => x.in > 8 /\ x.in2 > 3}

-----------------------------------------------------------------------------
(* Texts *)

FieldValues == {<<>>, Text(1), <<Percent, Amp, Equals, Plus, Space>>, <<195, 164, 255>>, Text(30)}

FormInputs ==
  {[fields |-> <<[name |-> Text(2), value |-> a], [name |-> Text(1), value |-> b],
                 [name |-> Text(3), value |-> c]>>,
    missing |-> m, room |-> r] :
     a \in FieldValues, b \in FieldValues, c \in {<<>>, Text(1), Text(30)}, m \in {<<99>>, Text(4)}, r \in {8, 30, 64}}

Logins == {<<>>, Text(1), Text(2), Text(31), <<Space, 200, Percent>>}
Secrets == Logins \cup {HIDE_PASS_STRING, <<Colon, Colon>>}

LoginInputs ==
  {[user |-> u, pass |-> p, old |-> o, login |-> <<v, q>>] :
     u \in Logins, p \in Secrets, o \in {Text(1)}, v \in Logins, q \in Secrets}
    \cup {[user |-> Text(2), pass |-> HIDE_PASS_STRING, old |-> <<>>, login |-> <<Text(2), q>>] :
             q \in Secrets}

ChunkInputs ==
  [sizes : {<<>>} \cup {<<a>> : a \in {1, 9, 10, 15, 16, 31, 255}}
             \cup {<<a, b>> : a \in {1, 10, 17}, b \in {3, 160}} \cup {<<5, 16, 1, 200>>},
   lower : BOOLEAN, extension : {<<>>, <<59, 120, Equals, 49>>, <<Space>>}]

UrlInputs ==
  [secure : BOOLEAN, ssl : BOOLEAN, host : {<<"example.com">>, <<"192.168.0.1">>},
   port : {0, 80, 8080, 443},
   path : {<<>>, <<"/">>, <<"/", "a">>, <<"/", "a", ":", "80">>, <<"/", ":", "/", "a">>,
           <<"/", "a", "/", "b", ":", "/">>}]

HostInputs ==
  [numbers : UNION {[1 .. n -> {0, 9, 10, 255, 256}] : n \in 1 .. 5}, behind : {<<>>, Text(1)}]

Item(p, t) == [placeholder |-> p, text |-> t]

Items == {Item(p, <<>>) : p \in 1 .. 5}
           \cup {Item(0, t) : t \in {<<Percent>>, <<Percent, 50, 48>>, Text(1), Text(119)}}

TemplateInputs ==
  {[items |-> <<a, b, c, d>>,
    values |-> <<<<50, 49>>, v, <<>>, <<51>>, <<Minus, 54>>>>] :
     a \in Items, b \in Items, c \in Items, d \in {Item(4, <<>>), Item(0, <<120>>)},
     v \in {<<>>, <<Minus, 49, 48, 48, 46, 48, 48>>}}

NumberInputs ==
  [value : {-100, -31, -1, 0}, dec_pow : {0}]
    \cup [value : {-400, -11, -10, -9, -1, 0, 5, 9, 10, 999, 1000}, dec_pow : {1}]
    \cup [value : {-4500, -101, -100, -99, -10, -1, 0, 7, 99, 100, 13000, 101325, 200000}, dec_pow : {2}]
    \cup [value : {0, 9, 10, 999, 1000, 3050, 4200}, dec_pow : {3}]

-----------------------------------------------------------------------------

AllInputs ==
  [publish |-> PublishInputs, part |-> PartInputs, ack |-> AckInputs, connect |-> ConnectInputs,
   bus |-> BusInputs, register |-> RegisterInputs, reading |-> ReadingInputs,
   damage |-> DamageInputs, files |-> FileInputs, pieces |-> PieceInputs, form |-> FormInputs,
   login |-> LoginInputs, chunks |-> ChunkInputs, url |-> UrlInputs,
   host |-> HostInputs,
   template |-> TemplateInputs, number |-> NumberInputs]

OnlySht == [sht |-> ShtInputs]
=============================================================================
