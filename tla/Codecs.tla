------------------------------- MODULE Codecs -------------------------------
(***************************************************************************)
(* The firmware's conversions and drivers, each against what it has to     *)
(* undo, or against a definition of what the two ends of a wire agree on.  *)
(*                                                                         *)
(* input is nothing, or one input of the kind chosen at first; every      *)
(* property speaks of one kind.  A text or a packet is the sequence of its *)
(* bytes.                                                                  *)
(***************************************************************************)
EXTENDS Packets, BusSharing, EspFs, Texts, Bitwise

\* A text of n characters.
Text(n) == [i \in 1 .. n |-> 97 + (i % 7)]

Concat(parts) ==
  LET all[k \in 0 .. Len(parts)] == IF k = 0 THEN <<>> ELSE all[k - 1] \o parts[k]
  IN all[Len(parts)]

-----------------------------------------------------------------------------
(* Readings *)

\* What the sensors compute: the remainder of a division of polynomials, a byte or
\* half a byte at a time, from a start value.
Divided(width, poly) ==
  [v \in 0 .. 2 ^ width - 1 |->
     LET r[k \in 0 .. width] ==
           IF k = 0 THEN v
           ELSE IF r[k - 1] >= 2 ^ (width - 1) THEN ((2 * r[k - 1]) % 2 ^ width) ^^ poly
           ELSE 2 * r[k - 1]
     IN r[width]]

Divided8 == Divided(8, 49)
Divided4 == Divided(4, 3)

Remainder(digits, table, start) ==
  LET r[k \in 0 .. Len(digits)] == IF k = 0 THEN start ELSE table[r[k - 1] ^^ digits[k]]
  IN r[Len(digits)]

Bits(bytes) == FlattenSeq([i \in DOMAIN bytes |-> ByteBits(bytes[i])])

HighLow(word) == <<word \div 256, word % 256>>

\* The three bytes an SHT3x sends of a reading, and those an SHT1x sends after a
\* command: its checksum goes over the command too, and comes with its bits in
\* reverse.
Sht3Frame(word) == Append(HighLow(word), Remainder(HighLow(word), Divided8, 255))

Sht1Frame(command, word) ==
  Append(HighLow(word),
         ByteOf(Reverse(ByteBits(Remainder(<<command>> \o HighLow(word), Divided8, 0)))))

\* The words of an MS5637 with its checksum in the first four bits.
MsProm(words) ==
  LET bytes == FlattenSeq([i \in DOMAIN words |-> HighLow(IF i = 1 THEN words[1] % 4096
                                                                   ELSE words[i])])
      halves == [i \in 1 .. 2 * Len(bytes) |->
                   IF i % 2 = 1 THEN bytes[(i + 1) \div 2] \div 16 ELSE bytes[i \div 2] % 16]
      crc == Remainder(halves \o <<0, 0>>, Divided4, 0)
  IN [words EXCEPT ![1] = 4096 * crc + (@ % 4096)]

\* The pulses of a DHT22 for five bytes, of two values and their sum.
DhtPulses(bytes) == [k \in 1 .. 40 |-> <<50, IF Bits(bytes)[k] = 1 THEN 70 ELSE 26>>]

DhtBytes(humidity, temperature) ==
  LET values == HighLow(humidity) \o HighLow(temperature)
  IN Append(values, (values[1] + values[2] + values[3] + values[4]) % 256)

AsBytes(words) == FlattenSeq([i \in DOMAIN words |-> HighLow(words[i])])

Near(n, exact) == n - exact \in -1 .. 0

\* A reading that arrives as the sensor sent it is taken, and the value is that of
\* the data sheet's formula in hundredths, but for the last digit: the checksums of
\* sht3Read, msInit and dht22Read never refuse good data, and the registers of
\* bmpRead and msRead are put together in the right order.  Of a DHT22's
\* temperatures below zero nothing is said: dht22Read takes them for two's
\* complement, and the sensor sends sign and magnitude.
GoodReadingsAccepted ==
  input.kind = "reading" =>
    LET x == input.of
        Sht3(b) == /\ b.got = SENSOR_RTN_OK
                   /\ Near(b.d[1], (17500 * x.t) \div 65535 - 4500)
                   /\ Near(b.d[2], (10000 * x.h) \div 65535)
        Ms(b, prom) == b.got = SENSOR_RTN_OK /\ b.d = Append(prom, 0)
        Bmp(b) == b.got = SENSOR_RTN_OK /\ b.d = <<x.t, 65536 * (x.h % 256) + x.h>>
        MsAdc(b) == b.got = SENSOR_RTN_OK /\ b.d = <<256 * x.t + (x.h % 256), 256 * x.h + (x.t % 256)>>
        Dht22(r) == /\ r.rtn = SENSOR_RTN_OK /\ r.humidity = x.h
                    /\ x.t < 32768 => r.temperature = x.t
    IN /\ Sht3(sht3Read(Session({}, Sht3Frame(x.t) \o Sht3Frame(x.h))))
       /\ \A prom \in {MsProm([i \in 1 .. 7 |-> (x.t + 37 * i * x.h) % 65536])} :
            \A data \in {AsBytes(prom)} : Ms(msInit(Session({}, data)), prom)
       /\ MsAdc(msRead(Session({}, HighLow(x.t) \o <<x.h % 256>> \o HighLow(x.h) \o <<x.t % 256>>)))
       /\ Bmp(bmpRead(Session({}, HighLow(x.t) \o <<x.h % 256>> \o HighLow(x.h))))
       /\ Dht22(dht22Read(<<80, 80>>, DhtPulses(DhtBytes(x.h, x.t))))

\* One or two wrong bits in what an SHT3x or SHT1x sends of a reading, and one
\* wrong bit in the calibration of an MS5637, are refused (sht3Read, shtRead, msInit
\* and their checksums).  dht22Read notices a wrong bit too, but does not refuse
\* the reading: both values are 0, and the result is still OK.
DamageNoticed ==
  input.kind = "damage" =>
    LET x == input.of
        Damaged(bytes) ==
          LET bits == Bits(bytes)
              sent == [i \in DOMAIN bits |-> IF i \in x.flips THEN 1 - bits[i] ELSE bits[i]]
          IN [n \in DOMAIN bytes |-> ByteOf(SubSeq(sent, 8 * n - 7, 8 * n))]
        prom  == MsProm([i \in 1 .. 7 |-> (x.t + 37 * i * x.h) % 65536])
        dht22 == dht22Read(<<80, 80>>, DhtPulses(Damaged(DhtBytes(x.h, x.t))))
    IN /\ \A data \in {Damaged(Sht3Frame(x.t) \o Sht3Frame(x.h))} :
            sht3Read(Session({}, data)).got = SENSOR_RTN_FAILED
       /\ \A data \in {Damaged(Sht1Frame(3, x.t) \o Sht1Frame(5, x.h))} :
            shtRead([Session({}, data) EXCEPT !.d = <<0, 0>>]).got = SENSOR_RTN_FAILED
       /\ Cardinality(x.flips) = 1 =>
            /\ \A data \in {Damaged(AsBytes(prom))} :
                 msInit(Session({}, data)).got = SENSOR_RTN_FAILED
            /\ x.flips \subseteq 1 .. 40 => dht22.humidity = 0 /\ dht22.temperature = 0

\* An SHT1x whose readings arrive as it sent them is believed: sht_crc_table is
\* the table of the sensor's checksum.
ShtGoodReadingsAccepted ==
  input.kind = "sht" =>
    shtRead([Session({}, Sht1Frame(3, input.of.t) \o Sht1Frame(5, input.of.h))
               EXCEPT !.d = <<0, 0>>]).got = SENSOR_RTN_OK

-----------------------------------------------------------------------------
(* Files *)

\* Every file that was put into the image is found under its name, with and
\* without slashes in front, and read back in pieces as it was, compressed or not,
\* wherever its neighbours end; every piece but the last is full.  An empty file,
\* and one that was not put in, is not there (mkespfsimage, espFsOpen, espFsRead).
FilesReadBack ==
  input.kind = "files" =>
    LET x == input.of
        Whole(pieces, data) == /\ Concat(pieces) = data
                               /\ \A i \in 1 .. Len(pieces) - 1 : Len(pieces[i]) = x.len
        Read(file, data) == /\ file.open <=> data # <<>>
                            /\ file.open => Whole(Pieces(file, x.len), data)
        Good(image) ==
          /\ ~espFsOpen(image, Text(9)).open
          /\ Len(image.bytes) % 4 = 0
          /\ \A k \in DOMAIN x.files :
               \A slashes \in {<<>>, <<Slash, Slash>>} :
                 Read(espFsOpen(image, slashes \o realName(x.files[k].path)), x.files[k].data)
    IN Good(mkespfsimage(x.files, x.compression, x.level))

\* text in chunks of n bytes
RECURSIVE Chunks(_, _)
Chunks(text, n) ==
  IF text = <<>> THEN <<>>
  ELSE <<Prefix(text, n)>> \o Chunks(From(text, n + 1), n)

\* What was compressed comes back, however input and output are cut into pieces
\* on both sides and however small the decoder's input buffer is, and the decoder
\* says that it is done (heatshrink_encoder.c and heatshrink_decoder.c, driven as
\* heatshrink.c does).
AnyPieces ==
  input.kind = "pieces" =>
    LET x == input.of
        Whole(decoded) == decoded.written = x.data /\ decoded.done
        Back(packed)   == Whole(decode(Chunks(packed, x.in2), x.ibs, x.w, x.l, x.out2))
    IN Back(encode(Chunks(x.data, x.in), x.w, x.l, x.out))

-----------------------------------------------------------------------------
(* Forms, logins, requests *)

HexDigits(n, lower) == IF n < 10 THEN Zero + n ELSE (IF lower THEN 87 ELSE 55) + n

\* A browser sends letters and digits as they are, a space as a plus, and
\* everything else as two hexadecimal digits.
Encoded(text) ==
  FlattenSeq([i \in DOMAIN text |->
    LET c == text[i]
    IN IF c \in (48 .. 57) \cup (65 .. 90) \cup (97 .. 122) THEN <<c>>
       ELSE IF c = Space THEN <<Plus>>
       ELSE <<Percent, HexDigits(c \div 16, FALSE), HexDigits(c % 16, FALSE)>>])

Form(fields) ==
  Concat([k \in DOMAIN fields |->
    (IF k > 1 THEN <<Amp>> ELSE <<>>) \o fields[k].name \o <<Equals>> \o Encoded(fields[k].value)])

\* Every field of a form is found with the value that was typed in, as far as
\* there is room, though names begin or end like others and values have the
\* characters that separate fields; a zero follows it if the value does not fill
\* the buffer (httpd.c says always, at lines 112 and 139); a field that is not there
\* is not found (httpdFindArg, httpdUrlDecode).
FormReadsBack ==
  input.kind = "form" =>
    LET x == input.of
        Written(value) == Prefix(Append(value, 0), x.room)
        Length(value) == Min({Len(value), x.room})
    IN /\ \A k \in DOMAIN x.fields :
            httpdFindArg(Form(x.fields), x.fields[k].name, x.room)
              = [len |-> Length(x.fields[k].value), ret |-> Written(x.fields[k].value)]
       /\ httpdFindArg(Form(x.fields), x.missing, x.room).len = -1

\* What a browser sends as "Authorization: Basic": the base64 code of the text.
Base64(text) ==
  LET bits == Bits(text) \o [i \in 1 .. (-(8 * Len(text))) % 6 |-> 0]
      Code(v) == CHOOSE c \in 43 .. 122 : base64dec(c) = v
  IN [k \in 1 .. Len(bits) \div 6 |-> Code(ValueOf(SubSeq(bits, 6 * k - 5, 6 * k)))]
       \o [i \in 1 .. (-Len(text)) % 3 |-> Equals]

AdminUser == <<117>>
AdminPass == <<112>>

\* After a user name and a password were saved with the form, exactly these log
\* in, for all the lengths that the page lets somebody type, whatever is in them
\* (but a colon in the user name); a form that sends back the stars in place of
\* the password leaves the old one (cgiUserConfig, authBasic, base64decode).
LoginReadsBack ==
  input.kind = "login" =>
    LET x     == input.of
        form  == Form(<<[name |-> AdminUser, value |-> x.user],
                        [name |-> AdminPass, value |-> x.pass]>>)
        user  == SavedUser(form, AdminUser)
        pass  == SavedPassword(form, AdminPass, x.old)
        lines == <<Text(5) \o <<Colon>> \o Text(3),
                   Authorization \o <<Colon, Space>> \o Basic \o <<Space>>
                     \o Base64(x.login[1] \o <<Colon>> \o x.login[2])>>
        kept  == IF x.pass = HIDE_PASS_STRING THEN x.old ELSE x.pass
    IN authBasic(lines, user, pass) = (x.login = <<x.user, kept>>)

\* Data that has line ends and digits in it, and a body in chunks of such data:
\* sizes in hexadecimal, of either case, with what a server may add to them.
ChunkText(n) == [i \in 1 .. n |-> <<Return, Newline, Zero, 97, 55>>[1 + (i % 5)]]

Chunked(sizes, lower, extension) ==
  LET Hex(n) == (IF n > 15 THEN <<HexDigits(n \div 16, lower)>> ELSE <<>>)
                  \o <<HexDigits(n % 16, lower)>>
  IN Concat([k \in DOMAIN sizes |->
              Hex(sizes[k]) \o extension \o CRLF \o ChunkText(sizes[k]) \o CRLF])
       \o <<Zero>> \o CRLF \o CRLF

\* A body in chunks comes out as the data of its chunks, also where the data look
\* like sizes and line ends (chunked_decode, esp_strtol).
ChunksReadBack ==
  input.kind = "chunks" =>
    LET x == input.of
    IN chunked_decode(Chunked(x.sizes, x.lower, x.extension))
         = Concat([k \in DOMAIN x.sizes |-> ChunkText(x.sizes[k])])

\* http_post says of a URL: "http://host:port/path", <port> is optional.  Host,
\* port and path are what they are in it, colons in the path included; https has
\* its own port, and is refused by a firmware without it.
UrlTaken ==
  input.kind = "url" =>
    LET x    == input.of
        url  == <<IF x.secure THEN "https://" ELSE "http://">> \o x.host
                  \o (IF x.port = 0 THEN <<>> ELSE <<":", ToString(x.port)>>) \o x.path
        sent == http_post(url, x.ssl)
    IN IF x.secure /\ ~x.ssl THEN ~sent.ok
       ELSE sent = [ok |-> TRUE, secure |-> x.secure, hostname |-> x.host,
                    port |-> IF x.port # 0 THEN x.port ELSE IF x.secure THEN 443 ELSE 80,
                    path |-> IF x.path = <<>> THEN <<"/">> ELSE x.path]

\* A broker's host of four numbers below 256 is taken for the address it is, with
\* or without something behind it; with less or larger numbers it is a name that
\* has to be looked up (MQTT_Connect, UTILS_StrToIP).
AddressTaken ==
  input.kind = "host" =>
    LET x      == input.of
        dotted == Concat([k \in DOMAIN x.numbers |->
                    (IF k > 1 THEN <<Point>> ELSE <<>>) \o Decimal(x.numbers[k], 1)])
        taken  == UTILS_StrToIP(dotted \o x.behind)
    IN /\ taken.ok <=> Len(x.numbers) >= 4 /\ \A k \in 1 .. 4 : x.numbers[k] < 256
       /\ taken.ok => taken.ip = Prefix(x.numbers, 4)

\* A URL of the user's, with the first of each placeholder replaced by its value
\* and everything else as it was: filling them one after the other changes none
\* that was filled before, and the buffer is never too small (httpPush,
\* strreplace).  An item is a placeholder's number, or a text.
UrlFilled ==
  input.kind = "template" =>
    LET x == input.of
        Plain(item) == IF item.placeholder > 0 THEN Placeholders[item.placeholder] ELSE item.text
        First(k) == \A j \in 1 .. k - 1 : x.items[j].placeholder # x.items[k].placeholder
        url      == Concat([k \in DOMAIN x.items |-> Plain(x.items[k])])
        filled   == Concat([k \in DOMAIN x.items |->
                      IF x.items[k].placeholder > 0 /\ First(k)
                        THEN x.values[x.items[k].placeholder] ELSE Plain(x.items[k])])
    IN Len(url) <= 127 => CustomUrl(url, x.values) = filled

\* The number a reader takes from a text: sign, digits, and digits behind a point.
NumberOf(text) ==
  LET negative == text[1] = Minus
      digits   == SelectSeq(text, LAMBDA c : c \in 48 .. 57)
      n[k \in 0 .. Len(digits)] == IF k = 0 THEN 0 ELSE 10 * n[k - 1] + (digits[k] - Zero)
  IN IF negative THEN -n[Len(digits)] ELSE n[Len(digits)]

\* Every value a sensor can have is shown with its sign, as many digits behind the
\* point as it has decimals and at least one in front, and fits into the eight
\* bytes of its buffer (sensors_sprintf, temperatureToString).
NumbersReadBack ==
  input.kind = "number" =>
    LET x    == input.of
        text == sensors_sprintf(x.value, x.dec_pow)
        point == Len(text) - x.dec_pow
    IN /\ NumberOf(text) = x.value
       /\ Len(text) <= 7
       /\ x.dec_pow > 0 => point > 1 /\ text[point] = Point /\ text[point - 1] \in 48 .. 57

-----------------------------------------------------------------------------
(* What the runs check *)

\* Readings that arrive as they were sent are taken, with their values; damaged
\* ones are refused, or, those of a DHT22, taken as 0.
ReadingsTrusted == GoodReadingsAccepted /\ DamageNoticed

\* Files and what was compressed come back whole, in pieces of any size.
FilesComeBack == FilesReadBack /\ AnyPieces

\* What a form sends is what is found, as far as the buffer takes it, and the login
\* saved is the one that works.
FormsReadBack == FormReadsBack /\ LoginReadsBack

\* Chunks, URLs, addresses, templates and numbers mean the same on both sides.
TextsReadBack ==
  ChunksReadBack /\ UrlTaken /\ AddressTaken /\ UrlFilled /\ NumbersReadBack
=============================================================================
