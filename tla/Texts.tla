-------------------------------- MODULE Texts --------------------------------
(***************************************************************************)
(* The conversions of texts on their way through the device: forms and     *)
(* logins (lib/httpd), URLs and chunked bodies (lib/httpclient), numbers   *)
(* and placeholders (user).                                                *)
(*                                                                         *)
(* A text is the sequence of its character codes, without the zero at its  *)
(* end.  A URL is a sequence of parts, strings: the protocol, names and    *)
(* numbers, and the characters that separate them.                         *)
(***************************************************************************)
EXTENDS Integers, SequencesExt

Tab     == 9
Newline == 10
Return  == 13
Space   == 32
Percent == 37
Amp     == 38
Plus    == 43
Minus   == 45
Point   == 46
Zero    == 48
Colon   == 58
Equals  == 61

CRLF == <<Return, Newline>>

Prefix(s, n) == SubSeq(s, 1, Min({n, Len(s)}))
From(s, pos) == SubSeq(s, pos, Len(s))

\* The places where sub begins in s.
Places(s, sub) == {i \in 1 .. Len(s) - Len(sub) + 1 : SubSeq(s, i, i + Len(sub) - 1) = sub}

\* What is in front of the first place where sub begins, or all of s.
Before(s, sub) == IF Places(s, sub) = {} THEN s ELSE SubSeq(s, 1, Min(Places(s, sub)) - 1)

-----------------------------------------------------------------------------
(* lib/httpd/httpd.c *)

httpdHexVal(c) ==
  CASE c \in 48 .. 57  -> c - 48
    [] c \in 65 .. 70  -> c - 55
    [] c \in 97 .. 102 -> c - 87
    [] OTHER           -> 0

\* Decoding ends with the value or with a full buffer; the zero at the end of the
\* text is written if there is room left for it.
httpdUrlDecode(val, retLen) ==
  LET decode[s \in 1 .. Len(val) + 1] ==
        IF s > Len(val) THEN <<>>
        ELSE IF val[s] = Plus THEN <<Space>> \o decode[s + 1]
        ELSE IF val[s] # Percent THEN <<val[s]>> \o decode[s + 1]
        ELSE IF s + 2 > Len(val) THEN <<>>
        ELSE <<16 * httpdHexVal(val[s + 1]) + httpdHexVal(val[s + 2])>> \o decode[s + 3]
      ret == Prefix(decode[1], retLen)
  IN [len |-> Len(ret), ret |-> IF Len(ret) < retLen THEN Append(ret, 0) ELSE ret]

NoArgument == [len |-> -1, ret |-> <<>>]

NotFound == [found |-> FALSE, value |-> <<>>]

httpdFindArg_NoEquals(line, arg, buffLen) ==
  LET starts == {1} \cup {i + 1 : i \in Places(line, <<Amp>>)}
      named  == {p \in starts : Prefix(From(line, p), Len(arg)) = arg}
  IN IF named = {} THEN NoArgument
     ELSE httpdUrlDecode(Before(From(line, Min(named) + Len(arg) + 1), <<Amp>>), buffLen)

\* The value of the first argument with that name; a line ends the arguments.
httpdFindArg(line, arg, buffLen) ==
  LET starts == {1} \cup {i + 1 : i \in Places(line, <<Amp>>)}
      ended(p) == \E q \in starts : q <= p /\ q <= Len(line) /\ line[q] \in {Newline, Return}
      named  == {p \in starts : ~ended(p) /\ Prefix(From(line, p), Len(arg) + 1) = arg \o <<Equals>>}
  IN IF named = {} THEN NoArgument
     ELSE httpdUrlDecode(Before(From(line, Min(named) + Len(arg) + 1), <<Amp>>), buffLen)

\* text without what it begins with
Skipping(text, chars) ==
  LET kept == {i \in 1 .. Len(text) : text[i] \notin chars}
  IN IF kept = {} THEN <<>> ELSE From(text, Min(kept))

\* The first of the lines of the head with that header; what follows the spaces
\* after the colon, cut to retLen with the zero at its end.
httpdGetHeader(lines, header, retLen) ==
  LET name  == header \o <<Colon>>
      line(i) == Skipping(lines[i], 1 .. 32)
      found == {i \in DOMAIN lines : Prefix(line(i), Len(name)) = name}
      value == Skipping(From(line(Min(found)), Len(name) + 1), {Space})
  IN IF found = {} THEN NotFound
     ELSE [found |-> TRUE,
           value |-> Prefix(Before(Before(value, <<Return>>), <<Newline>>), retLen - 1)]

-----------------------------------------------------------------------------
(* lib/httpd/base64.c and auth.c *)

\* The value of a character in base64, 255 for those it does not have.
base64dec(c) ==
  CASE c \in 65 .. 90  -> c - 65
    [] c \in 97 .. 122 -> c - 71
    [] c \in 48 .. 57  -> c + 4
    [] c = 43          -> 62
    [] c = 47          -> 63
    [] OTHER           -> 255

Whitespace == (Tab .. Return) \cup {Space}

BytesOf(codes) ==
  LET value(i) == IF i < Len(codes) THEN 64 * codes[i] + codes[i + 1] ELSE 0
  IN [k \in 1 .. (6 * Len(codes)) \div 8 |->
        LET i == (4 * (k - 1)) \div 3 + 1   \* where the byte begins, at bit 0, 2 or 4
        IN (value(i) \div <<16, 4, 1>>[((k - 1) % 3) + 1]) % 256]

\* The text up to a character that is none of the code, without white space; -1
\* if the output is too small.
base64decode(in, out_len) ==
  LET text  == SelectSeq(in, LAMBDA c : c \notin Whitespace)
      ends  == {i \in 1 .. Len(text) : base64dec(text[i]) = 255}
      codes == IF ends = {} THEN text ELSE SubSeq(text, 1, Min(ends) - 1)
      bytes == BytesOf([i \in 1 .. Len(codes) |-> base64dec(codes[i])])
  IN IF Len(bytes) > out_len THEN [len |-> -1, out |-> <<>>]
     ELSE [len |-> Len(bytes), out |-> bytes]

Authorization == <<65, 117, 116, 104, 111, 114, 105, 122, 97, 116, 105, 111, 110>>
Basic         == <<66, 97, 115, 105, 99>>

AUTH_MAX_USER_LEN == 32
AUTH_MAX_PASS_LEN == 32

\* Whether the head of a request has the user name and the password.
authBasic(lines, user, pass) ==
  LET size     == AUTH_MAX_USER_LEN + AUTH_MAX_PASS_LEN + 2
      hdr      == httpdGetHeader(lines, Authorization, 10 * size)
      userpass == base64decode(From(hdr.value, 7), size)
  IN /\ hdr.found
     /\ Prefix(hdr.value, 5) = Basic
     /\ userpass.out = user \o <<Colon>> \o pass

-----------------------------------------------------------------------------
(* user/cgiconfig.c: what cgiUserConfig saves of the two fields of its form *)

HIDE_PASS_STRING == <<42, 42, 42, 42, 42, 42>>   \* "******"

\* The text in a buffer of n bytes, of which the caller makes the last one zero.
TextIn(n, ret) == Before(Prefix(ret, n - 1), <<0>>)

\* admin_user and admin_pass have 32 bytes; the password is taken into a buffer of
\* 64 first, and the one shown in place of the real one changes nothing.  The form
\* has both fields.
SavedUser(form, arg) == TextIn(32, httpdFindArg(form, arg, 32).ret)

SavedPassword(form, arg, old) ==
  LET passtmp == TextIn(64, httpdFindArg(form, arg, 64).ret)
  IN IF passtmp = HIDE_PASS_STRING THEN old ELSE Prefix(passtmp, 32)

-----------------------------------------------------------------------------
(* lib/httpclient/httpclient.c *)

\* The number at the beginning of a text, in hexadecimal, as a 32-bit integer.
esp_strtol(s) ==
  LET HexDigit(c) == c \in (48 .. 57) \cup (65 .. 70) \cup (97 .. 102)
      signed   == Skipping(s, {Space, Tab, Newline})
      unsigned == IF signed # <<>> /\ signed[1] \in {Minus, Plus} THEN Tail(signed) ELSE signed
      digits   == IF Len(unsigned) > 2 /\ unsigned[1] = Zero /\ unsigned[2] \in {88, 120}
                    THEN From(unsigned, 3) ELSE unsigned
      others   == {k \in 1 .. Len(digits) : ~HexDigit(digits[k])}
      n        == IF others = {} THEN Len(digits) ELSE Min(others) - 1
      Most     == 2147483647
      value[k \in 0 .. n] ==
        IF k = 0 THEN 0
        ELSE LET acc == value[k - 1]
                 c   == httpdHexVal(digits[k])
             IN IF acc > Most \div 16 THEN Most ELSE 16 * acc + c
  IN IF signed # <<>> /\ signed[1] = Minus THEN -value[n] ELSE value[n]

\* The data of the chunks from the beginning of str on, up to one of size 0; a
\* line end follows the size, with what else is on its line, and the data.
RECURSIVE chunked_decode(_)
chunked_decode(str) ==
  LET i    == esp_strtol(str)
      data == From(str, Min(Places(str, CRLF)) + 2)
  IN IF i <= 0 THEN <<>> ELSE SubSeq(data, 1, i) \o chunked_decode(From(data, i + 3))

atoi(part) == CASE part = "80" -> 80 [] part = "443" -> 443 [] part = "8080" -> 8080 [] OTHER -> 0

\* What is requested of a URL with that path, behind the protocol, and at most
\* one colon that counts.
Request(url, path, colons) ==
  LET rest   == Tail(url)
      secure == Head(url) = "https://"
      port   == IF Min(colons) < Len(rest) THEN atoi(rest[Min(colons) + 1]) ELSE 0
  IN IF colons # {} /\ port = 0 THEN [ok |-> FALSE]
     ELSE [ok |-> TRUE, secure |-> secure,
           hostname |-> SubSeq(rest, 1, Min(colons \cup {path}) - 1),
           port |-> IF colons # {} THEN port ELSE IF secure THEN 443 ELSE 80,
           path |-> IF path > Len(rest) THEN <<"/">> ELSE From(rest, path)]

PathBegin(url) == Min({i \in DOMAIN Tail(url) : Tail(url)[i] = "/"} \cup {Len(url)})

\* The path begins with the first slash; a colon in front of it, the port.  ssl
\* says whether the firmware is built with HTTPCLIENT_SECURE.
http_post(url, ssl) ==
  LET colons == {i \in 1 .. PathBegin(url) - 1 : Tail(url)[i] = ":"}
  IN IF Head(url) \notin {"http://"} \cup (IF ssl THEN {"https://"} ELSE {}) THEN [ok |-> FALSE]
     ELSE Request(url, PathBegin(url), colons)

-----------------------------------------------------------------------------
(* lib/mqtt/utils.c *)

\* The four bytes of an address; whatever is behind the fourth number is ignored.
UTILS_StrToIP(str) ==
  LET part[i \in 0 .. 4] ==
        IF i = 0 THEN [ok |-> TRUE, rest |-> Append(str, 0), ip |-> <<>>]
        ELSE LET before == part[i - 1]
                 behind == Skipping(before.rest, 48 .. 57)
                 digits == Prefix(before.rest, Len(before.rest) - Len(behind))
                 n      == FoldLeft(LAMBDA value, c : 10 * value + (c - Zero), 0, digits)
             IN IF before.ok /\ (i = 4 \/ behind[1] = Point) /\ n < 256
                  THEN [ok |-> TRUE, rest |-> Tail(behind), ip |-> Append(before.ip, n)]
                  ELSE [before EXCEPT !.ok = FALSE]
  IN [ok |-> part[4].ok, ip |-> part[4].ip]

-----------------------------------------------------------------------------
(* user/strreplace.c, user/push.c and user/sensors.c *)

\* The first sub in str is replaced if the result fits into len bytes.
strreplace(str, sub, rep, len) ==
  LET start == Min(Places(str, sub))
  IN IF sub = <<>> \/ Places(str, sub) = {} THEN str
     ELSE IF Len(str) - Len(sub) + Len(rep) + 1 > len THEN str
     ELSE SubSeq(str, 1, start - 1) \o rep \o From(str, start + Len(sub))

\* %t %h %p %v %r
Placeholders == <<<<Percent, 116>>, <<Percent, 104>>, <<Percent, 112>>, <<Percent, 118>>,
                  <<Percent, 114>>>>

\* httpPush fills the URL the user has set, one placeholder after the other.
CustomUrl(url, values) ==
  LET filled[k \in 0 .. 5] ==
        IF k = 0 THEN url ELSE strreplace(filled[k - 1], Placeholders[k], values[k], 256)
  IN filled[5]

\* n in decimal, with at least so many digits.
RECURSIVE Decimal(_, _)
Decimal(n, digits) ==
  IF n < 10 /\ digits <= 1 THEN <<Zero + n>>
  ELSE Append(Decimal(n \div 10, digits - 1), Zero + (n % 10))

abs(n) == IF n < 0 THEN -n ELSE n

sensors_sprintf_SignOfQuotient(value, dec_pow) ==
  LET scale == 10 ^ dec_pow
      whole == abs(value) \div scale
      sign  == IF value < 0 /\ whole > 0 THEN <<Minus>> ELSE <<>>
  IN IF dec_pow = 0 THEN sign \o Decimal(whole, 1)
     ELSE sign \o Decimal(whole, 1) \o <<Point>> \o Decimal(abs(value) % scale, dec_pow)

\* value is in units of 10 ^ -dec_pow; the sign is that of the value, also where
\* the digits before the point are zero.
sensors_sprintf(value, dec_pow) ==
  LET scale == 10 ^ dec_pow
      sign  == IF value < 0 THEN <<Minus>> ELSE <<>>
  IN IF dec_pow = 0 THEN sign \o Decimal(abs(value), 1)
     ELSE sign \o Decimal(abs(value) \div scale, 1) \o <<Point>>
            \o Decimal(abs(value) % scale, dec_pow)
=============================================================================
