-------------------------------- MODULE Httpd --------------------------------
(***************************************************************************)
(* The web server of lib/httpd/httpd.c with the handlers of builtInUrls    *)
(* (user/user_main.c): a pool of MAX_CONN connections, each fed by the     *)
(* SDK's connect, receive, sent, reconnect and disconnect callbacks.  A    *)
(* handler ("cgi") may return HTTPD_CGI_MORE and is then run again by      *)
(* every sent callback; a connection that is gone runs it once more to     *)
(* clean up.  Files (lib/httpd/httpdespfs.c) keep an open file between     *)
(* the calls, the WiFi scan listing (user/cgiwifi.c) a position in a       *)
(* result that all connections share and every listing renews.             *)
(*                                                                         *)
(* Bytes are counted in units: a head has a few, a full body buffer has    *)
(* MaxPost of them, and a receive callback delivers any number.  Texts are *)
(* tokens.  Of the SDK is assumed that a send is queued and confirmed by   *)
(* one sent callback, of the clients that none sends more than the slot    *)
(* that serves it awaits.  A connection is known by the address of its     *)
(* espconn only, which may be another one's while slots still hold it.     *)
(***************************************************************************)
EXTENDS Integers, SequencesExt

CONSTANTS
  Conns,     \* connections of clients (espconn structures)
  NoConn,    \* NULL
  MaxConn,   \* MAX_CONN
  MaxHead,   \* MAX_HEAD_LEN, in units
  MaxPost,   \* MAX_POST, in units
  Files,     \* length of each file of the image by its name, in units
  PieceLen,  \* the 1024 bytes cgiEspFsHook reads at a time, in units
  Requests,  \* what clients send: records [method, url, auth, head, body, login]
  Logins,    \* names and passwords of the administrator
  ApCounts   \* how many access points a scan may find

ASSUME PoolAssumption == MaxConn \in Nat \ {0} /\ NoConn \notin Conns

ASSUME LengthsAssumption ==
  /\ MaxHead \in Nat \ {0} /\ MaxPost \in Nat \ {0} /\ PieceLen \in Nat \ {0}
  /\ \A name \in DOMAIN Files : Files[name] \in Nat
  /\ \A r \in Requests : r.head \in Nat \ {0} /\ r.body \in Nat
  /\ ApCounts \subseteq Nat

Slots == 1 .. MaxConn

VARIABLES
  conn,    \* connData[].conn: which connection each slot serves
  slot,    \* the rest of connData[], connPrivData[], connPostData[]
  scan,    \* cgiWifiAps: scanInProgress, and which result holds how many entries
  login,   \* configGet()->admin_user, admin_pass
  open,    \* files espFsOpen has allocated and espFsClose has not freed
  est,     \* the connections: "free", "up", "heir" (up, but served by the slot of
           \* one that was reset at its address), "closing" (state >= ESPCONN_CLOSE,
           \* disconnect callback to come) or "gone" (reset, its memory reused)
  unsent,  \* packets given to espconn_sent and not confirmed
  req,     \* the request that reaches the slot of each connection
  left,    \* units of it the client has still to send
  out,     \* history: what the server sent on a connection that is up
  mixed,   \* history: a scan was started during the connection's listing
  stray    \* history: handlers that wrote a response after their connection was gone

history == <<out, mixed, stray>>
network == <<est, unsent, req, left>>
vars    == <<conn, slot, scan, login, open, network, history>>

InHead == -1   \* post->len while the head is received

Unused == [len |-> InHead, headPos |-> 0, buffLen |-> 0, received |-> 0,
           url |-> "NULL", cgi |-> "NULL", cgiData |-> 0]

NoRequest == [method |-> "none"]

Least(S) == CHOOSE x \in S : \A y \in S : x <= y

-----------------------------------------------------------------------------
(* What a handler works on: its slot s, whether the connection exists, the *)
(* send buffer, what was sent and in how many packets, the shared state,   *)
(* and its result.                                                         *)

Context(i) ==
  [s |-> slot[i], alive |-> TRUE, buff |-> <<>>, sent |-> <<>>, packets |-> 0,
   r |-> "NONE", scan |-> scan, login |-> login, open |-> open, stray |-> stray]

\* httpdSend: after the connection is gone the send buffer is a dead stack frame.
httpdSend(w, x) ==
  IF w.alive THEN [w EXCEPT !.buff = Append(@, x)]
             ELSE [w EXCEPT !.stray = @ \cup {w.s.cgi}]

\* espconn_sent
Sent(w, packet) ==
  IF w.alive THEN [w EXCEPT !.sent = @ \o packet, !.packets = @ + 1]
             ELSE [w EXCEPT !.stray = @ \cup {w.s.cgi}]

Returns(w, result) == [w EXCEPT !.r = result]

xmitSendBuff(w) ==
  IF w.buff = <<>> THEN w ELSE [Sent(w, w.buff) EXCEPT !.buff = <<>>]

Page(w, code, text) ==
  Returns(httpdSend(httpdSend(w, <<"status", code>>), <<text>>), "DONE")

\* cgiRedirect, cgiBuildInfo and the forms leave at once when nobody listens.
IfAlive(w, result) == IF w.alive THEN result ELSE Returns(w, "DONE")

cgiRedirect(w)   == IfAlive(w, Page(w, 302, "moved"))
cgiSensor(w)     == Page(w, 200, "values")
cgiBuildInfo(w)  == IfAlive(w, Page(w, 200, "build"))

myPassFn(w) == w.login

authBasic(w, r) ==
  IfAlive(w, IF r.auth = myPassFn(w) THEN Returns(w, "AUTHENTICATED") ELSE Page(w, 401, "forbidden"))

\* The forms: wifisettings, sensorconfig and userconfig, of which the last
\* one changes the administrator's login.
cgiForm(w, r) ==
  IfAlive(w, Page(IF r.login \in Logins THEN [w EXCEPT !.login = r.login] ELSE w, 200, "form"))

CloseFile(w) == [w EXCEPT !.open = @ - 1]

\* espFsOpen strips the slashes a name begins with.
FileName(url) ==
  CASE url = "/index.html" -> "index.html"
    [] url \in {"/admin/index.html", "//admin/index.html"} -> "admin/index.html"
    [] OTHER -> url

\* cgiData is NULL, or stands for the file and its position (counted from 1).
OpenFile(w, r) ==
  IF FileName(r.url) \in DOMAIN Files
    THEN Returns([httpdSend(w, <<"status", 200>>) EXCEPT !.open = @ + 1, !.s.cgiData = 1], "MORE")
    ELSE Returns(w, "NOTFOUND")

PieceAt(r, pos) == Least({PieceLen, Files[FileName(r.url)] - pos})

SendPiece_UntilEmpty(w, r) ==
  LET pos == w.s.cgiData - 1
      n   == PieceAt(r, pos)
  IN IF n = 0 THEN Returns(CloseFile(w), "DONE")
     ELSE Returns([Sent(w, <<<<"piece", pos + n>>>>) EXCEPT !.s.cgiData = @ + n], "MORE")

SendPiece(w, r) ==
  LET pos == w.s.cgiData - 1
      n   == PieceAt(r, pos)
      ww  == [IF n > 0 THEN Sent(w, <<<<"piece", pos + n>>>>) ELSE w EXCEPT !.s.cgiData = @ + n]
  IN IF n # PieceLen THEN Returns(CloseFile(ww), "DONE") ELSE Returns(ww, "MORE")

AbortFile_KeepsOpen(w) == Returns(w, "DONE")

AbortFile(w) == Returns(CloseFile(w), "DONE")

cgiEspFsHook(w, r) ==
  IF ~w.alive THEN AbortFile(w)
  ELSE IF w.s.cgiData = 0 THEN OpenFile(w, r) ELSE SendPiece(w, r)

wifiStartScan(w) == [w EXCEPT !.scan.inProgress = TRUE]

ScanHead(w) ==
  LET ww == httpdSend(w, <<"status", 200>>)
  IN IF w.scan.inProgress
       THEN Returns(httpdSend(ww, <<"busy">>), "DONE")
       ELSE Returns([httpdSend(ww, <<"begin">>) EXCEPT !.s.cgiData = 1], "MORE")

ScanEntry_OffByOne(w) ==
  LET pos  == w.s.cgiData
      item == IF pos < w.scan.n THEN httpdSend(w, <<"ap", w.scan.result, pos>>) ELSE w
  IN IF pos >= w.scan.n
       THEN Returns(wifiStartScan(httpdSend(item, <<"end", w.scan.result, w.scan.n>>)), "DONE")
       ELSE Returns([item EXCEPT !.s.cgiData = pos + 1], "MORE")

\* Entry pos of the result there is now, whatever the listing began with; the
\* last one ends the listing and starts the next scan.
ScanEntry(w) ==
  LET pos  == w.s.cgiData
      item == IF pos - 1 < w.scan.n THEN httpdSend(w, <<"ap", w.scan.result, pos>>) ELSE w
  IN IF pos >= w.scan.n
       THEN Returns(wifiStartScan(httpdSend(item, <<"end", w.scan.result, w.scan.n>>)), "DONE")
       ELSE Returns([item EXCEPT !.s.cgiData = pos + 1], "MORE")

\* cgiWiFiScan does not ask whether the connection still exists.
cgiWiFiScan(w) == IF ~w.scan.inProgress /\ w.s.cgiData # 0 THEN ScanEntry(w) ELSE ScanHead(w)

Call(cgi, w, r) ==
  CASE cgi = "cgiRedirect"  -> cgiRedirect(w)
    [] cgi = "cgiSensor"    -> cgiSensor(w)
    [] cgi = "authBasic"    -> authBasic(w, r)
    [] cgi = "cgiBuildInfo" -> cgiBuildInfo(w)
    [] cgi = "cgiWiFiScan"  -> cgiWiFiScan(w)
    [] cgi = "cgiForm"      -> cgiForm(w, r)
    [] cgi = "cgiEspFsHook" -> cgiEspFsHook(w, r)

-----------------------------------------------------------------------------
(* Finding the handler of a request *)

\* One URL of every kind the table and the file system tell apart: each literal
\* entry, and those only a wildcard takes, with a file and without.  The table
\* compares the characters of "/admin*", the file system strips slashes: the
\* file of "/admin/index.html" is that of "//admin/index.html" too.
AdminUrls == {"/admin/", "/admin/buildinfo.cgi", "/admin/wifiscan.cgi", "/admin/form.cgi",
              "/admin/index.html", "/admin/missing"}
Urls == AdminUrls \cup {"/", "/sensors.cgi", "/index.html", "//admin/index.html", "/missing"}

ASSUME RequestsAssumption == NoRequest \notin Requests /\ \A r \in Requests : r.url \in Urls

\* No file of the image has the name of one of the other handlers.
ASSUME FilesAssumption == DOMAIN Files \subseteq {"index.html", "admin/index.html"}

\* Entries before the authentication would be open to everybody.
builtInUrls_AuthLate == <<
  [urls |-> {"/"},                    cgi |-> "cgiRedirect"],
  [urls |-> {"/sensors.cgi"},         cgi |-> "cgiSensor"],
  [urls |-> {"/admin/"},              cgi |-> "cgiRedirect"],
  [urls |-> {"/admin/buildinfo.cgi"}, cgi |-> "cgiBuildInfo"],
  [urls |-> AdminUrls,                cgi |-> "authBasic"],
  [urls |-> {"/admin/wifiscan.cgi"},  cgi |-> "cgiWiFiScan"],
  [urls |-> {"/admin/form.cgi"},      cgi |-> "cgiForm"],
  [urls |-> Urls,                     cgi |-> "cgiEspFsHook"] >>

builtInUrls == <<
  [urls |-> {"/"},                    cgi |-> "cgiRedirect"],
  [urls |-> {"/sensors.cgi"},         cgi |-> "cgiSensor"],
  [urls |-> AdminUrls,                cgi |-> "authBasic"],      \* "/admin*"
  [urls |-> {"/admin/"},              cgi |-> "cgiRedirect"],
  [urls |-> {"/admin/buildinfo.cgi"}, cgi |-> "cgiBuildInfo"],
  [urls |-> {"/admin/wifiscan.cgi"},  cgi |-> "cgiWiFiScan"],
  [urls |-> {"/admin/form.cgi"},      cgi |-> "cgiForm"],        \* three forms
  [urls |-> Urls,                     cgi |-> "cgiEspFsHook"] >> \* "*"

Matching(r) == {k \in DOMAIN builtInUrls : r.url \in builtInUrls[k].urls}

CallEntry(k, w, r) ==
  LET cgi == builtInUrls[k].cgi
  IN Call(cgi, [w EXCEPT !.s.cgi = cgi, !.s.cgiData = 0], r)

MarkForDestruction(w) == [w EXCEPT !.s.cgi = "NULL"]

\* The first entry that matches and does not pass the request on serves it
\* (passing on, NOTFOUND or AUTHENTICATED, has no effect).
httpdProcessRequest(w, r) ==
  LET takers == {k \in Matching(r) : CallEntry(k, w, r).r \in {"MORE", "DONE"}}
      served == CallEntry(Least(takers), w, r)
  IN IF w.s.url = "NULL" THEN w
     ELSE IF takers = {}
       THEN MarkForDestruction(xmitSendBuff(Page(w, 404, "notfound")))
     ELSE IF served.r = "MORE" THEN xmitSendBuff(served)
     ELSE MarkForDestruction(xmitSendBuff(served))

-----------------------------------------------------------------------------
(* Receiving *)

\* All lines of the head: the url of a GET or POST line, and the body's length.
httpdParseHeader(w, r) ==
  [w EXCEPT !.s.len = r.body,
            !.s.url = IF r.method \in {"GET", "POST"} THEN r.url ELSE "NULL"]

\* One unit of the head; its last one, if the buffer still takes it, ends the
\* head, and without a body the request is processed at once.
HeadUnit(w, r, last) ==
  LET ww     == [w EXCEPT !.s.headPos = Least({MaxHead, @ + 1})]
      parsed == httpdParseHeader(ww, r)
  IN IF ~last \/ w.s.headPos = MaxHead THEN ww
     ELSE IF parsed.s.len = 0 THEN httpdProcessRequest(parsed, r) ELSE parsed

\* One unit of the body: the request is processed whenever the buffer is full
\* and when the body is complete.
BodyUnit(w, r) ==
  LET ww == [w EXCEPT !.s.buffLen = @ + 1, !.s.received = @ + 1]
      buffSize == Least({MaxPost, w.s.len})
  IN IF ww.s.buffLen >= buffSize \/ ww.s.received = w.s.len
       THEN [httpdProcessRequest(ww, r) EXCEPT !.s.buffLen = 0]
       ELSE ww

Unit(w, r, last) ==
  IF w.s.len = InHead THEN HeadUnit(w, r, last)
  ELSE IF w.s.len # 0 THEN BodyUnit(w, r) ELSE w

\* The units from number "from" to number "to" of the request.
Feed(w, r, from, to) ==
  LET fed[k \in (from - 1) .. to] ==
        IF k = from - 1 THEN w ELSE Unit(fed[k - 1], r, k = r.head)
  IN fed[to]

-----------------------------------------------------------------------------
(* The callbacks of the SDK *)

Init ==
  /\ conn = [i \in Slots |-> NoConn]
  /\ slot = [i \in Slots |-> Unused]
  /\ scan = [inProgress |-> FALSE, result |-> 0, n |-> 0]
  /\ login \in Logins
  /\ open = 0
  /\ est = [c \in Conns |-> "free"]
  /\ unsent = [c \in Conns |-> 0]
  /\ req = [c \in Conns |-> NoRequest]
  /\ left = [c \in Conns |-> 0]
  /\ out = [c \in Conns |-> <<>>]
  /\ mixed = [c \in Conns |-> FALSE]
  /\ stray = {}

\* The first slot that holds this address; of NoConn, the first free slot.
FindConnData(c) == {i \in Slots : conn[i] = c /\ \A j \in 1 .. i - 1 : conn[j] # c}

Alive == {c \in Conns : est[c] \in {"up", "heir"}}

InListing(c) ==
  \E i \in FindConnData(c) : slot[i].cgi = "cgiWiFiScan" /\ slot[i].cgiData > 0

\* The connections E are no longer up: what their clients did is forgotten.
Ended(E) ==
  /\ unsent' = [d \in Conns |-> IF d \in E THEN 0 ELSE unsent[d]]
  /\ req' = [d \in Conns |-> IF d \in E THEN NoRequest ELSE req[d]]
  /\ left' = [d \in Conns |-> IF d \in E THEN 0 ELSE left[d]]
  /\ out' = [d \in Conns |-> IF d \in E THEN <<>> ELSE out[d]]
  /\ mixed' = [d \in Conns |-> IF d \in E THEN FALSE ELSE mixed[d]]

\* The shared state after a handler ran for the slots of "who".
Shared(w, who) ==
  /\ scan' = w.scan /\ login' = w.login /\ open' = w.open /\ stray' = w.stray
  /\ mixed' = [d \in Conns |->
                 mixed[d] \/ (w.scan # scan /\ est[d] = "up" /\ InListing(d)
                                /\ FindConnData(d) \cap who = {})]

\* The units of its request that the slot of connection c has received.
Units(c) == req[c].head + req[c].body - left[c]

\* The client at the address of a reset connection continues its request; what
\* it sends is the rest of a head that was not complete.
ContinuesRequest(c) ==
  \/ UNCHANGED <<req, left>>
  \/ \E o \in FindConnData(c), r \in Requests :
       /\ slot[o].len = InHead
       /\ Units(c) < r.head
       /\ req' = [req EXCEPT ![c] = r]
       /\ left' = [left EXCEPT ![c] = r.head + r.body - Units(c)]

\* The first free slot.  If the address is that of a connection that was reset,
\* its slot may come before: then the callbacks find that one.
TakesSlot(c, i) ==
  /\ conn' = [conn EXCEPT ![i] = c]
  /\ slot' = [slot EXCEPT ![i] = Unused]
  /\ IF \E o \in FindConnData(c) : o < i
       THEN est' = [est EXCEPT ![c] = "heir"] /\ ContinuesRequest(c)
       ELSE /\ est' = [est EXCEPT ![c] = "up"]
            /\ \E r \in Requests :
                 /\ req' = [req EXCEPT ![c] = r]
                 /\ left' = [left EXCEPT ![c] = r.head + r.body]

\* Without a free slot the connection is closed again.
PoolOverflow(c) ==
  /\ FindConnData(NoConn) = {}
  /\ est' = [est EXCEPT ![c] = "closing"]
  /\ req' = [req EXCEPT ![c] = NoRequest]
  /\ left' = [left EXCEPT ![c] = 0]
  /\ UNCHANGED <<conn, slot>>

httpdConnectCb(c) ==
  /\ est[c] \in {"free", "gone"}
  /\ PoolOverflow(c) \/ \E i \in FindConnData(NoConn) : TakesSlot(c, i)
  /\ UNCHANGED <<scan, login, open, unsent, history>>

httpdRecvCb(c) ==
  /\ c \in Alive
  /\ \E len \in 1 .. left[c], i \in FindConnData(c) :
       LET first == Units(c) + 1
           w     == Feed(Context(i), req[c], first, first + len - 1)
       IN /\ left' = [left EXCEPT ![c] = @ - len]
          /\ slot' = [slot EXCEPT ![i] = w.s]
          /\ unsent' = [unsent EXCEPT ![c] = @ + w.packets]
          /\ out' = [out EXCEPT ![c] = @ \o w.sent]
          /\ Shared(w, {i})
  /\ UNCHANGED <<conn, est, req>>

\* httpdSentCb with a handler: it is run again.
SentMore(c, i) ==
  LET called == Call(slot[i].cgi, Context(i), req[c])
      w == xmitSendBuff(IF called.r = "MORE" THEN called ELSE MarkForDestruction(called))
  IN /\ slot[i].cgi # "NULL"
     /\ slot' = [slot EXCEPT ![i] = w.s]
     /\ unsent' = [unsent EXCEPT ![c] = @ - 1 + w.packets]
     /\ out' = [out EXCEPT ![c] = @ \o w.sent]
     /\ Shared(w, {i})
     /\ UNCHANGED <<conn, est, req, left>>

\* Marked for destruction: espconn_disconnect and httpdRetireConn.
SentLast(c, i) ==
  /\ slot[i].cgi = "NULL"
  /\ est' = [est EXCEPT ![c] = "closing"]
  /\ conn' = [conn EXCEPT ![i] = NoConn]
  /\ slot' = [slot EXCEPT ![i] = Unused]
  /\ Ended({c})
  /\ UNCHANGED <<scan, login, open, stray>>

httpdSentCb(c) ==
  /\ c \in Alive
  /\ unsent[c] > 0
  /\ \E i \in FindConnData(c) : SentMore(c, i) \/ SentLast(c, i)

\* The client closes: the state of the espconn is ESPCONN_CLOSE until the
\* disconnect callback has been called.
ClientCloses(c) ==
  /\ c \in Alive
  /\ est' = [est EXCEPT ![c] = "closing"]
  /\ Ended({c})
  /\ UNCHANGED <<conn, slot, scan, login, open, stray>>

\* A reset connection gets this callback only, and it does nothing: the slot
\* keeps what it has of the request.
httpdReconCb(c) ==
  /\ c \in Alive
  /\ est' = [est EXCEPT ![c] = "gone"]
  /\ unsent' = [unsent EXCEPT ![c] = 0]
  /\ out' = [out EXCEPT ![c] = <<>>]
  /\ mixed' = [mixed EXCEPT ![c] = FALSE]
  /\ UNCHANGED <<conn, slot, scan, login, open, req, left, stray>>

\* The handler of a connection that is gone runs once more to clean up.
FlushSlot(w, i) ==
  LET ww == [w EXCEPT !.s = slot[i], !.alive = FALSE]
  IN IF slot[i].cgi = "NULL" THEN ww ELSE Call(slot[i].cgi, ww, req[conn[i]])

Flush(dead) ==
  LET flushed[i \in 0 .. MaxConn] ==
        IF i = 0 THEN Context(1)
        ELSE IF i \in dead THEN FlushSlot(flushed[i - 1], i) ELSE flushed[i - 1]
  IN flushed[MaxConn]

LooksClosed_Any(seen) == {i \in Slots : conn[i] # NoConn}

\* The slots whose espconn looks closed.  The memory of a reset connection may
\* look like anything, until it is that of a new connection, which is open.
LooksClosed(seen) ==
  {i \in Slots : conn[i] # NoConn /\ (est[conn[i]] = "closing" \/ conn[i] \in seen)}

httpdDisconCb(c) ==
  /\ est[c] = "closing"
  /\ \E seen \in SUBSET {d \in Conns : est[d] = "gone"} :
       LET dead == LooksClosed(seen)
       IN /\ conn' = [i \in Slots |-> IF i \in dead THEN NoConn ELSE conn[i]]
          /\ slot' = [i \in Slots |-> IF i \in dead THEN Unused ELSE slot[i]]
          /\ est' = [d \in Conns |-> IF d = c \/ d \in seen THEN "free" ELSE est[d]]
          /\ req' = [d \in Conns |-> IF d \in seen THEN NoRequest ELSE req[d]]
          /\ left' = [d \in Conns |-> IF d \in seen THEN 0 ELSE left[d]]
          /\ Shared(Flush(dead), dead)
  /\ UNCHANGED <<unsent, out>>

\* The SDK finished a scan; a failed one leaves the last result.
wifiScanDoneCb ==
  /\ scan.inProgress
  /\ \/ scan' = [scan EXCEPT !.inProgress = FALSE]
     \/ \E n \in ApCounts : scan' = [inProgress |-> FALSE, result |-> 1 - scan.result, n |-> n]
  /\ UNCHANGED <<conn, slot, login, open, network, history>>

Next ==
  \/ \E c \in Conns :
       \/ httpdConnectCb(c) \/ httpdRecvCb(c) \/ httpdSentCb(c)
       \/ ClientCloses(c) \/ httpdReconCb(c) \/ httpdDisconCb(c)
  \/ wifiScanDoneCb

Spec == Init /\ [][Next]_vars

-----------------------------------------------------------------------------
(* Properties *)

\* Types and limits: a head never outgrows its buffer, no body unit is counted
\* twice, and no more files are open than slots exist.
TypeOK ==
  /\ conn \in [Slots -> Conns \cup {NoConn}]
  /\ \A i \in Slots :
       /\ slot[i].headPos \in 0 .. MaxHead
       /\ slot[i].buffLen \in 0 .. MaxPost
       /\ slot[i].len \in {InHead, 0} \/ slot[i].received \in 0 .. slot[i].len
       /\ slot[i].cgi \in {"NULL", "cgiWiFiScan", "cgiEspFsHook"}
  /\ scan \in [inProgress : BOOLEAN, result : {0, 1}, n : ApCounts \cup {0}]
  /\ login \in Logins
  /\ open \in 0 .. MaxConn
  /\ est \in [Conns -> {"free", "up", "heir", "closing", "gone"}]
  /\ unsent \in [Conns -> Nat]
  /\ req \in [Conns -> Requests \cup {NoRequest}]

\* httpdFindConnData finds every connection that exists, in a slot that is its own
\* unless the address was another one's before; and once the connections at an
\* address are closed no slot holds it any more: whoever looks at the state of
\* whose espconn first, and however often addresses are used again.
PoolMatches ==
  /\ \A c \in Conns :
       /\ est[c] \in {"up", "heir", "gone"} => FindConnData(c) # {}
       /\ est[c] = "heir" => \E i, j \in Slots : i # j /\ conn[i] = c /\ conn[j] = c
       /\ est[c] = "free" => \A i \in Slots : conn[i] # c

\* Every open file belongs to a connection that is still being sent it.
FilesAccounted ==
  open = Cardinality({i \in Slots : slot[i].cgi = "cgiEspFsHook" /\ slot[i].cgiData > 0})

\* The answers a client may get.
Answer(code, text) == <<<<"status", code>>, <<text>>>>

Listings ==
  {<<<<"status", 200>>, <<"begin">>>>
     \o [i \in 1 .. n |-> <<"ap", result, i>>] \o <<<<"end", result, n>>>> :
       result \in {0, 1}, n \in ApCounts \cup {0}}

FileAnswer(name) ==
  <<<<"status", 200>>>> \o
    [k \in 1 .. (Files[name] + PieceLen - 1) \div PieceLen |->
       <<"piece", Least({k * PieceLen, Files[name]})>>]

Pieces(r) == IF r.body = 0 THEN 1 ELSE (r.body + MaxPost - 1) \div MaxPost

FormAnswers(r) ==
  {[k \in 1 .. 2 * Pieces(r) |-> a[(k + 1) \div 2][2 - (k % 2)]] :
     a \in [1 .. Pieces(r) -> {Answer(200, "form"), Answer(401, "forbidden")}]}

Contents(r) ==
  CASE r.url \in {"/", "/admin/"}       -> {Answer(302, "moved")}
    [] r.url = "/sensors.cgi"           -> {Answer(200, "values")}
    [] r.url = "/admin/buildinfo.cgi"   -> {Answer(200, "build")}
    [] r.url = "/admin/wifiscan.cgi"    -> Listings \cup {<<<<"status", 200>>, <<"busy">>>>}
    [] r.url = "/admin/form.cgi"        -> FormAnswers(r)
    [] FileName(r.url) \in DOMAIN Files -> {FileAnswer(FileName(r.url))}
    [] OTHER                            -> {Answer(404, "notfound")}

Understood(r) == r.method \in {"GET", "POST"} /\ r.head <= MaxHead

Answers(r) ==
  IF ~Understood(r) THEN {<<>>}
  ELSE Contents(r) \cup (IF r.url \in AdminUrls THEN {Answer(401, "forbidden")} ELSE {})

\* Whatever the other connections do in between, a client that is not served by
\* the slot of another one receives the
\* beginning of a right answer to its request: the file without a gap, the
\* listing of one scan, one answer for every buffer of a form.  Only a listing
\* during which another one started a scan may be broken.
ResponseInOrder ==
  \A c \in Conns : est[c] = "up" /\ out[c] # <<>> /\ ~mixed[c] =>
    \E a \in Answers(req[c]) : IsPrefix(out[c], a)

\* The login is only changed by a request that carries the one that is valid when
\* it is processed, and a client whose URL begins with /admin is refused if and
\* only if it does not carry it, however the requests of several administrators
\* and a change of the login interleave.  Nothing is said of the files below
\* admin/ under a URL that begins otherwise, for which the table asks no login,
\* nor of what the slot of a reset connection tells the next one at its address.
AdminOnlyByLogin ==
  [][/\ login' # login => \E c \in Conns : req[c] # NoRequest /\ req[c].auth = login
     /\ \A c \in Conns :
          est[c] = "up" /\ out[c] = <<>> /\ out'[c] # <<>> /\ req[c].url \in AdminUrls =>
            (Head(out'[c]) = <<"status", 401>> <=> req[c].auth # login)]_vars

\* No handler but the scan listing writes an answer nobody can get, into a send
\* buffer that is no more: all others see that the connection was aborted.
AbortIsSeen == stray \subseteq {"cgiWiFiScan"}

\* A slot is cleaned up in whatever state its connection is lost: nothing of a
\* head, form or file outlives it, and nobody is answered through it any more.
SlotsConsistent == TypeOK /\ FilesAccounted /\ AbortIsSeen

\* The server acts on a connection in its sent callback only.  From the last
\* unit of a request until the server closes the connection there is always one
\* to come, unless nothing of the request was understood or the file's length
\* is a multiple of what is read at a time.
Closes(r) ==
  /\ Understood(r)
  /\ FileName(r.url) \in DOMAIN Files => Files[FileName(r.url)] % PieceLen # 0

AnswerNeverStalls ==
  \A c \in Conns : est[c] = "up" /\ left[c] = 0 /\ Closes(req[c]) => unsent[c] > 0
=============================================================================
