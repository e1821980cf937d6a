----------------------------- MODULE HttpdProofs -----------------------------
(***************************************************************************)
(* What holds of Httpd for any number of connections and slots, for all    *)
(* files and for all requests.  First the handlers: what each of them can  *)
(* make of the context it is called with.  Then the two loops of the code, *)
(* over the units a receive callback delivers and over the slots that a    *)
(* disconnect callback cleans up, by induction over natural numbers.  Then *)
(* the invariant HttpInv, which relates every slot to how much of whose    *)
(* request has arrived, with the theorems that follow from it, and at last *)
(* OrderInv, which relates every slot to what its client has been sent.    *)
(***************************************************************************)
EXTENDS Httpd, WellFoundedInduction, FiniteSetTheorems, SequenceTheorems, TLAPS

-----------------------------------------------------------------------------
(* Induction over natural numbers, said of sets *)

\* The order of the natural numbers as a set of pairs.
LessThan == {p \in Nat \X Nat : p[1] < p[2]}

\* It is well founded.
LEMMA NatWellFounded == IsWellFoundedOn(LessThan, Nat)
<1>1. OpToRel(<, Nat) = LessThan
  BY Zenon DEF OpToRel, LessThan
<1> QED
  BY <1>1, NatLessThanWellFounded, Zenon

\* A set of natural numbers that is not empty has a least element.
LEMMA HasLeast ==
  ASSUME NEW T \in SUBSET Nat, T # {}
  PROVE  \E x \in T : \A y \in T : x <= y
<1>1. PICK x \in T : \A y \in T : ~(<<y, x>> \in LessThan)
  BY NatWellFounded, WFMin
<1>2. \A y \in T : y \in Nat /\ <<y, x>> \in Nat \X Nat
  OBVIOUS
<1>3. \A y \in T : ~(y < x)
  BY <1>1, <1>2 DEF LessThan
<1> QED
  BY <1>2, <1>3

\* A set that has 0 and the successor of each of its members has all of them.
LEMMA SetInduction ==
  ASSUME NEW T \in SUBSET Nat, 0 \in T, \A n \in T : n + 1 \in T
  PROVE  T = Nat
<1> SUFFICES ASSUME T # Nat PROVE FALSE
  OBVIOUS
<1>1. PICK x \in Nat \ T : \A y \in Nat \ T : x <= y
  BY HasLeast
<1>2. x # 0 /\ x - 1 \in Nat /\ x - 1 \notin Nat \ T
  BY <1>1
<1> QED
  BY <1>1, <1>2

\* Induction up to a bound.
LEMMA BoundedInduction ==
  ASSUME NEW N \in Nat, NEW T, 0 \in T, \A n \in 0 .. N - 1 : n \in T => n + 1 \in T
  PROVE  \A n \in 0 .. N : n \in T
<1> DEFINE U == {n \in Nat : n <= N => n \in T}
<1>1. 0 \in U /\ \A n \in U : n + 1 \in U
  OBVIOUS
<1>2. U = Nat
  BY <1>1, SetInduction
<1> QED
  BY <1>2


-----------------------------------------------------------------------------
(* Types *)

\* The status codes and page texts of the handlers, and everything a client may be sent.
Codes == {200, 302, 401, 404}
Words == {"moved", "values", "build", "forbidden", "form", "notfound", "busy", "begin"}
Item == ({"status"} \X Codes) \cup {<<word>> : word \in Words}
          \cup ({"piece"} \X Nat) \cup ({"ap", "end"} \X {0, 1} \X Nat)

\* The types of what a handler works on.
Cgis == {"NULL", "cgiRedirect", "cgiSensor", "authBasic", "cgiBuildInfo", "cgiWiFiScan", "cgiForm",
         "cgiEspFsHook"}

SlotRec == [len : Int, headPos : 0 .. MaxHead, buffLen : Nat, received : Nat,
            url : Urls \cup {"NULL"}, cgi : Cgis, cgiData : Nat]
ScanRec == [inProgress : BOOLEAN, result : {0, 1}, n : ApCounts \cup {0}]
Ctx == [s : SlotRec, alive : BOOLEAN, buff : Seq(Item), sent : Seq(Item), packets : Nat,
        r : {"NONE", "MORE", "DONE", "NOTFOUND", "AUTHENTICATED"},
        scan : ScanRec, login : Logins, open : Int, stray : SUBSET Cgis]

\* A scan finds a natural number of access points.
LEMMA CountsAreNat == \A n \in ApCounts \cup {0} : n \in Nat
<1>1. ApCounts \subseteq Nat
  BY LengthsAssumption
<1> QED
  BY <1>1

\* What the handlers send has its type.
LEMMA Items ==
  /\ \A code \in Codes : <<"status", code>> \in Item
  /\ \A word \in Words : <<word>> \in Item
  /\ \A n \in Nat : <<"piece", n>> \in Item
  /\ \A k \in {0, 1}, n \in Nat : <<"ap", k, n>> \in Item /\ <<"end", k, n>> \in Item
  BY DEF Item

\* httpdSend puts one item behind what the send buffer holds.
LEMMA SendFacts ==
  ASSUME NEW w \in Ctx, w.alive, NEW x \in Item
  PROVE  /\ httpdSend(w, x) = [w EXCEPT !.buff = Append(@, x)]
         /\ httpdSend(w, x) \in Ctx
         /\ httpdSend(w, x).buff # <<>>
<1>1. Append(w.buff, x) \in Seq(Item) /\ Append(w.buff, x) # <<>>
  <2>1. w.buff \in Seq(Item)
    BY DEF Ctx
  <2> QED
    BY <2>1
<1> QED
  BY <1>1 DEF httpdSend, Ctx

\* Sequences of one and of two elements.
LEMMA PairSeq ==
  ASSUME NEW S, NEW x \in S, NEW y \in S
  PROVE  /\ <<x>> \in Seq(S) /\ Append(<<>>, x) = <<x>> /\ Head(<<x>>) = x
         /\ <<x, y>> \in Seq(S) /\ Append(<<x>>, y) = <<x, y>> /\ Head(<<x, y>>) = x
<1>1. <<x>> \in Seq(S)
  OBVIOUS
<1>2. Append(<<>>, x) = <<x>> 
  OBVIOUS
<1>3. Head(<<x>>) = x
  OBVIOUS
<1>4. <<x, y>> \in Seq(S) 
  OBVIOUS
<1>5. Append(<<x>>, y) = <<x, y>> 
  <2> DEFINE t == Append(<<x>>, y)
  <2>1. t \in Seq(S) /\ Len(t) = 2 /\ t[1] = x /\ t[2] = y
    BY <1>1
  <2>2. Len(<<x, y>>) = 2 /\ <<x, y>>[1] = x /\ <<x, y>>[2] = y
    OBVIOUS
  <2>5. t = <<x, y>>
    <3> DEFINE u == <<x, y>>
    <3>1. u \in Seq(S) /\ Len(t) = Len(u)
      BY <1>4, <2>1, <2>2
    <3>2. \A i \in 1 .. Len(t) : t[i] = u[i]
      BY <2>1, <2>2
    <3> HIDE DEF t, u
    <3>3. t = u
      BY <2>1, <3>1, <3>2, SeqEqual
    <3> QED BY <3>3 DEF u
  <2> QED BY <2>5
<1>6. Head(<<x, y>>) = x
  OBVIOUS
<1> QED BY <1>1, <1>2, <1>3, <1>4, <1>5, <1>6

\* A page fills an empty send buffer with a whole answer.
LEMMA PageFacts ==
  ASSUME NEW w \in Ctx, w.alive, w.buff = <<>>, NEW code \in Codes, NEW word \in Words
  PROVE  /\ Page(w, code, word) = [w EXCEPT !.buff = Answer(code, word), !.r = "DONE"]
         /\ Page(w, code, word) \in Ctx
<1>1. /\ <<"status", code>> \in Item /\ <<word>> \in Item
  BY Items
<1>2. Answer(code, word) \in Seq(Item) /\ Append(Append(<<>>, <<"status", code>>), <<word>>) = Answer(code, word)
  <2> DEFINE x == <<"status", code>>
             y == <<word>>
  <2>1. x \in Item /\ y \in Item
    BY <1>1
  <2> HIDE DEF x, y
  <2>2. <<x, y>> \in Seq(Item) /\ Append(Append(<<>>, x), y) = <<x, y>>
    BY <2>1, PairSeq
  <2> QED
    BY <2>2 DEF Answer, x, y
<1>3. Page(w, code, word) = [w EXCEPT !.buff = Answer(code, word), !.r = "DONE"]
  BY <1>2 DEF Page, Returns, httpdSend, Ctx
<1> QED
  BY <1>2, <1>3 DEF Ctx

\* What is in the send buffer leaves as one packet, and nothing as none.
LEMMA XmitFacts ==
  ASSUME NEW w \in Ctx, w.alive
  PROVE  /\ xmitSendBuff(w) \in Ctx
         /\ w.buff = <<>> => xmitSendBuff(w) = w
         /\ w.buff # <<>> => xmitSendBuff(w) = [w EXCEPT !.sent = @ \o w.buff, !.packets = @ + 1, !.buff = <<>>]
<1>1. w.sent \o w.buff \in Seq(Item) /\ w.packets + 1 \in Nat /\ <<>> \in Seq(Item)
  <2>1. w.sent \in Seq(Item) /\ w.buff \in Seq(Item) /\ w.packets \in Nat
    BY DEF Ctx
  <2> QED
    BY <2>1
<1> QED
  BY <1>1 DEF xmitSendBuff, Sent, Ctx

-----------------------------------------------------------------------------
(* The handlers *)

\* What one processing of request r does to the context w.
Accepted(w, r) == r.url \notin AdminUrls \/ r.auth = w.login

\* One answer, after which the connection is marked for destruction.
Replied(w, ww, answer) ==
  ww.sent = w.sent \o answer /\ ww.s.cgi = "NULL" /\ ww.open = w.open /\ ww.scan = w.scan

\* The answers of the handlers that answer at once and change nothing.
PlainAnswers(r) ==
  CASE r.url \in {"/", "/admin/"}     -> {Answer(302, "moved")}
    [] r.url = "/sensors.cgi"         -> {Answer(200, "values")}
    [] r.url = "/admin/buildinfo.cgi" -> {Answer(200, "build")}
    [] r.url \in {"/admin/wifiscan.cgi", "/admin/form.cgi"} -> {}
    [] OTHER -> IF FileName(r.url) \in DOMAIN Files THEN {} ELSE {Answer(404, "notfound")}

\* The six things a processing can come to: refused for lack of the login,
Refused(w, r, ww) ==
  ~Accepted(w, r) /\ Replied(w, ww, Answer(401, "forbidden")) /\ ww.login = w.login

\* a page of a handler that changes nothing,
Answered(w, r, ww) ==
  \E a \in PlainAnswers(r) : Accepted(w, r) /\ Replied(w, ww, a) /\ ww.login = w.login

\* a form taken, which alone may change the login,
FormTaken(w, r, ww) ==
  /\ r.url = "/admin/form.cgi" /\ Accepted(w, r)
  /\ Replied(w, ww, Answer(200, "form"))

\* a listing refused because a scan is running,
ListingBusy(w, r, ww) ==
  /\ r.url = "/admin/wifiscan.cgi" /\ Accepted(w, r) /\ w.scan.inProgress
  /\ Replied(w, ww, Answer(200, "busy")) /\ ww.login = w.login

\* a listing begun,
ListingBegun(w, r, ww) ==
  /\ r.url = "/admin/wifiscan.cgi" /\ Accepted(w, r) /\ ~w.scan.inProgress
  /\ ww.sent = w.sent \o Answer(200, "begin")
  /\ ww.s.cgi = "cgiWiFiScan" /\ ww.s.cgiData = 1
  /\ ww.open = w.open /\ ww.scan = w.scan /\ ww.login = w.login

\* and a file opened.
FileBegun(w, r, ww) ==
  /\ FileName(r.url) \in DOMAIN Files /\ Accepted(w, r)
  /\ r.url \in {"/index.html", "/admin/index.html", "//admin/index.html", "/admin/missing", "/missing"}
  /\ ww.sent = w.sent \o <<<<"status", 200>>>>
  /\ ww.s.cgi = "cgiEspFsHook" /\ ww.s.cgiData = 1
  /\ ww.open = w.open + 1 /\ ww.scan = w.scan /\ ww.login = w.login

\* Every processing sends one packet, and changes the slot in its handler alone.
OnePacket(w, ww) ==
  /\ ww \in Ctx /\ ww.alive /\ ww.buff = <<>> /\ ww.stray = w.stray
  /\ ww.packets = w.packets + 1
  /\ ww.s = [w.s EXCEPT !.cgi = ww.s.cgi, !.cgiData = ww.s.cgiData]

\* What httpdProcessRequest makes of context w for request r.
Processed(w, r, ww) ==
  /\ OnePacket(w, ww)
  /\ \/ Refused(w, r, ww) \/ Answered(w, r, ww) \/ FormTaken(w, r, ww)
     \/ ListingBusy(w, r, ww) \/ ListingBegun(w, r, ww) \/ FileBegun(w, r, ww)

\* The context an entry's handler is called with.
Entered(w, cgi) == [w EXCEPT !.s.cgi = cgi, !.s.cgiData = 0]

\* A context of a connection that exists, with nothing in the send buffer.
Ready(w) == w \in Ctx /\ w.alive /\ w.buff = <<>>

\* Calling an entry changes the handler and its data, nothing else.
LEMMA EnteredFacts ==
  ASSUME NEW w, Ready(w), NEW cgi \in Cgis
  PROVE  /\ Ready(Entered(w, cgi))
         /\ Entered(w, cgi).s = [w.s EXCEPT !.cgi = cgi, !.cgiData = 0]
         /\ Entered(w, cgi).s.cgi = cgi /\ Entered(w, cgi).s.cgiData = 0
         /\ Entered(w, cgi).sent = w.sent /\ Entered(w, cgi).packets = w.packets
         /\ Entered(w, cgi).scan = w.scan /\ Entered(w, cgi).login = w.login
         /\ Entered(w, cgi).open = w.open /\ Entered(w, cgi).stray = w.stray
  BY DEF Entered, Ready, Ctx, SlotRec

\* The eight entries of builtInUrls.
LEMMA Table ==
  /\ DOMAIN builtInUrls = 1 .. 8
  /\ builtInUrls[1].cgi = "cgiRedirect" /\ builtInUrls[1].urls = {"/"}
  /\ builtInUrls[2].cgi = "cgiSensor" /\ builtInUrls[2].urls = {"/sensors.cgi"}
  /\ builtInUrls[3].cgi = "authBasic" /\ builtInUrls[3].urls = AdminUrls
  /\ builtInUrls[4].cgi = "cgiRedirect" /\ builtInUrls[4].urls = {"/admin/"}
  /\ builtInUrls[5].cgi = "cgiBuildInfo" /\ builtInUrls[5].urls = {"/admin/buildinfo.cgi"}
  /\ builtInUrls[6].cgi = "cgiWiFiScan" /\ builtInUrls[6].urls = {"/admin/wifiscan.cgi"}
  /\ builtInUrls[7].cgi = "cgiForm" /\ builtInUrls[7].urls = {"/admin/form.cgi"}
  /\ builtInUrls[8].cgi = "cgiEspFsHook" /\ builtInUrls[8].urls = Urls
  BY DEF builtInUrls

\* What each entry of the table does when its handler is called for the first time.
LEMMA EntryCalls ==
  ASSUME NEW w, Ready(w), NEW r
  PROVE  /\ CallEntry(1, w, r) = Page(Entered(w, "cgiRedirect"), 302, "moved")
         /\ CallEntry(2, w, r) = Page(Entered(w, "cgiSensor"), 200, "values")
         /\ CallEntry(3, w, r) = IF r.auth = w.login THEN Returns(Entered(w, "authBasic"), "AUTHENTICATED")
                                 ELSE Page(Entered(w, "authBasic"), 401, "forbidden")
         /\ CallEntry(4, w, r) = Page(Entered(w, "cgiRedirect"), 302, "moved")
         /\ CallEntry(5, w, r) = Page(Entered(w, "cgiBuildInfo"), 200, "build")
         /\ CallEntry(6, w, r) = ScanHead(Entered(w, "cgiWiFiScan"))
         /\ CallEntry(7, w, r) = cgiForm(Entered(w, "cgiForm"), r)
         /\ CallEntry(8, w, r) = OpenFile(Entered(w, "cgiEspFsHook"), r)
<1> DEFINE v(cgi) == Entered(w, cgi)
<1>1. \A cgi \in Cgis : v(cgi).alive /\ v(cgi).s.cgiData = 0 /\ v(cgi).login = w.login
  BY EnteredFacts DEF Ready
<1>2. \A k : CallEntry(k, w, r) = Call(builtInUrls[k].cgi, v(builtInUrls[k].cgi), r)
  BY DEF CallEntry, Entered
<1> HIDE DEF v
<1>3. /\ Call("cgiRedirect", v("cgiRedirect"), r) = Page(v("cgiRedirect"), 302, "moved")
      /\ Call("cgiSensor", v("cgiSensor"), r) = Page(v("cgiSensor"), 200, "values")
  BY <1>1 DEF Call, cgiRedirect, cgiSensor, IfAlive, Cgis
<1>4. Call("authBasic", v("authBasic"), r) =
        IF r.auth = w.login THEN Returns(v("authBasic"), "AUTHENTICATED")
        ELSE Page(v("authBasic"), 401, "forbidden")
  BY <1>1 DEF Call, authBasic, myPassFn, IfAlive, Cgis
<1>5. /\ Call("cgiBuildInfo", v("cgiBuildInfo"), r) = Page(v("cgiBuildInfo"), 200, "build")
      /\ Call("cgiForm", v("cgiForm"), r) = cgiForm(v("cgiForm"), r)
  BY <1>1 DEF Call, cgiBuildInfo, IfAlive, Cgis
<1>6. Call("cgiWiFiScan", v("cgiWiFiScan"), r) = ScanHead(v("cgiWiFiScan"))
  BY <1>1 DEF Call, cgiWiFiScan, Cgis
<1>7. Call("cgiEspFsHook", v("cgiEspFsHook"), r) = OpenFile(v("cgiEspFsHook"), r)
  BY <1>1 DEF Call, cgiEspFsHook, Cgis
<1> QED
  BY <1>2, <1>3, <1>4, <1>5, <1>6, <1>7, Table DEF v

\* Page p of context v was sent, and the connection is marked for destruction.
PageSent(v, p, answer) ==
  LET ww == MarkForDestruction(xmitSendBuff(p))
  IN /\ p.r = "DONE"
     /\ Ready(ww) /\ ww.stray = v.stray /\ ww.packets = v.packets + 1
     /\ ww.s = [v.s EXCEPT !.cgi = "NULL"]
     /\ ww.sent = v.sent \o answer
     /\ ww.open = v.open /\ ww.scan = v.scan /\ ww.login = v.login

\* A page that is sent, after which the connection is marked for destruction.
LEMMA PageServed ==
  ASSUME NEW v, Ready(v), NEW code \in Codes, NEW word \in Words
  PROVE  PageSent(v, Page(v, code, word), Answer(code, word))
<1> DEFINE p == Page(v, code, word)
           x == xmitSendBuff(p)
<1>1. p = [v EXCEPT !.buff = Answer(code, word), !.r = "DONE"] /\ p \in Ctx
  BY PageFacts DEF Ready
<1>2. /\ p.alive /\ p.buff = Answer(code, word) /\ p.r = "DONE" /\ p.sent = v.sent
      /\ p.packets = v.packets /\ p.s = v.s /\ p.stray = v.stray /\ p.open = v.open
      /\ p.scan = v.scan /\ p.login = v.login
  BY <1>1 DEF Ready, Ctx
<1>3. Answer(code, word) # <<>>
  BY DEF Answer
<1> HIDE DEF p
<1>8. p \in Ctx
  BY <1>1
<1>4. x \in Ctx /\ x = [p EXCEPT !.sent = @ \o p.buff, !.packets = @ + 1, !.buff = <<>>]
  BY <1>1, <1>2, <1>3, XmitFacts
<1>5. /\ x.alive /\ x.buff = <<>> /\ x.sent = v.sent \o Answer(code, word)
      /\ x.packets = v.packets + 1 /\ x.s = v.s /\ x.stray = v.stray /\ x.open = v.open
      /\ x.scan = v.scan /\ x.login = v.login
  <2>1. p.sent \o p.buff = v.sent \o Answer(code, word)
    BY <1>2
  <2> QED
    BY <1>2, <1>4, <1>8, <2>1 DEF Ctx
<1>9. x \in Ctx
  BY <1>4
<1> HIDE DEF x
<1>6. /\ MarkForDestruction(x) = [x EXCEPT !.s.cgi = "NULL"] /\ MarkForDestruction(x) \in Ctx
  BY <1>4 DEF MarkForDestruction, Ctx, SlotRec, Cgis
<1>7. /\ MarkForDestruction(x).s = [v.s EXCEPT !.cgi = "NULL"]
      /\ MarkForDestruction(x).alive /\ MarkForDestruction(x).buff = <<>>
      /\ MarkForDestruction(x).sent = v.sent \o Answer(code, word)
      /\ MarkForDestruction(x).packets = v.packets + 1 /\ MarkForDestruction(x).stray = v.stray
      /\ MarkForDestruction(x).open = v.open
      /\ MarkForDestruction(x).scan = v.scan /\ MarkForDestruction(x).login = v.login
  BY <1>9, <1>5, <1>6 DEF Ctx
<1> QED
  BY <1>2, <1>6, <1>7 DEF PageSent, Ready, p, x

\* The same of the context before the entry of the table was called.
SendsPage(w, p, answer) ==
  /\ p.r = "DONE"
  /\ OnePacket(w, MarkForDestruction(xmitSendBuff(p)))
  /\ Replied(w, MarkForDestruction(xmitSendBuff(p)), answer)
  /\ MarkForDestruction(xmitSendBuff(p)).login = w.login

\* The same for a page of an entry of the table.
LEMMA EntryServed ==
  ASSUME NEW w, Ready(w), NEW cgi \in Cgis, NEW code \in Codes, NEW word \in Words
  PROVE  SendsPage(w, Page(Entered(w, cgi), code, word), Answer(code, word))
<1> DEFINE v == Entered(w, cgi)
           ww == MarkForDestruction(xmitSendBuff(Page(v, code, word)))
<1>1. Ready(v) /\ v.s = [w.s EXCEPT !.cgi = cgi, !.cgiData = 0] /\ v.sent = w.sent
      /\ v.packets = w.packets /\ v.scan = w.scan /\ v.login = w.login /\ v.open = w.open
      /\ v.stray = w.stray
  BY EnteredFacts
<1> HIDE DEF v
<1>2. /\ Page(v, code, word).r = "DONE"
      /\ Ready(ww) /\ ww.stray = v.stray /\ ww.packets = v.packets + 1
      /\ ww.s = [v.s EXCEPT !.cgi = "NULL"]
      /\ ww.sent = v.sent \o Answer(code, word)
      /\ ww.open = v.open /\ ww.scan = v.scan /\ ww.login = v.login
  <2>1. Ready(v)
    BY <1>1
  <2> QED
    <3>1. PageSent(v, Page(v, code, word), Answer(code, word))
      BY <2>1, PageServed
    <3> QED
      BY <3>1 DEF PageSent
<1> HIDE DEF ww
<1>3. ww.s = [w.s EXCEPT !.cgi = ww.s.cgi, !.cgiData = ww.s.cgiData] /\ ww.s.cgi = "NULL"
  <2>1. w.s \in SlotRec
    BY DEF Ready, Ctx
  <2>2. ww.s = [w.s EXCEPT !.cgi = "NULL", !.cgiData = 0]
    BY <1>1, <1>2, <2>1 DEF SlotRec
  <2>3. ww.s.cgi = "NULL" /\ ww.s.cgiData = 0
    BY <2>1, <2>2 DEF SlotRec
  <2> QED
    BY <2>2, <2>3
<1> QED
  BY <1>1, <1>2, <1>3 DEF Ready, Replied, SendsPage, OnePacket, v, ww

\* The first matching entry that does not pass the request on serves it.
LEMMA Served ==
  ASSUME NEW w, NEW r, w.s.url # "NULL", NEW k \in 1 .. 8, k \in Matching(r),
         CallEntry(k, w, r).r \in {"MORE", "DONE"},
         \A j \in Matching(r) : j < k => CallEntry(j, w, r).r \notin {"MORE", "DONE"}
  PROVE  httpdProcessRequest(w, r) =
           IF CallEntry(k, w, r).r = "MORE" THEN xmitSendBuff(CallEntry(k, w, r))
           ELSE MarkForDestruction(xmitSendBuff(CallEntry(k, w, r)))
<1> DEFINE takers == {j \in Matching(r) : CallEntry(j, w, r).r \in {"MORE", "DONE"}}
<1>1. k \in takers /\ \A j \in takers : j \in 1 .. 8 /\ k <= j
  BY Table DEF Matching
<1>2. Least(takers) = k
  BY <1>1 DEF Least
<1> HIDE DEF takers
<1>3. takers # {}
  BY <1>1
<1>4. httpdProcessRequest(w, r) =
        IF CallEntry(Least(takers), w, r).r = "MORE" THEN xmitSendBuff(CallEntry(Least(takers), w, r))
        ELSE MarkForDestruction(xmitSendBuff(CallEntry(Least(takers), w, r)))
  BY <1>3 DEF httpdProcessRequest, takers
<1> QED
  BY <1>2, <1>4

\* The file handler opened its file.
OpensFile(w, ww) ==
  /\ OnePacket(w, ww)
  /\ ww.sent = w.sent \o <<<<"status", 200>>>>
  /\ ww.s.cgi = "cgiEspFsHook" /\ ww.s.cgiData = 1
  /\ ww.open = w.open + 1 /\ ww.scan = w.scan /\ ww.login = w.login

\* The start of a file: its status is sent, its handler will be called again.
LEMMA FileOpened ==
  ASSUME NEW w, Ready(w), NEW r, FileName(r.url) \in DOMAIN Files
  PROVE  /\ OpenFile(Entered(w, "cgiEspFsHook"), r).r = "MORE"
         /\ OpensFile(w, xmitSendBuff(OpenFile(Entered(w, "cgiEspFsHook"), r)))
<1> DEFINE v == Entered(w, "cgiEspFsHook")
           item == <<"status", 200>>
           b == httpdSend(v, item)
           p == OpenFile(v, r)
           ww == xmitSendBuff(p)
<1>1. /\ Ready(v) /\ v.s = [w.s EXCEPT !.cgi = "cgiEspFsHook", !.cgiData = 0] /\ v.sent = w.sent
      /\ v.packets = w.packets /\ v.scan = w.scan /\ v.login = w.login /\ v.open = w.open
      /\ v.stray = w.stray
  BY EnteredFacts DEF Cgis
<1>2. item \in Item
  BY Items DEF Codes
<1>3. p = [b EXCEPT !.open = @ + 1, !.s.cgiData = 1, !.r = "MORE"]
  BY DEF OpenFile, Returns
<1> HIDE DEF v, item, p
<1>4. b = [v EXCEPT !.buff = <<item>>] /\ b \in Ctx
  <2>1. b = [v EXCEPT !.buff = Append(v.buff, item)] /\ b \in Ctx
    BY <1>1, <1>2, SendFacts DEF Ready
  <2>2. v.buff = <<>> /\ Append(<<>>, item) = <<item>>
    BY <1>1, <1>2, PairSeq DEF Ready
  <2> QED
    BY <2>1, <2>2
<1>5. /\ b.s = v.s /\ b.alive /\ b.buff = <<item>> /\ b.sent = v.sent /\ b.packets = v.packets
      /\ b.scan = v.scan /\ b.login = v.login /\ b.open = v.open /\ b.stray = v.stray
  BY <1>1, <1>4 DEF Ready, Ctx
<1>6. b \in Ctx
  BY <1>4
<1> HIDE DEF b
<1>7. /\ p.s = [w.s EXCEPT !.cgi = "cgiEspFsHook", !.cgiData = 1] /\ p.alive
      /\ p.buff = <<item>> /\ p.sent = w.sent
      /\ p.packets = w.packets /\ p.r = "MORE"
      /\ p.scan = w.scan /\ p.login = w.login /\ p.open = w.open + 1 /\ p.stray = w.stray
  <2>1. p.s = [v.s EXCEPT !.cgiData = 1]
    BY <1>3, <1>5, <1>6 DEF Ctx
  <2>2. p.s = [w.s EXCEPT !.cgi = "cgiEspFsHook", !.cgiData = 1]
    BY <2>1, <1>1, ZenonT(40) DEF Ready, Ctx, SlotRec
  <2> QED
    BY <1>1, <1>3, <1>5, <1>6, <2>2 DEF Ctx
<1>8. p \in Ctx
  <2>1. [b.s EXCEPT !.cgiData = 1] \in SlotRec /\ b.open + 1 \in Int
    <3> DEFINE bs == b.s
    <3>1. bs \in SlotRec /\ b.open \in Int
      BY <1>6 DEF Ctx
    <3> HIDE DEF bs
    <3>2. [bs EXCEPT !.cgiData = 1] \in SlotRec
      BY <3>1 DEF SlotRec
    <3> QED
      BY <3>1, <3>2 DEF bs
  <2> QED
    BY <1>3, <1>6, <2>1 DEF Ctx
<1>9. ww \in Ctx /\ ww = [p EXCEPT !.sent = @ \o p.buff, !.packets = @ + 1, !.buff = <<>>]
  <2>1. p.buff # <<>>
    BY <1>7
  <2> QED
    BY <1>7, <1>8, <2>1, XmitFacts
<1> HIDE DEF ww
<1>10. /\ ww.alive /\ ww.buff = <<>> /\ ww.sent = w.sent \o <<item>> /\ ww.packets = w.packets + 1
       /\ ww.s = p.s /\ ww.stray = w.stray /\ ww.open = w.open + 1
       /\ ww.scan = w.scan /\ ww.login = w.login
  <2>1. p.sent \o p.buff = w.sent \o <<item>>
    BY <1>7
  <2> QED
    BY <1>7, <1>8, <1>9, <2>1 DEF Ctx
<1>11. ww.s.cgi = "cgiEspFsHook" /\ ww.s.cgiData = 1
  BY <1>7, <1>10 DEF Ready, Ctx, SlotRec
<1> QED
  BY <1>7, <1>9, <1>10, <1>11 DEF OpensFile, OnePacket, p, v, ww, item

\* The listing handler sent the head of a listing.
OpensListing(w, ww) ==
  /\ OnePacket(w, ww)
  /\ ww.sent = w.sent \o Answer(200, "begin")
  /\ ww.s.cgi = "cgiWiFiScan" /\ ww.s.cgiData = 1
  /\ ww.open = w.open /\ ww.scan = w.scan /\ ww.login = w.login

\* The start of a listing, while no scan is in progress.
LEMMA ListingOpened ==
  ASSUME NEW w, Ready(w), ~w.scan.inProgress
  PROVE  /\ ScanHead(Entered(w, "cgiWiFiScan")).r = "MORE"
         /\ OpensListing(w, xmitSendBuff(ScanHead(Entered(w, "cgiWiFiScan"))))
<1> DEFINE v == Entered(w, "cgiWiFiScan")
           pg == Page(v, 200, "begin")
           p == ScanHead(v)
           ww == xmitSendBuff(p)
<1>1. /\ Ready(v) /\ v.s = [w.s EXCEPT !.cgi = "cgiWiFiScan", !.cgiData = 0] /\ v.sent = w.sent
      /\ v.packets = w.packets /\ v.scan = w.scan /\ v.login = w.login /\ v.open = w.open
      /\ v.stray = w.stray
  BY EnteredFacts DEF Cgis
<1> HIDE DEF v, pg
<1>2. pg = [v EXCEPT !.buff = Answer(200, "begin"), !.r = "DONE"] /\ pg \in Ctx
  <2>1. v \in Ctx /\ v.alive /\ v.buff = <<>> /\ 200 \in Codes /\ "begin" \in Words
    BY <1>1 DEF Ready, Codes, Words
  <2> QED
    BY <2>1, PageFacts DEF pg
<1>3. p = [pg EXCEPT !.s.cgiData = 1, !.r = "MORE"]
  <2> DEFINE a == httpdSend(v, <<"status", 200>>)
             b == httpdSend(a, <<"begin">>)
  <2>1. v \in Ctx /\ v.alive /\ ~v.scan.inProgress
    BY <1>1 DEF Ready
  <2>2. <<"status", 200>> \in Item /\ <<"begin">> \in Item
    BY Items DEF Codes, Words
  <2>3. a \in Ctx /\ a.alive
    <3> DEFINE x == <<"status", 200>>
    <3>1. x \in Item
      BY <2>2
    <3> HIDE DEF x
    <3>2. httpdSend(v, x) \in Ctx /\ httpdSend(v, x) = [v EXCEPT !.buff = Append(@, x)]
      BY <2>1, <3>1, SendFacts
    <3>3. httpdSend(v, x).alive
      BY <2>1, <3>2 DEF Ctx
    <3> QED
      BY <3>2, <3>3 DEF x
  <2>4. ~v.scan.inProgress => p = Returns([b EXCEPT !.s.cgiData = 1], "MORE")
    BY DEF ScanHead
  <2>5. pg = [b EXCEPT !.r = "DONE"]
    BY DEF Page, Returns, pg
  <2> HIDE DEF a, p, pg
  <2>6. b \in Ctx
    BY <2>2, <2>3, SendFacts
  <2> HIDE DEF b
  <2> QED
    BY <2>1, <2>4, <2>5, <2>6 DEF Returns, Ctx
<1>4. /\ pg.s = v.s /\ pg.alive /\ pg.buff = Answer(200, "begin") /\ pg.sent = v.sent
      /\ pg.packets = v.packets
      /\ pg.scan = v.scan /\ pg.login = v.login /\ pg.open = v.open /\ pg.stray = v.stray
  <2>1. v \in Ctx /\ v.alive
    BY <1>1 DEF Ready
  <2> QED
    BY <1>2, <2>1 DEF Ctx
<1>6. pg \in Ctx
  BY <1>2
<1> HIDE DEF pg, p
<1>7. /\ p.s = [w.s EXCEPT !.cgi = "cgiWiFiScan", !.cgiData = 1] /\ p.alive
      /\ p.buff = Answer(200, "begin") /\ p.sent = w.sent
      /\ p.packets = w.packets /\ p.r = "MORE"
      /\ p.scan = w.scan /\ p.login = w.login /\ p.open = w.open /\ p.stray = w.stray
  <2>1. p.s = [v.s EXCEPT !.cgiData = 1]
    BY <1>3, <1>4, <1>6 DEF Ctx
  <2>2. p.s = [w.s EXCEPT !.cgi = "cgiWiFiScan", !.cgiData = 1]
    BY <2>1, <1>1 DEF Ready, Ctx, SlotRec
  <2> QED
    BY <1>1, <1>3, <1>4, <1>6, <2>2 DEF Ctx
<1>8. p \in Ctx
  BY <1>3, <1>6 DEF Ctx, SlotRec
<1>9. ww \in Ctx /\ ww = [p EXCEPT !.sent = @ \o p.buff, !.packets = @ + 1, !.buff = <<>>]
  <2>1. p.buff # <<>>
    BY <1>7 DEF Answer
  <2> QED
    BY <1>7, <1>8, <2>1, XmitFacts
<1> HIDE DEF ww
<1>10. /\ ww.alive /\ ww.buff = <<>> /\ ww.sent = w.sent \o Answer(200, "begin")
       /\ ww.packets = w.packets + 1
       /\ ww.s = p.s /\ ww.stray = w.stray /\ ww.open = w.open
       /\ ww.scan = w.scan /\ ww.login = w.login
  <2>1. p.sent \o p.buff = w.sent \o Answer(200, "begin")
    BY <1>7
  <2> QED
    BY <1>7, <1>8, <1>9, <2>1 DEF Ctx
<1>11. ww.s.cgi = "cgiWiFiScan" /\ ww.s.cgiData = 1
  BY <1>7, <1>10 DEF Ready, Ctx, SlotRec
<1> QED
  BY <1>7, <1>9, <1>10, <1>11 DEF OpensListing, OnePacket, p, v, ww

\* Everything a request may be answered with, by the first entry that takes it.
LEMMA ProcessGives ==
  ASSUME NEW w, Ready(w), w.s.url # "NULL", NEW r, r.url \in Urls
  PROVE  Processed(w, r, httpdProcessRequest(w, r))
<1> DEFINE p(k) == CallEntry(k, w, r)
           took(k) == p(k).r \in {"MORE", "DONE"}
           ww == httpdProcessRequest(w, r)
<1> HIDE DEF p, ww
<1> SUFFICES Processed(w, r, ww)
  BY DEF ww
<1>c. /\ \A cgi \in {"cgiRedirect", "cgiSensor", "authBasic", "cgiBuildInfo", "cgiWiFiScan", "cgiForm", "cgiEspFsHook"} : cgi \in Cgis
      /\ 200 \in Codes /\ 302 \in Codes /\ 401 \in Codes /\ 404 \in Codes
      /\ \A word \in {"moved", "values", "build", "forbidden", "form", "notfound", "busy"} : word \in Words
  BY DEF Cgis, Codes, Words
<1>d. /\ p(1) = Page(Entered(w, "cgiRedirect"), 302, "moved")
      /\ p(2) = Page(Entered(w, "cgiSensor"), 200, "values")
      /\ p(3) = IF r.auth = w.login THEN Returns(Entered(w, "authBasic"), "AUTHENTICATED")
                ELSE Page(Entered(w, "authBasic"), 401, "forbidden")
      /\ p(4) = Page(Entered(w, "cgiRedirect"), 302, "moved")
      /\ p(5) = Page(Entered(w, "cgiBuildInfo"), 200, "build")
      /\ p(6) = ScanHead(Entered(w, "cgiWiFiScan"))
      /\ p(7) = cgiForm(Entered(w, "cgiForm"), r)
      /\ p(8) = OpenFile(Entered(w, "cgiEspFsHook"), r)
  BY EntryCalls DEF p
<1>e. ASSUME NEW cgi \in Cgis, NEW code \in Codes, NEW word \in Words
      PROVE  SendsPage(w, Page(Entered(w, cgi), code, word), Answer(code, word))
  BY EntryServed
<1>1. ASSUME NEW k \in 1 .. 8, k \in Matching(r), p(k).r = "DONE",
             \A j \in Matching(r) : j < k => ~took(j)
      PROVE  ww = MarkForDestruction(xmitSendBuff(p(k)))
  BY <1>1, Served DEF ww, p
<1>2. ASSUME NEW k \in 1 .. 8, k \in Matching(r), p(k).r = "MORE",
             \A j \in Matching(r) : j < k => ~took(j)
      PROVE  ww = xmitSendBuff(p(k))
  BY <1>2, Served DEF ww, p
<1>3. \A k \in 1 .. 8 : k \in Matching(r) <=> r.url \in builtInUrls[k].urls
  BY Table DEF Matching
<1>4. Matching(r) \subseteq 1 .. 8
  BY Table DEF Matching
<1>5. r.auth = w.login => ~took(3)
  <2>1. Entered(w, "authBasic") \in Ctx
    BY EnteredFacts DEF Ready, Cgis
  <2>2. r.auth = w.login => p(3).r = "AUTHENTICATED"
    BY <2>1, <1>d DEF Returns, Ctx
  <2> QED
    BY <2>2
<1>6. CASE ~Accepted(w, r)
  <2>1. r.url \in AdminUrls /\ r.auth # w.login
    BY <1>6 DEF Accepted
  <2>2. 3 \in Matching(r) /\ 1 \notin Matching(r) /\ 2 \notin Matching(r)
    BY <1>3, <2>1, Table DEF AdminUrls
  <2>3. p(3) = Page(Entered(w, "authBasic"), 401, "forbidden")
    BY <2>1, <1>d
  <2>5. SendsPage(w, p(3), Answer(401, "forbidden"))
    BY <2>3, <1>c, <1>e
  <2>4. ww = MarkForDestruction(xmitSendBuff(p(3)))
    <3>1. p(3).r = "DONE"
      BY <2>5 DEF SendsPage
    <3>2. \A j \in Matching(r) : j < 3 => ~took(j)
      BY <1>4, <2>2
    <3> QED
      BY <1>1, <2>2, <3>1, <3>2
  <2> QED
    BY <1>6, <2>4, <2>5 DEF Processed, Refused, SendsPage
<1>7. CASE Accepted(w, r)
  <2>1. r.url \in AdminUrls => ~took(3)
    BY <1>5, <1>7 DEF Accepted
  <2>2. ASSUME NEW k \in {1, 2, 4, 5}, NEW cgi \in Cgis, NEW code \in Codes, NEW word \in Words,
               k \in Matching(r), \A j \in Matching(r) : j < k => ~took(j),
               p(k) = Page(Entered(w, cgi), code, word),
               Answer(code, word) \in PlainAnswers(r)
        PROVE  Processed(w, r, ww)
    <3>1. SendsPage(w, p(k), Answer(code, word))
      BY <2>2, <1>e
    <3>2. ww = MarkForDestruction(xmitSendBuff(p(k)))
      BY <1>1, <2>2, <3>1 DEF SendsPage
    <3> QED
      BY <1>7, <2>2, <3>1, <3>2 DEF Processed, Answered, SendsPage
  <2>3. CASE r.url = "/"
    <3>1. 1 \in Matching(r)
      BY <1>3, <2>3, Table
    <3>2. Answer(302, "moved") \in PlainAnswers(r)
      BY <2>3 DEF PlainAnswers
    <3> QED
      BY <1>4, <1>c, <1>d, <2>2, <3>1, <3>2
  <2>4. CASE r.url = "/sensors.cgi"
    <3>1. 2 \in Matching(r) /\ 1 \notin Matching(r)
      BY <1>3, <2>4, Table
    <3>2. Answer(200, "values") \in PlainAnswers(r)
      BY <2>4 DEF PlainAnswers
    <3> QED
      BY <1>4, <1>c, <1>d, <2>2, <3>1, <3>2
  <2>5. CASE r.url = "/admin/"
    <3>1. 4 \in Matching(r) /\ 1 \notin Matching(r) /\ 2 \notin Matching(r)
      BY <1>3, <2>5, Table
    <3>2. Answer(302, "moved") \in PlainAnswers(r)
      BY <2>5 DEF PlainAnswers
    <3>3. \A j \in Matching(r) : j < 4 => ~took(j)
      BY <1>4, <2>1, <2>5, <3>1 DEF AdminUrls
    <3> QED
      BY <1>c, <1>d, <2>2, <3>1, <3>2, <3>3
  <2>6. CASE r.url = "/admin/buildinfo.cgi"
    <3>1. 5 \in Matching(r) /\ \A j \in {1, 2, 4} : j \notin Matching(r)
      BY <1>3, <2>6, Table
    <3>2. Answer(200, "build") \in PlainAnswers(r)
      BY <2>6 DEF PlainAnswers
    <3>3. \A j \in Matching(r) : j < 5 => ~took(j)
      BY <1>4, <2>1, <2>6, <3>1 DEF AdminUrls
    <3> QED
      BY <1>c, <1>d, <2>2, <3>1, <3>2, <3>3
  <2>7. CASE r.url = "/admin/wifiscan.cgi"
    <3>1. 6 \in Matching(r) /\ \A j \in {1, 2, 4, 5} : j \notin Matching(r)
      BY <1>3, <2>7, Table
    <3>2. \A j \in Matching(r) : j < 6 => ~took(j)
      BY <1>4, <2>1, <2>7, <3>1 DEF AdminUrls
    <3>3. CASE w.scan.inProgress
      <4>1. p(6) = Page(Entered(w, "cgiWiFiScan"), 200, "busy")
        <5>1. Entered(w, "cgiWiFiScan").scan.inProgress
          BY <1>c, <3>3, EnteredFacts
        <5> QED
          BY <1>d, <5>1 DEF ScanHead, Page
      <4>2. SendsPage(w, p(6), Answer(200, "busy"))
        BY <1>c, <1>e, <4>1
      <4>3. ww = MarkForDestruction(xmitSendBuff(p(6)))
        BY <1>1, <3>1, <3>2, <4>2 DEF SendsPage
      <4> QED
        BY <1>7, <2>7, <3>3, <4>2, <4>3 DEF Processed, ListingBusy, SendsPage
    <3>4. CASE ~w.scan.inProgress
      <4>1. p(6).r = "MORE" /\ OpensListing(w, xmitSendBuff(p(6)))
        BY <1>d, <3>4, ListingOpened
      <4>2. ww = xmitSendBuff(p(6))
        BY <1>2, <3>1, <3>2, <4>1
      <4> QED
        BY <1>7, <2>7, <3>4, <4>1, <4>2 DEF Processed, ListingBegun, OpensListing
    <3> QED
      BY <3>3, <3>4
  <2>8. CASE r.url = "/admin/form.cgi"
    <3>1. 7 \in Matching(r) /\ \A j \in {1, 2, 4, 5, 6} : j \notin Matching(r)
      BY <1>3, <2>8, Table
    <3>2. \A j \in Matching(r) : j < 7 => ~took(j)
      BY <1>4, <2>1, <2>8, <3>1 DEF AdminUrls
    <3> DEFINE v == Entered(w, "cgiForm")
               vv == IF r.login \in Logins THEN [v EXCEPT !.login = r.login] ELSE v
    <3>3. /\ Ready(v) /\ v.s = [w.s EXCEPT !.cgi = "cgiForm", !.cgiData = 0] /\ v.sent = w.sent
          /\ v.packets = w.packets /\ v.scan = w.scan /\ v.open = w.open /\ v.stray = w.stray
      BY EnteredFacts DEF Cgis
    <3>4. p(7) = Page(vv, 200, "form")
      BY <3>3, <1>d DEF cgiForm, IfAlive, Ready
    <3> HIDE DEF v
    <3>5. /\ Ready(vv) /\ vv.s = v.s /\ vv.sent = w.sent
          /\ vv.packets = w.packets /\ vv.scan = w.scan /\ vv.open = w.open /\ vv.stray = w.stray
      BY <3>3 DEF Ready, Ctx
    <3> HIDE DEF vv
    <3>6. 200 \in Codes /\ "form" \in Words
      BY DEF Codes, Words
    <3>11. PageSent(vv, Page(vv, 200, "form"), Answer(200, "form"))
      <4>1. Ready(vv)
        BY <3>5
      <4> QED
        BY <3>6, <4>1, PageServed
    <3>7. p(7).r = "DONE"
      BY <3>4, <3>11 DEF PageSent
    <3>8. ww = MarkForDestruction(xmitSendBuff(p(7)))
      BY <1>1, <3>1, <3>2, <3>7
    <3>9. /\ Ready(ww) /\ ww.stray = w.stray /\ ww.packets = w.packets + 1
          /\ ww.s = [v.s EXCEPT !.cgi = "NULL"]
          /\ ww.sent = w.sent \o Answer(200, "form")
          /\ ww.open = w.open /\ ww.scan = w.scan
      BY <3>4, <3>5, <3>8, <3>11 DEF PageSent
    <3>10. ww.s = [w.s EXCEPT !.cgi = ww.s.cgi, !.cgiData = ww.s.cgiData] /\ ww.s.cgi = "NULL"
      <4>1. w.s \in SlotRec
        BY DEF Ready, Ctx
      <4>2. ww.s = [w.s EXCEPT !.cgi = "NULL", !.cgiData = 0]
        BY <3>3, <3>9, <4>1 DEF SlotRec
      <4>3. ww.s.cgi = "NULL" /\ ww.s.cgiData = 0
        BY <4>1, <4>2 DEF SlotRec
      <4> QED
        BY <4>2, <4>3
    <3>12. OnePacket(w, ww)
      BY <3>9, <3>10 DEF OnePacket, Ready
    <3>13. FormTaken(w, r, ww)
      BY <1>7, <2>8, <3>9, <3>10 DEF FormTaken, Replied
    <3> QED
      BY <3>12, <3>13 DEF Processed
  <2>9. CASE r.url \in {"/index.html", "/admin/index.html", "//admin/index.html", "/admin/missing", "/missing"}
    <3>1. 8 \in Matching(r) /\ \A j \in {1, 2, 4, 5, 6, 7} : j \notin Matching(r)
      BY <1>3, <2>9, Table
    <3>2. \A j \in Matching(r) : j < 8 => ~took(j)
      <4>1. 3 \in Matching(r) => r.url \in AdminUrls
        BY <1>3, Table
      <4> QED
        BY <1>4, <2>1, <3>1, <4>1
    <3>3. CASE FileName(r.url) \in DOMAIN Files
      <4>1. p(8).r = "MORE" /\ OpensFile(w, xmitSendBuff(p(8)))
        BY <1>d, <3>3, FileOpened
      <4>2. ww = xmitSendBuff(p(8))
        BY <1>2, <3>1, <3>2, <4>1
      <4> QED
        BY <1>7, <2>9, <3>3, <4>1, <4>2 DEF Processed, FileBegun, OpensFile
    <3>4. CASE FileName(r.url) \notin DOMAIN Files
      <4>1. ~took(8)
        <5>1. p(8) = Returns(Entered(w, "cgiEspFsHook"), "NOTFOUND")
          BY <3>4, <1>d DEF OpenFile
        <5>2. Entered(w, "cgiEspFsHook") \in Ctx
          BY EnteredFacts DEF Ready, Cgis
        <5> QED
          BY <5>1, <5>2 DEF Returns, Ctx
      <4>2. {k \in Matching(r) : took(k)} = {}
        BY <1>4, <3>2, <4>1
      <4>3. ww = MarkForDestruction(xmitSendBuff(Page(w, 404, "notfound")))
        BY <4>2 DEF httpdProcessRequest, ww, p
      <4>4. Answer(404, "notfound") \in PlainAnswers(r)
        BY <2>9, <3>4 DEF PlainAnswers
      <4>5. 404 \in Codes /\ "notfound" \in Words
        BY DEF Codes, Words
      <4>6. /\ Ready(ww) /\ ww.stray = w.stray /\ ww.packets = w.packets + 1
            /\ ww.s = [w.s EXCEPT !.cgi = "NULL"]
            /\ ww.sent = w.sent \o Answer(404, "notfound")
            /\ ww.open = w.open /\ ww.scan = w.scan /\ ww.login = w.login
        <5>1. PageSent(w, Page(w, 404, "notfound"), Answer(404, "notfound"))
          BY <4>5, PageServed
        <5> QED
          BY <4>3, <5>1 DEF PageSent
      <4>7. ww.s = [w.s EXCEPT !.cgi = ww.s.cgi, !.cgiData = ww.s.cgiData] /\ ww.s.cgi = "NULL"
        <5>1. w.s \in SlotRec
          BY DEF Ready, Ctx
        <5>2. ww.s.cgi = "NULL" /\ ww.s.cgiData = w.s.cgiData
          BY <4>6, <5>1 DEF SlotRec
        <5> QED
          BY <4>6, <5>1, <5>2 DEF SlotRec
      <4>8. OnePacket(w, ww)
        BY <4>6, <4>7 DEF OnePacket, Ready
      <4>9. Answered(w, r, ww)
        BY <1>7, <4>4, <4>6, <4>7 DEF Answered, Replied
      <4> QED
        BY <4>8, <4>9 DEF Processed
    <3> QED
      BY <3>3, <3>4
  <2> QED
    BY <2>3, <2>4, <2>5, <2>6, <2>7, <2>8, <2>9 DEF Urls, AdminUrls
<1> QED
  BY <1>6, <1>7 DEF ww

-----------------------------------------------------------------------------
(* The handlers that are called again *)

\* Where the handler of request r stands: a file has been read up to a multiple of
\* the piece, a listing stands at an entry.
HandlerOK(s, r) ==
  /\ s.cgi \in {"NULL", "cgiWiFiScan", "cgiEspFsHook"}
  /\ s.cgi = "cgiWiFiScan" => s.cgiData >= 1 /\ r.url = "/admin/wifiscan.cgi"
  /\ s.cgi = "cgiEspFsHook" =>
       /\ FileName(r.url) \in DOMAIN Files /\ s.cgiData >= 1 /\ s.cgiData - 1 <= Files[FileName(r.url)]
       /\ \E m \in Nat : s.cgiData = m * PieceLen + 1

\* What a sent callback makes of the context.
CalledAgain(w, r) ==
  LET called == Call(w.s.cgi, w, r)
  IN xmitSendBuff(IF called.r = "MORE" THEN called ELSE MarkForDestruction(called))

\* What a sent callback sent: at most one packet.
Advanced(w, ww, packet) ==
  /\ ww \in Ctx /\ ww.alive /\ ww.buff = <<>> /\ ww.stray = w.stray /\ ww.login = w.login
  /\ ww.sent = w.sent \o packet
  /\ ww.packets = w.packets + (IF packet = <<>> THEN 0 ELSE 1)
  /\ ww.s = [w.s EXCEPT !.cgi = ww.s.cgi, !.cgiData = ww.s.cgiData]

\* The five ways a handler goes on: the next full piece of a file,
PieceSent(w, r, ww) ==
  /\ w.s.cgi = "cgiEspFsHook" /\ Files[FileName(r.url)] >= w.s.cgiData - 1 + PieceLen
  /\ Advanced(w, ww, <<<<"piece", w.s.cgiData - 1 + PieceLen>>>>)
  /\ ww.s.cgi = w.s.cgi /\ ww.s.cgiData = w.s.cgiData + PieceLen
  /\ ww.open = w.open /\ ww.scan = w.scan

\* the rest of a file, if there is one, and its end,
FileEnded(w, r, ww) ==
  /\ w.s.cgi = "cgiEspFsHook" /\ Files[FileName(r.url)] < w.s.cgiData - 1 + PieceLen
  /\ Advanced(w, ww, IF Files[FileName(r.url)] = w.s.cgiData - 1 THEN <<>> ELSE <<<<"piece", Files[FileName(r.url)]>>>>)
  /\ ww.s.cgi = "NULL"
  /\ ww.open = w.open - 1 /\ ww.scan = w.scan

\* the next entry of a listing,
EntrySent(w, ww) ==
  /\ w.s.cgi = "cgiWiFiScan" /\ ~w.scan.inProgress /\ w.s.cgiData < w.scan.n
  /\ Advanced(w, ww, <<<<"ap", w.scan.result, w.s.cgiData>>>>)
  /\ ww.s.cgi = w.s.cgi /\ ww.s.cgiData = w.s.cgiData + 1
  /\ ww.open = w.open /\ ww.scan = w.scan

\* the last entry, if it is still there, and the end of the listing, which starts a scan,
ListingEnded(w, ww) ==
  /\ w.s.cgi = "cgiWiFiScan" /\ ~w.scan.inProgress /\ w.s.cgiData >= w.scan.n
  /\ Advanced(w, ww, (IF w.s.cgiData - 1 < w.scan.n THEN <<<<"ap", w.scan.result, w.s.cgiData>>>>
                      ELSE <<>>) \o <<<<"end", w.scan.result, w.scan.n>>>>)
  /\ ww.s.cgi = "NULL"
  /\ ww.open = w.open /\ ww.scan = [w.scan EXCEPT !.inProgress = TRUE]

\* and the end of a listing because another one started a scan.
ListingBroken(w, ww) ==
  /\ w.s.cgi = "cgiWiFiScan" /\ w.scan.inProgress
  /\ Advanced(w, ww, Answer(200, "busy"))
  /\ ww.s.cgi = "NULL"
  /\ ww.open = w.open /\ ww.scan = w.scan

\* What httpdSentCb makes of context w for request r when a handler is at work.
Continued(w, r, ww) ==
  \/ PieceSent(w, r, ww) \/ FileEnded(w, r, ww)
  \/ EntrySent(w, ww) \/ ListingEnded(w, ww) \/ ListingBroken(w, ww)

\* The lesser of two integers.
LEMMA LeastOfTwo ==
  ASSUME NEW a \in Int, NEW b \in Int
  PROVE  /\ a <= b => Least({a, b}) = a
         /\ b <= a => Least({a, b}) = b
<1>1. a <= b => a \in {a, b} /\ \A y \in {a, b} : a <= y
  OBVIOUS
<1>2. b <= a => b \in {a, b} /\ \A y \in {a, b} : b <= y
  OBVIOUS
<1>3. \A x, y \in {a, b} : x <= y /\ y <= x => x = y
  OBVIOUS
<1> QED
  BY <1>1, <1>2, <1>3 DEF Least

\* espconn_sent gives one packet to the SDK.
LEMMA SentFacts ==
  ASSUME NEW w \in Ctx, w.alive, NEW packet \in Seq(Item)
  PROVE  /\ Sent(w, packet) = [w EXCEPT !.sent = @ \o packet, !.packets = @ + 1]
         /\ Sent(w, packet) \in Ctx
<1>1. w.sent \o packet \in Seq(Item) /\ w.packets + 1 \in Nat
  BY DEF Ctx
<1> QED
  BY <1>1 DEF Sent, Ctx

\* A connection marked for destruction has no handler; nothing else changes.
LEMMA MarkFacts ==
  ASSUME NEW w \in Ctx
  PROVE  /\ MarkForDestruction(w) \in Ctx
         /\ MarkForDestruction(w) = [w EXCEPT !.s.cgi = "NULL"]
         /\ MarkForDestruction(w).s = [w.s EXCEPT !.cgi = "NULL"]
         /\ MarkForDestruction(w).s.cgi = "NULL"
  BY DEF MarkForDestruction, Ctx, SlotRec, Cgis

\* A file goes on piece by piece; what is less than a piece ends it.
LEMMA FileContinues ==
  ASSUME NEW w, Ready(w), NEW r, HandlerOK(w.s, r), w.s.cgi = "cgiEspFsHook"
  PROVE  PieceSent(w, r, CalledAgain(w, r)) \/ FileEnded(w, r, CalledAgain(w, r))
<1> DEFINE pos == w.s.cgiData - 1
           n == PieceAt(r, pos)
           v == IF n > 0 THEN Sent(w, <<<<"piece", pos + n>>>>) ELSE w
           vv == [v EXCEPT !.s.cgiData = @ + n]
           ww == CalledAgain(w, r)
           F == Files[FileName(r.url)]
           data == w.s.cgiData
<1>1. /\ data \in Nat \ {0} /\ F \in Nat /\ data - 1 <= F /\ PieceLen \in Nat \ {0}
      /\ w \in Ctx /\ w.alive /\ w.buff = <<>>
  BY LengthsAssumption DEF HandlerOK, Ready, Ctx, SlotRec
<1>2. n = Least({PieceLen, F - (data - 1)})
  BY DEF PieceAt
<1>3. Call(w.s.cgi, w, r) = SendPiece(w, r)
  BY <1>1 DEF Call, cgiEspFsHook
<1>4. SendPiece(w, r) = IF n # PieceLen THEN Returns(CloseFile(vv), "DONE") ELSE Returns(vv, "MORE")
  BY DEF SendPiece
<1>5. n \in Nat /\ pos + n \in Nat
      /\ (F >= pos + PieceLen => n = PieceLen) /\ (F < pos + PieceLen => n = F - pos)
  <2> DEFINE d == F - pos
  <2>1. d \in Nat /\ PieceLen \in Nat \ {0}
    BY <1>1
  <2>2. n = Least({PieceLen, d})
    BY <1>2
  <2> HIDE DEF d, n
  <2>3. (PieceLen <= d => n = PieceLen) /\ (d <= PieceLen => n = d)
    BY <2>1, <2>2, LeastOfTwo
  <2>4. d = F - pos /\ pos \in Nat
    BY <1>1 DEF d
  <2> HIDE DEF pos, F
  <2> QED
    BY <1>1, <2>1, <2>3, <2>4
<1>6. ww = xmitSendBuff(IF SendPiece(w, r).r = "MORE" THEN SendPiece(w, r)
                        ELSE MarkForDestruction(SendPiece(w, r)))
  BY <1>3 DEF CalledAgain
<1> HIDE DEF n
<1> DEFINE packet == IF n > 0 THEN <<<<"piece", pos + n>>>> ELSE <<>>
<1>7. /\ v \in Ctx /\ v.alive /\ v.buff = <<>> /\ v.s = w.s /\ v.sent = w.sent \o packet
      /\ v.packets = w.packets + (IF packet = <<>> THEN 0 ELSE 1)
      /\ v.scan = w.scan /\ v.login = w.login /\ v.open = w.open /\ v.stray = w.stray
  <2>1. w.sent \in Seq(Item) /\ w.packets \in Nat
    BY <1>1 DEF Ctx
  <2>2. CASE n > 0
    <3> DEFINE item == <<"piece", pos + n>>
    <3>1. item \in Item
      BY <1>5, Items
    <3> HIDE DEF item
    <3>2. <<item>> \in Seq(Item) /\ <<item>> # <<>>
      BY <3>1
    <3>3. Sent(w, <<item>>) = [w EXCEPT !.sent = @ \o <<item>>, !.packets = @ + 1] /\ Sent(w, <<item>>) \in Ctx
      BY <1>1, <3>2, SentFacts
    <3>4. v = Sent(w, <<item>>) /\ packet = <<item>>
      BY <2>2 DEF item
    <3> HIDE DEF v, packet
    <3> QED
      BY <1>1, <3>2, <3>3, <3>4 DEF Ctx
  <2>3. CASE ~(n > 0)
    <3>1. v = w /\ packet = <<>> /\ w.sent \o <<>> = w.sent
      BY <2>1, <2>3
    <3> HIDE DEF v, packet
    <3> QED
      BY <1>1, <2>1, <3>1
  <2> QED
    BY <2>2, <2>3
<1> HIDE DEF v
<1>8. /\ vv \in Ctx /\ vv.alive /\ vv.buff = <<>> /\ vv.s = [w.s EXCEPT !.cgiData = @ + n]
      /\ vv.sent = v.sent /\ vv.packets = v.packets
      /\ vv.scan = w.scan /\ vv.login = w.login /\ vv.open = w.open /\ vv.stray = w.stray
  <2> DEFINE s == w.s
  <2>1. s \in SlotRec
    BY <1>1 DEF Ctx
  <2>2. vv = [v EXCEPT !.s = [s EXCEPT !.cgiData = @ + n]]
    BY <1>7
  <2>3. [s EXCEPT !.cgiData = @ + n] \in SlotRec
    <3> HIDE DEF s
    <3> QED
      BY <1>5, <2>1 DEF SlotRec
  <2> HIDE DEF s, vv
  <2> QED
    BY <1>7, <2>2, <2>3 DEF Ctx, s
<1>9. vv.s.cgi = w.s.cgi /\ vv.s.cgiData = data + n
  <2>1. w.s \in SlotRec
    BY <1>1 DEF Ctx
  <2> QED
    BY <1>8, <2>1 DEF SlotRec
<1> HIDE DEF vv
<1>10. CASE F >= pos + PieceLen
  <2>1. n = PieceLen /\ n > 0
    BY <1>1, <1>5, <1>10
  <2>2. SendPiece(w, r) = [vv EXCEPT !.r = "MORE"]
    BY <1>4, <2>1 DEF Returns
  <2> DEFINE x == [vv EXCEPT !.r = "MORE"]
  <2>3. /\ x \in Ctx /\ x.r = "MORE" /\ x.alive /\ x.buff = <<>> /\ x.s = vv.s
        /\ x.sent = vv.sent /\ x.packets = vv.packets
        /\ x.scan = w.scan /\ x.login = w.login /\ x.open = w.open /\ x.stray = w.stray
    BY <1>8 DEF Ctx
  <2>4. ww = xmitSendBuff(x)
    BY <1>6, <2>2, <2>3
  <2> HIDE DEF x, ww
  <2>5. ww = x
    BY <2>3, <2>4, XmitFacts
  <2>6. packet = <<<<"piece", w.s.cgiData - 1 + PieceLen>>>>
    BY <2>1
  <2>7. x.s = [w.s EXCEPT !.cgi = x.s.cgi, !.cgiData = x.s.cgiData]
    <3>1. w.s \in SlotRec
      BY <1>1 DEF Ctx
    <3> QED
      BY <1>8, <1>9, <2>3, <3>1 DEF SlotRec
  <2>8. Advanced(w, ww, packet)
    BY <1>7, <1>8, <2>3, <2>5, <2>7 DEF Advanced
  <2>9. ww.s.cgi = w.s.cgi /\ ww.s.cgiData = w.s.cgiData + PieceLen /\ ww.open = w.open /\ ww.scan = w.scan
    BY <1>9, <2>1, <2>3, <2>5
  <2> HIDE DEF packet
  <2>10. Advanced(w, ww, <<<<"piece", w.s.cgiData - 1 + PieceLen>>>>)
    BY <2>6, <2>8
  <2>11. PieceSent(w, r, ww)
    BY <1>10, <2>9, <2>10 DEF PieceSent
  <2> QED
    BY <2>11 DEF ww
<1>11. CASE F < pos + PieceLen
  <2>1. n # PieceLen /\ n = F - pos
    BY <1>1, <1>5, <1>11
  <2> DEFINE x == [vv EXCEPT !.open = @ - 1, !.r = "DONE"]
             y == MarkForDestruction(x)
  <2>2. SendPiece(w, r) = x
    BY <1>4, <2>1 DEF Returns, CloseFile
  <2>3. /\ x \in Ctx /\ x.r = "DONE" /\ x.alive /\ x.buff = <<>> /\ x.s = vv.s
        /\ x.sent = vv.sent /\ x.packets = vv.packets
        /\ x.scan = w.scan /\ x.login = w.login /\ x.open = w.open - 1 /\ x.stray = w.stray
    <3>1. vv.open \in Int /\ vv.open - 1 \in Int
      BY <1>8 DEF Ctx
    <3>2. vv \in Ctx
      BY <1>8
    <3>3. x \in Ctx /\ x.r = "DONE" /\ x.alive = vv.alive /\ x.buff = vv.buff /\ x.s = vv.s
          /\ x.sent = vv.sent /\ x.packets = vv.packets
          /\ x.scan = vv.scan /\ x.login = vv.login /\ x.open = vv.open - 1 /\ x.stray = vv.stray
      BY <3>1, <3>2 DEF Ctx
    <3> HIDE DEF x
    <3> QED
      BY <1>8, <3>3
  <2>4. ww = xmitSendBuff(y)
    BY <1>6, <2>2, <2>3
  <2> HIDE DEF x, ww
  <2>5. /\ y \in Ctx /\ y.s = [x.s EXCEPT !.cgi = "NULL"] /\ y.s.cgi = "NULL"
        /\ y = [x EXCEPT !.s.cgi = "NULL"]
    BY <2>3, MarkFacts
  <2>6. /\ y.alive /\ y.buff = <<>> /\ y.sent = vv.sent /\ y.packets = vv.packets
        /\ y.scan = w.scan /\ y.login = w.login /\ y.open = w.open - 1 /\ y.stray = w.stray
    BY <2>3, <2>5 DEF Ctx
  <2> HIDE DEF y
  <2>7. ww = y
    BY <2>4, <2>5, <2>6, XmitFacts
  <2>8. packet = IF F = data - 1 THEN <<>> ELSE <<<<"piece", F>>>>
    <3>1. pos + n = F /\ (n > 0 <=> F # pos)
      BY <1>1, <1>5, <2>1
    <3> HIDE DEF n, F, pos
    <3>2. packet = IF F = pos THEN <<>> ELSE <<<<"piece", F>>>>
      BY <3>1 DEF packet
    <3> QED
      BY <3>2 DEF pos
  <2>9. y.s = [w.s EXCEPT !.cgi = y.s.cgi, !.cgiData = y.s.cgiData]
    <3>1. w.s \in SlotRec
      BY <1>1 DEF Ctx
    <3>2. y.s.cgiData = vv.s.cgiData
      BY <1>8, <2>3, <2>5 DEF Ctx, SlotRec
    <3> QED
      <4>1. y.s = [w.s EXCEPT !.cgi = "NULL", !.cgiData = @ + n] /\ y.s.cgiData = w.s.cgiData + n
        <5> DEFINE bs == w.s
        <5>1. bs \in SlotRec /\ y.s = [[bs EXCEPT !.cgiData = @ + n] EXCEPT !.cgi = "NULL"]
          BY <1>8, <2>3, <2>5, <3>1
        <5>2. y.s.cgiData = bs.cgiData + n
          BY <1>9, <3>2
        <5> HIDE DEF bs
        <5>3. y.s = [bs EXCEPT !.cgi = "NULL", !.cgiData = @ + n]
          BY <5>1 DEF SlotRec
        <5> QED
          BY <5>2, <5>3 DEF bs
      <4> QED
        BY <2>5, <3>1, <4>1 DEF SlotRec
  <2>10. Advanced(w, ww, packet)
    BY <1>7, <1>8, <2>5, <2>6, <2>7, <2>9 DEF Advanced
  <2> HIDE DEF packet
  <2>11. FileEnded(w, r, ww)
    BY <1>11, <2>5, <2>6, <2>7, <2>8, <2>10 DEF FileEnded
  <2> QED
    BY <2>11 DEF ww
<1> QED
  BY <1>1, <1>10, <1>11

\* The entry a listing stands at, if there is one, in the send buffer.
LEMMA EntrySends ==
  ASSUME NEW w, Ready(w), NEW item \in Item, NEW some \in BOOLEAN
  PROVE  LET v == IF some THEN httpdSend(w, item) ELSE w
         IN /\ v \in Ctx /\ v.alive /\ v.buff = IF some THEN <<item>> ELSE <<>>
            /\ v.s = w.s /\ v.sent = w.sent /\ v.packets = w.packets
            /\ v.scan = w.scan /\ v.login = w.login /\ v.open = w.open /\ v.stray = w.stray
<1>1. w \in Ctx /\ w.alive /\ w.buff = <<>>
  BY DEF Ready
<1>2. httpdSend(w, item) = [w EXCEPT !.buff = Append(@, item)] /\ httpdSend(w, item) \in Ctx
  BY <1>1, SendFacts
<1>3. Append(w.buff, item) = <<item>>
  BY <1>1, PairSeq
<1>4. httpdSend(w, item).buff = <<item>>
  BY <1>1, <1>2, <1>3 DEF Ctx
<1> QED
  BY <1>1, <1>2, <1>4 DEF Ctx

\* A listing goes on entry by entry, and its end starts the next scan; if a scan is
\* in progress, it is told so and ends.
LEMMA ListingContinues ==
  ASSUME NEW w, Ready(w), NEW r, HandlerOK(w.s, r), w.s.cgi = "cgiWiFiScan"
  PROVE  LET ww == CalledAgain(w, r)
         IN EntrySent(w, ww) \/ ListingEnded(w, ww) \/ ListingBroken(w, ww)
<1> DEFINE pos == w.s.cgiData
           item == <<"ap", w.scan.result, pos>>
           end == <<"end", w.scan.result, w.scan.n>>
           v == IF pos - 1 < w.scan.n THEN httpdSend(w, item) ELSE w
           ww == CalledAgain(w, r)
<1>1. /\ pos \in Nat \ {0} /\ w.scan.result \in {0, 1} /\ w.scan.n \in Nat
      /\ w \in Ctx /\ w.alive /\ w.buff = <<>> /\ w.s \in SlotRec /\ w.scan \in ScanRec
      /\ w.sent \in Seq(Item) /\ w.packets \in Nat
  <2>1. w \in Ctx /\ w.alive /\ w.buff = <<>>
    BY DEF Ready
  <2>2. w.s \in SlotRec /\ w.scan \in ScanRec /\ w.sent \in Seq(Item) /\ w.packets \in Nat
    BY <2>1 DEF Ctx
  <2>3. pos \in Nat /\ pos >= 1
    BY <2>2 DEF HandlerOK, SlotRec
  <2>4. w.scan.result \in {0, 1} /\ w.scan.n \in ApCounts \cup {0}
    BY <2>2 DEF ScanRec
  <2>5. w.scan.n \in Nat
    BY <2>4, CountsAreNat
  <2> QED
    BY <2>1, <2>2, <2>3, <2>4, <2>5
<1>2. item \in Item /\ end \in Item
  BY <1>1, Items
<1>3. Call(w.s.cgi, w, r) = IF ~w.scan.inProgress THEN ScanEntry(w) ELSE ScanHead(w)
  BY <1>1 DEF Call, cgiWiFiScan
<1>4. ww = xmitSendBuff(IF Call(w.s.cgi, w, r).r = "MORE" THEN Call(w.s.cgi, w, r)
                        ELSE MarkForDestruction(Call(w.s.cgi, w, r)))
  BY DEF CalledAgain
<1> HIDE DEF ww
<1>5. CASE w.scan.inProgress
  <2> DEFINE p == Page(w, 200, "busy")
  <2>1. Call(w.s.cgi, w, r) = p
    BY <1>3, <1>5 DEF ScanHead, Page
  <2>2. PageSent(w, p, Answer(200, "busy"))
    <3>1. 200 \in Codes /\ "busy" \in Words
      BY DEF Codes, Words
    <3> QED
      BY <3>1, PageServed
  <2> HIDE DEF p
  <2>3. ww = MarkForDestruction(xmitSendBuff(p))
    <3>1. p.r = "DONE"
      BY <2>2 DEF PageSent
    <3>2. ww = xmitSendBuff(MarkForDestruction(p))
      BY <1>4, <2>1, <3>1
    <3>3. xmitSendBuff(MarkForDestruction(p)) = MarkForDestruction(xmitSendBuff(p))
      <4>1. p \in Ctx /\ p.alive
        <5>1. p = [w EXCEPT !.buff = Answer(200, "busy"), !.r = "DONE"] /\ p \in Ctx
          <6>1. 200 \in Codes /\ "busy" \in Words
            BY DEF Codes, Words
          <6> QED
            BY <1>1, <6>1, PageFacts DEF p
        <5> QED
          BY <1>1, <5>1 DEF Ctx
      <4>2. MarkForDestruction(p) = [p EXCEPT !.s.cgi = "NULL"] /\ MarkForDestruction(p) \in Ctx
        BY <4>1, MarkFacts
      <4> QED
        BY <4>1, <4>2 DEF xmitSendBuff, Sent, MarkForDestruction, Ctx
    <3> QED
      BY <3>2, <3>3
  <2>4. /\ Ready(ww) /\ ww.stray = w.stray /\ ww.packets = w.packets + 1
        /\ ww.s = [w.s EXCEPT !.cgi = "NULL"]
        /\ ww.sent = w.sent \o Answer(200, "busy")
        /\ ww.open = w.open /\ ww.scan = w.scan /\ ww.login = w.login
    BY <2>2, <2>3 DEF PageSent
  <2>5. ww.s.cgi = "NULL" /\ ww.s = [w.s EXCEPT !.cgi = ww.s.cgi, !.cgiData = ww.s.cgiData]
    BY <1>1, <2>4 DEF SlotRec
  <2>6. Answer(200, "busy") # <<>>
    BY DEF Answer
  <2>7. ListingBroken(w, ww)
    BY <1>5, <2>4, <2>5, <2>6 DEF ListingBroken, Advanced, Ready
  <2> QED
    BY <2>7 DEF ww
<1>6. CASE ~w.scan.inProgress
  <2>1. /\ v \in Ctx /\ v.alive /\ v.buff = IF pos - 1 < w.scan.n THEN <<item>> ELSE <<>>
        /\ v.s = w.s /\ v.sent = w.sent /\ v.packets = w.packets
        /\ v.scan = w.scan /\ v.login = w.login /\ v.open = w.open /\ v.stray = w.stray
    <3>1. (pos - 1 < w.scan.n) \in BOOLEAN
      OBVIOUS
    <3> HIDE DEF item
    <3> QED
      BY <1>2, <3>1, EntrySends
  <2> HIDE DEF v
  <2>2. CASE pos < w.scan.n
    <3> DEFINE x == [v EXCEPT !.s.cgiData = pos + 1, !.r = "MORE"]
    <3>1. Call(w.s.cgi, w, r) = x
      BY <1>1, <1>3, <1>6, <2>2 DEF ScanEntry, Returns, v
    <3> HIDE DEF item
    <3>2. v.buff = <<item>> /\ v.s \in SlotRec
      BY <1>1, <2>1, <2>2
    <3>3. x.s = [w.s EXCEPT !.cgiData = pos + 1]
      BY <2>1 DEF Ctx
    <3>4. /\ x.s \in SlotRec /\ x.s.cgi = w.s.cgi /\ x.s.cgiData = pos + 1
          /\ x.s = [w.s EXCEPT !.cgi = x.s.cgi, !.cgiData = x.s.cgiData]
      <4> DEFINE bs == w.s
      <4>1. bs \in SlotRec /\ pos + 1 \in Nat /\ x.s = [bs EXCEPT !.cgiData = pos + 1]
        BY <1>1, <3>3
      <4> HIDE DEF bs, x, pos
      <4>2. x.s \in SlotRec /\ x.s.cgi = bs.cgi /\ x.s.cgiData = pos + 1
        BY <4>1 DEF SlotRec
      <4> QED
        BY <4>1, <4>2 DEF SlotRec, bs
    <3>5. /\ x \in Ctx /\ x.r = "MORE" /\ x.alive /\ x.buff = <<item>>
          /\ x.sent = w.sent /\ x.packets = w.packets
          /\ x.scan = w.scan /\ x.login = w.login /\ x.open = w.open /\ x.stray = w.stray
      <4>1. x = [v EXCEPT !.s = x.s, !.r = "MORE"]
        BY <2>1 DEF Ctx
      <4> DEFINE xs == x.s
      <4>2. xs \in SlotRec
        BY <3>4
      <4>3. x = [v EXCEPT !.s = xs, !.r = "MORE"]
        BY <4>1
      <4> HIDE DEF x, xs
      <4> QED
        BY <2>1, <3>2, <4>2, <4>3 DEF Ctx
    <3>6. ww = xmitSendBuff(x)
      BY <1>4, <3>1, <3>5
    <3> HIDE DEF x
    <3>7. ww = [x EXCEPT !.sent = @ \o x.buff, !.packets = @ + 1, !.buff = <<>>] /\ ww \in Ctx
      <4>1. x.buff # <<>>
        BY <3>5
      <4> QED
        BY <3>5, <3>6, <4>1, XmitFacts
    <3>8. /\ ww.alive /\ ww.buff = <<>> /\ ww.sent = w.sent \o <<item>> /\ ww.packets = w.packets + 1
          /\ ww.s = x.s
          /\ ww.scan = w.scan /\ ww.login = w.login /\ ww.open = w.open /\ ww.stray = w.stray
      <4>1. x.sent \o x.buff = w.sent \o <<item>>
        BY <3>5
      <4> QED
        BY <3>5, <3>7, <4>1 DEF Ctx
    <3>9. <<item>> # <<>>
      OBVIOUS
    <3>10. Advanced(w, ww, <<item>>)
      BY <3>4, <3>7, <3>8, <3>9 DEF Advanced
    <3>11. EntrySent(w, ww)
      BY <1>6, <2>2, <3>4, <3>8, <3>10 DEF EntrySent, item
    <3> QED
      BY <3>11 DEF ww
  <2>3. CASE ~(pos < w.scan.n)
    <3> DEFINE e == httpdSend(v, end)
               x == [e EXCEPT !.scan.inProgress = TRUE, !.r = "DONE"]
               y == MarkForDestruction(x)
               buff == (IF pos - 1 < w.scan.n THEN <<item>> ELSE <<>>) \o <<end>>
    <3>1. Call(w.s.cgi, w, r) = x
      BY <1>1, <1>3, <1>6, <2>3 DEF ScanEntry, Returns, wifiStartScan, v
    <3> HIDE DEF item, end
    <3>2. /\ e \in Ctx /\ e.alive /\ e.buff = buff
          /\ e.s = w.s /\ e.sent = w.sent /\ e.packets = w.packets
          /\ e.scan = w.scan /\ e.login = w.login /\ e.open = w.open /\ e.stray = w.stray
      <4>1. e = [v EXCEPT !.buff = Append(@, end)] /\ e \in Ctx
        BY <1>2, <2>1, SendFacts
      <4>2. Append(v.buff, end) = buff
        <5>1. v.buff \in Seq(Item)
          BY <2>1 DEF Ctx
        <5>2. Append(v.buff, end) = v.buff \o <<end>>
          BY <1>2, <5>1, AppendIsConcat
        <5> QED
          BY <2>1, <5>2
      <4> HIDE DEF e, buff
      <4> QED
        BY <2>1, <4>1, <4>2 DEF Ctx
    <3>3. buff \in Seq(Item) /\ buff # <<>>
      <4> DEFINE a == IF pos - 1 < w.scan.n THEN <<item>> ELSE <<>>
      <4>1. a \in Seq(Item) /\ <<end>> \in Seq(Item) /\ Len(<<end>>) = 1
        BY <1>2
      <4> HIDE DEF a
      <4>2. a \o <<end>> \in Seq(Item) /\ Len(a \o <<end>>) = Len(a) + 1 /\ Len(a) \in Nat
        BY <4>1, ConcatProperties, LenProperties
      <4> QED
        BY <4>2 DEF a
    <3> HIDE DEF e, buff
    <3>4. /\ x \in Ctx /\ x.r = "DONE" /\ x.alive /\ x.buff = buff
          /\ x.s = w.s /\ x.sent = w.sent /\ x.packets = w.packets
          /\ x.scan = [w.scan EXCEPT !.inProgress = TRUE]
          /\ x.login = w.login /\ x.open = w.open /\ x.stray = w.stray
      <4>1. [w.scan EXCEPT !.inProgress = TRUE] \in ScanRec
        BY <1>1 DEF ScanRec
      <4>2. x = [e EXCEPT !.scan = [w.scan EXCEPT !.inProgress = TRUE], !.r = "DONE"]
        BY <3>2 DEF Ctx
      <4> DEFINE sc == [w.scan EXCEPT !.inProgress = TRUE]
      <4> HIDE DEF x, sc
      <4>3. x = [e EXCEPT !.scan = sc, !.r = "DONE"] /\ sc \in ScanRec
        BY <4>1, <4>2 DEF sc
      <4>4. /\ x \in Ctx /\ x.r = "DONE" /\ x.alive /\ x.buff = buff
          /\ x.s = w.s /\ x.sent = w.sent /\ x.packets = w.packets
          /\ x.scan = sc
          /\ x.login = w.login /\ x.open = w.open /\ x.stray = w.stray
        BY <3>2, <4>3 DEF Ctx
      <4> QED
        BY <4>4 DEF sc
    <3>5. ww = xmitSendBuff(y)
      BY <1>4, <3>1, <3>4
    <3> HIDE DEF x
    <3>6. /\ y \in Ctx /\ y.s = [w.s EXCEPT !.cgi = "NULL"] /\ y.s.cgi = "NULL"
          /\ y = [x EXCEPT !.s.cgi = "NULL"]
      BY <3>4, MarkFacts
    <3>7. /\ y.alive /\ y.buff = buff /\ y.sent = w.sent /\ y.packets = w.packets
          /\ y.scan = x.scan /\ y.login = w.login /\ y.open = w.open /\ y.stray = w.stray
      BY <3>4, <3>6 DEF Ctx
    <3> HIDE DEF y
    <3>8. ww = [y EXCEPT !.sent = @ \o y.buff, !.packets = @ + 1, !.buff = <<>>] /\ ww \in Ctx
      <4>1. y.buff # <<>>
        BY <3>3, <3>7
      <4> QED
        BY <3>5, <3>6, <3>7, <4>1, XmitFacts
    <3>9. /\ ww.alive /\ ww.buff = <<>> /\ ww.sent = w.sent \o buff /\ ww.packets = w.packets + 1
          /\ ww.s = y.s
          /\ ww.scan = x.scan /\ ww.login = w.login /\ ww.open = w.open /\ ww.stray = w.stray
      <4>1. y.sent \o y.buff = w.sent \o buff
        BY <3>7
      <4> QED
        BY <3>6, <3>7, <3>8, <4>1 DEF Ctx
    <3>10. y.s = [w.s EXCEPT !.cgi = y.s.cgi, !.cgiData = y.s.cgiData]
      <4> DEFINE bs == w.s
      <4>1. bs \in SlotRec /\ y.s = [bs EXCEPT !.cgi = "NULL"]
        BY <1>1, <3>6
      <4> HIDE DEF bs
      <4>2. y.s.cgi = "NULL" /\ y.s.cgiData = bs.cgiData
        BY <4>1 DEF SlotRec
      <4> QED
        BY <4>1, <4>2 DEF SlotRec, bs
    <3>11. Advanced(w, ww, buff)
      BY <3>3, <3>8, <3>9, <3>10 DEF Advanced
    <3>12. w.s.cgiData >= w.scan.n
      BY <1>1, <2>3
    <3>13. ListingEnded(w, ww)
      BY <1>6, <3>4, <3>6, <3>9, <3>11, <3>12 DEF ListingEnded, item, end, buff
    <3> QED
      BY <3>13 DEF ww
  <2> QED
    BY <2>2, <2>3
<1> QED
  BY <1>5, <1>6

\* A sent callback goes on with a file or a listing, as the handler of the slot has it.
LEMMA Continues ==
  ASSUME NEW w, Ready(w), NEW r, HandlerOK(w.s, r), w.s.cgi # "NULL"
  PROVE  Continued(w, r, CalledAgain(w, r))
<1>1. w.s.cgi = "cgiWiFiScan" \/ w.s.cgi = "cgiEspFsHook"
  BY DEF HandlerOK
<1> QED
  BY <1>1, FileContinues, ListingContinues DEF Continued

-----------------------------------------------------------------------------
(* Handlers of connections that are gone *)

\* How many files a slot keeps open.
Holds(s) == IF s.cgi = "cgiEspFsHook" /\ s.cgiData > 0 THEN 1 ELSE 0

\* What the handler of slot s may change when it is called to clean up.
CleanedUp(w, s, ww) ==
  /\ ww \in Ctx /\ ww.login = w.login
  /\ ww.stray \subseteq w.stray \cup {"cgiWiFiScan"}
  /\ ww.open = w.open - Holds(s)

\* A handler that is at work between two callbacks has its data.
SlotShape(s) ==
  /\ s \in SlotRec /\ s.cgi \in {"NULL", "cgiWiFiScan", "cgiEspFsHook"}
  /\ s.cgi # "NULL" => s.cgiData >= 1

\* A send to a connection that is gone.
LEMMA SendNowhere ==
  ASSUME NEW w \in Ctx, ~w.alive, NEW x
  PROVE  /\ httpdSend(w, x) = [w EXCEPT !.stray = @ \cup {w.s.cgi}]
         /\ httpdSend(w, x) \in Ctx /\ ~httpdSend(w, x).alive
         /\ httpdSend(w, x).s = w.s /\ httpdSend(w, x).scan = w.scan
         /\ httpdSend(w, x).login = w.login /\ httpdSend(w, x).open = w.open
         /\ httpdSend(w, x).stray = w.stray \cup {w.s.cgi}
<1>1. httpdSend(w, x) = [w EXCEPT !.stray = @ \cup {w.s.cgi}]
  BY DEF httpdSend
<1>2. w.stray \cup {w.s.cgi} \in SUBSET Cgis
  BY DEF Ctx, SlotRec
<1> DEFINE st == w.stray \cup {w.s.cgi}
<1>3. httpdSend(w, x) = [w EXCEPT !.stray = st] /\ st \in SUBSET Cgis
  BY <1>1, <1>2
<1> HIDE DEF st
<1>4. /\ [w EXCEPT !.stray = st] \in Ctx
      /\ [w EXCEPT !.stray = st].alive = w.alive
      /\ [w EXCEPT !.stray = st].s = w.s /\ [w EXCEPT !.stray = st].scan = w.scan
      /\ [w EXCEPT !.stray = st].login = w.login /\ [w EXCEPT !.stray = st].open = w.open
      /\ [w EXCEPT !.stray = st].stray = st
  BY <1>3 DEF Ctx
<1> QED
  BY <1>1, <1>3, <1>4 DEF st

\* A context that only sends changed, step by step.
Strayed(w, v) ==
  /\ v \in Ctx /\ ~v.alive /\ v.s = w.s /\ v.scan = w.scan /\ v.login = w.login /\ v.open = w.open
  /\ v.stray \subseteq w.stray \cup {w.s.cgi}

\* A handler whose connection is gone sends nothing, it only strays.
LEMMA StraysOn ==
  ASSUME NEW w, NEW v, Strayed(w, v), NEW x
  PROVE  Strayed(w, httpdSend(v, x))
<1>1. v \in Ctx /\ ~v.alive /\ v.s = w.s /\ v.scan = w.scan /\ v.login = w.login /\ v.open = w.open
      /\ v.stray \subseteq w.stray \cup {w.s.cgi}
  BY DEF Strayed
<1> DEFINE u == httpdSend(v, x)
<1>2. u \in Ctx /\ ~u.alive /\ u.s = v.s /\ u.scan = v.scan /\ u.login = v.login /\ u.open = v.open
      /\ u.stray = v.stray \cup {v.s.cgi}
  BY <1>1, SendNowhere
<1> HIDE DEF u
<1>3. Strayed(w, u)
  BY <1>1, <1>2 DEF Strayed
<1> QED
  BY <1>3 DEF u

\* The scan listing may write anything, may start a scan and opens nothing.
LEMMA ListingCleansUp ==
  ASSUME NEW w \in Ctx, ~w.alive, w.s.cgi = "cgiWiFiScan"
  PROVE  CleanedUp(w, w.s, cgiWiFiScan(w))
<1>1. Strayed(w, w) /\ w.s \in SlotRec /\ w.scan \in ScanRec
  BY DEF Strayed, Ctx
<1>2. ASSUME NEW v, Strayed(w, v), NEW d \in Nat, NEW sc \in ScanRec, NEW res \in {"MORE", "DONE"}
      PROVE  /\ CleanedUp(w, w.s, [v EXCEPT !.s.cgiData = d, !.r = res])
             /\ CleanedUp(w, w.s, [v EXCEPT !.scan = sc, !.r = res])
             /\ CleanedUp(w, w.s, [v EXCEPT !.r = res])
  <2>1. v \in Ctx /\ v.s = w.s /\ v.login = w.login /\ v.open = w.open
        /\ v.stray \subseteq w.stray \cup {"cgiWiFiScan"}
    BY <1>2 DEF Strayed
  <2>2. Holds(w.s) = 0 /\ w.open - 0 = w.open
    <3>1. w.open \in Int
      BY DEF Ctx
    <3> QED
      BY <3>1 DEF Holds
  <2> DEFINE bs == [w.s EXCEPT !.cgiData = d]
  <2>3. bs \in SlotRec
    BY <1>1 DEF SlotRec
  <2>4. [v EXCEPT !.s.cgiData = d, !.r = res] = [v EXCEPT !.s = bs, !.r = res]
    BY <2>1
  <2> HIDE DEF bs
  <2>5. /\ [v EXCEPT !.s = bs, !.r = res] \in Ctx
        /\ [v EXCEPT !.s = bs, !.r = res].login = v.login
        /\ [v EXCEPT !.s = bs, !.r = res].open = v.open
        /\ [v EXCEPT !.s = bs, !.r = res].stray = v.stray
    BY <2>1, <2>3 DEF Ctx
  <2>6. /\ [v EXCEPT !.scan = sc, !.r = res] \in Ctx
        /\ [v EXCEPT !.scan = sc, !.r = res].login = v.login
        /\ [v EXCEPT !.scan = sc, !.r = res].open = v.open
        /\ [v EXCEPT !.scan = sc, !.r = res].stray = v.stray
    BY <2>1 DEF Ctx
  <2>7. /\ [v EXCEPT !.r = res] \in Ctx
        /\ [v EXCEPT !.r = res].login = v.login
        /\ [v EXCEPT !.r = res].open = v.open
        /\ [v EXCEPT !.r = res].stray = v.stray
    BY <2>1 DEF Ctx
  <2> QED
    BY <2>1, <2>2, <2>4, <2>5, <2>6, <2>7 DEF CleanedUp
<1> DEFINE a == httpdSend(w, <<"status", 200>>)
           b == httpdSend(a, <<"busy">>)
           c == httpdSend(a, <<"begin">>)
           pos == w.s.cgiData
           item == IF pos - 1 < w.scan.n THEN httpdSend(w, <<"ap", w.scan.result, pos>>) ELSE w
           e == httpdSend(item, <<"end", w.scan.result, w.scan.n>>)
<1>3. /\ Strayed(w, a) /\ Strayed(w, b) /\ Strayed(w, c) /\ Strayed(w, item) /\ Strayed(w, e)
  <2>1. Strayed(w, a)
    BY <1>1, StraysOn
  <2>2. Strayed(w, item)
    BY <1>1, StraysOn
  <2> HIDE DEF a, item
  <2> QED
    BY <2>1, <2>2, StraysOn
<1> HIDE DEF a, b, c, item, e
<1>4. CASE w.scan.inProgress
  <2>1. cgiWiFiScan(w) = [b EXCEPT !.r = "DONE"]
    BY <1>4 DEF cgiWiFiScan, ScanHead, Returns, a, b
  <2> QED
    <3>1. 0 \in Nat /\ w.scan \in ScanRec /\ "DONE" \in {"MORE", "DONE"}
      BY <1>1
    <3>2. CleanedUp(w, w.s, [b EXCEPT !.r = "DONE"])
      BY <1>2, <1>3, <3>1
    <3> QED
      BY <2>1, <3>2
<1>5. CASE ~w.scan.inProgress /\ pos = 0
  <2>1. cgiWiFiScan(w) = [c EXCEPT !.s.cgiData = 1, !.r = "MORE"]
    BY <1>5 DEF cgiWiFiScan, ScanHead, Returns, a, c
  <2> QED
    <3>1. 1 \in Nat /\ w.scan \in ScanRec /\ "MORE" \in {"MORE", "DONE"}
      BY <1>1
    <3>2. CleanedUp(w, w.s, [c EXCEPT !.s.cgiData = 1, !.r = "MORE"])
      BY <1>2, <1>3, <3>1
    <3> QED
      BY <2>1, <3>2
<1>6. CASE ~w.scan.inProgress /\ pos # 0
  <2> DEFINE sc == [w.scan EXCEPT !.inProgress = TRUE]
  <2>1. cgiWiFiScan(w) = IF pos >= w.scan.n THEN [e EXCEPT !.scan.inProgress = TRUE, !.r = "DONE"]
                         ELSE [item EXCEPT !.s.cgiData = pos + 1, !.r = "MORE"]
    BY <1>6 DEF cgiWiFiScan, ScanEntry, wifiStartScan, Returns, item, e
  <2>2. [e EXCEPT !.scan.inProgress = TRUE, !.r = "DONE"] = [e EXCEPT !.scan = sc, !.r = "DONE"]
    BY <1>3 DEF Strayed
  <2>3. sc \in ScanRec /\ pos + 1 \in Nat
    <3> DEFINE bs == w.s
               old == w.scan
    <3>1. bs \in SlotRec /\ old \in ScanRec
      BY <1>1
    <3> HIDE DEF bs, old
    <3>2. bs.cgiData \in Nat
      BY <3>1 DEF SlotRec
    <3>3. [old EXCEPT !.inProgress = TRUE] \in ScanRec
      BY <3>1 DEF ScanRec
    <3> QED
      BY <3>2, <3>3 DEF bs, old
  <2>4. CleanedUp(w, w.s, [e EXCEPT !.scan = sc, !.r = "DONE"])
    <3> HIDE DEF sc
    <3> QED
      BY <1>2, <1>3, <2>3
  <2>5. CleanedUp(w, w.s, [item EXCEPT !.s.cgiData = pos + 1, !.r = "MORE"])
    <3> HIDE DEF pos
    <3> QED
      BY <1>1, <1>2, <1>3, <2>3
  <2> QED
    BY <2>1, <2>2, <2>4, <2>5
<1> QED
  BY <1>4, <1>5, <1>6

\* Cleaning one slot up frees the file it holds and keeps the login.
LEMMA FlushCleansUp ==
  ASSUME NEW w \in Ctx, NEW i \in Slots, SlotShape(slot[i])
  PROVE  CleanedUp(w, slot[i], FlushSlot(w, i))
<1> DEFINE s == slot[i]
           ww == [w EXCEPT !.s = s, !.alive = FALSE]
<1>1. s \in SlotRec /\ s.cgi \in {"NULL", "cgiWiFiScan", "cgiEspFsHook"}
      /\ (s.cgi # "NULL" => s.cgiData >= 1)
  BY DEF SlotShape
<1>2. FlushSlot(w, i) = IF s.cgi = "NULL" THEN ww ELSE Call(s.cgi, ww, req[conn[i]])
  BY DEF FlushSlot
<1> HIDE DEF s
<1>3. ww \in Ctx /\ ~ww.alive /\ ww.s = s /\ ww.login = w.login /\ ww.open = w.open
      /\ ww.stray = w.stray /\ w.open \in Int
  BY <1>1 DEF Ctx
<1> HIDE DEF ww
<1>4. CASE s.cgi = "NULL"
  <2>1. Holds(s) = 0 /\ w.open - 0 = w.open
    BY <1>3, <1>4 DEF Holds
  <2>2. CleanedUp(w, s, ww)
    BY <1>3, <2>1 DEF CleanedUp
  <2> QED
    BY <1>2, <1>4, <2>2 DEF s
<1>5. CASE s.cgi = "cgiWiFiScan"
  <2>1. CleanedUp(ww, ww.s, cgiWiFiScan(ww))
    BY <1>3, <1>5, ListingCleansUp
  <2>2. Call(s.cgi, ww, req[conn[i]]) = cgiWiFiScan(ww)
    BY <1>5 DEF Call
  <2>3. CleanedUp(w, s, cgiWiFiScan(ww))
    BY <1>3, <2>1 DEF CleanedUp
  <2> QED
    BY <1>2, <1>5, <2>2, <2>3 DEF s
<1>6. CASE s.cgi = "cgiEspFsHook"
  <2> DEFINE v == [ww EXCEPT !.open = @ - 1, !.r = "DONE"]
  <2>1. Call(s.cgi, ww, req[conn[i]]) = v
    BY <1>3, <1>6 DEF Call, cgiEspFsHook, AbortFile, Returns, CloseFile
  <2>2. v \in Ctx /\ v.login = w.login /\ v.open = w.open - 1 /\ v.stray = w.stray
    <3> DEFINE n == ww.open - 1
    <3>1. n \in Int /\ v = [ww EXCEPT !.open = n, !.r = "DONE"]
      BY <1>3
    <3> HIDE DEF n, v
    <3>2. v \in Ctx /\ v.login = ww.login /\ v.open = n /\ v.stray = ww.stray
      BY <1>3, <3>1 DEF Ctx
    <3> QED
      BY <1>3, <3>2 DEF n
  <2>3. Holds(s) = 1
    <3>1. s.cgiData > 0
      BY <1>1, <1>6 DEF SlotRec
    <3> QED
      BY <1>6, <3>1 DEF Holds
  <2> HIDE DEF v
  <2>4. CleanedUp(w, s, v)
    BY <2>2, <2>3 DEF CleanedUp
  <2> QED
    BY <1>2, <1>6, <2>1, <2>4 DEF s
<1> QED
  BY <1>1, <1>4, <1>5, <1>6

\* The types of the shared state, and the shape of all slots.
StateOK ==
  /\ \A i \in Slots : SlotShape(slot[i])
  /\ scan \in ScanRec /\ login \in Logins /\ open \in Int /\ stray \subseteq {"cgiWiFiScan"}

\* A handler of an existing connection begins with the shared state and its slot.
LEMMA ContextFacts ==
  ASSUME StateOK, NEW i \in Slots
  PROVE  /\ Ready(Context(i)) /\ Context(i).s = slot[i] /\ Context(i).sent = <<>>
         /\ Context(i).packets = 0 /\ Context(i).scan = scan /\ Context(i).login = login
         /\ Context(i).open = open /\ Context(i).stray = stray
<1> DEFINE s == slot[i]
<1>1. s \in SlotRec /\ stray \in SUBSET Cgis
  BY DEF StateOK, SlotShape, Cgis
<1>2. <<>> \in Seq(Item)
  OBVIOUS
<1> HIDE DEF s
<1>3. Context(i) = [s |-> s, alive |-> TRUE, buff |-> <<>>, sent |-> <<>>, packets |-> 0,
                    r |-> "NONE", scan |-> scan, login |-> login, open |-> open, stray |-> stray]
  BY DEF Context, s
<1> QED
  BY <1>1, <1>2, <1>3 DEF Ready, StateOK, Ctx, s

\* Flush goes through the slots one by one.
LEMMA FlushRecursion ==
  ASSUME NEW dead
  PROVE  \E f : /\ f[0] = Context(1) /\ Flush(dead) = f[MaxConn]
                /\ \A i \in Slots : f[i] = IF i \in dead THEN FlushSlot(f[i - 1], i) ELSE f[i - 1]
<1> DEFINE Good(f, n) == f = [i \in 0 .. n |->
                           IF i = 0 THEN Context(1)
                           ELSE IF i \in dead THEN FlushSlot(f[i - 1], i) ELSE f[i - 1]]
           T == {n \in Nat : \E f : Good(f, n)}
<1>1. 0 \in T
  <2>1. Good([i \in 0 .. 0 |-> Context(1)], 0)
    OBVIOUS
  <2> QED
    BY <2>1
<1>2. ASSUME NEW n \in T PROVE n + 1 \in T
  <2>1. PICK f : Good(f, n)
    OBVIOUS
  <2> DEFINE g == [i \in 0 .. n + 1 |-> IF i <= n THEN f[i]
                     ELSE IF i \in dead THEN FlushSlot(f[i - 1], i) ELSE f[i - 1]]
  <2>2. n \in Nat /\ f = [i \in 0 .. n |-> IF i = 0 THEN Context(1)
                            ELSE IF i \in dead THEN FlushSlot(f[i - 1], i) ELSE f[i - 1]]
    BY <2>1
  <2>3. \A i \in 0 .. n + 1 : g[i] = IF i = 0 THEN Context(1)
                            ELSE IF i \in dead THEN FlushSlot(g[i - 1], i) ELSE g[i - 1]
    <3>1. ASSUME NEW i \in 0 .. n + 1
          PROVE  g[i] = IF i = 0 THEN Context(1)
                        ELSE IF i \in dead THEN FlushSlot(g[i - 1], i) ELSE g[i - 1]
      <4>1. i # 0 => i - 1 \in 0 .. n /\ g[i - 1] = f[i - 1]
        BY <2>2
      <4>2. i <= n => i \in 0 .. n /\ g[i] = f[i]
        BY <2>2
      <4>3. i <= n => f[i] = IF i = 0 THEN Context(1)
                             ELSE IF i \in dead THEN FlushSlot(f[i - 1], i) ELSE f[i - 1]
        BY <2>2, <4>2
      <4>4. i > n => i # 0 /\ g[i] = IF i \in dead THEN FlushSlot(f[i - 1], i) ELSE f[i - 1]
        BY <2>2
      <4> HIDE DEF g
      <4> QED
        BY <2>2, <4>1, <4>2, <4>3, <4>4
    <3> QED
      BY <3>1
  <2>4. Good(g, n + 1)
    <3> DEFINE h == [i \in 0 .. n + 1 |-> IF i = 0 THEN Context(1)
                            ELSE IF i \in dead THEN FlushSlot(g[i - 1], i) ELSE g[i - 1]]
    <3>1. DOMAIN g = 0 .. n + 1 /\ g = [i \in DOMAIN g |-> g[i]]
      OBVIOUS
    <3> HIDE DEF g
    <3>2. g = h
      BY <2>3, <3>1, Zenon
    <3> QED
      BY <3>2
  <2> HIDE DEF Good, g
  <2>5. \E h : Good(h, n + 1)
    BY <2>4
  <2> QED
    BY <2>2, <2>5
<1>3. MaxConn \in T
  <2>1. T = Nat
    <3> HIDE DEF Good
    <3>1. T \in SUBSET Nat
      OBVIOUS
    <3> HIDE DEF T
    <3> QED
      BY <1>1, <1>2, <3>1, SetInduction
  <2> QED
    BY <2>1, PoolAssumption
<1> DEFINE f == CHOOSE flushed : Good(flushed, MaxConn)
<1>4. Good(f, MaxConn)
  BY <1>3
<1>5. Flush(dead) = f[MaxConn]
  BY DEF Flush
<1> HIDE DEF f
<1>6. /\ f[0] = Context(1)
      /\ \A i \in Slots : f[i] = IF i \in dead THEN FlushSlot(f[i - 1], i) ELSE f[i - 1]
  BY <1>4, PoolAssumption DEF Slots
<1> QED
  BY <1>5, <1>6

\* The slots up to n that are cleaned up and hold a file.
DeadFiles(dead, n) == {i \in 1 .. n : i \in dead /\ Holds(slot[i]) = 1}

\* The files of the slots that are flushed are closed, each of them once.
LEMMA FlushGives ==
  ASSUME StateOK, NEW dead \in SUBSET Slots
  PROVE  /\ Flush(dead).login = login /\ Flush(dead).scan \in ScanRec
         /\ Flush(dead).stray \subseteq {"cgiWiFiScan"}
         /\ Flush(dead).open = open - Cardinality({i \in dead : Holds(slot[i]) = 1})
<1>1. PICK f : /\ f[0] = Context(1) /\ Flush(dead) = f[MaxConn]
               /\ \A i \in Slots : f[i] = IF i \in dead THEN FlushSlot(f[i - 1], i) ELSE f[i - 1]
  BY FlushRecursion
<1>2. MaxConn \in Nat /\ 1 \in Slots /\ \A n \in 0 .. MaxConn - 1 : n + 1 \in Slots
  BY PoolAssumption DEF Slots
<1> DEFINE Flushed(n) == /\ f[n] \in Ctx /\ f[n].login = login
                         /\ f[n].stray \subseteq {"cgiWiFiScan"}
                         /\ f[n].open = open - Cardinality(DeadFiles(dead, n))
           T == {n \in 0 .. MaxConn : Flushed(n)}
<1>3. \A n \in Nat : IsFiniteSet(DeadFiles(dead, n)) /\ Cardinality(DeadFiles(dead, n)) \in Nat
  <2> SUFFICES ASSUME NEW n \in Nat
               PROVE  IsFiniteSet(DeadFiles(dead, n)) /\ Cardinality(DeadFiles(dead, n)) \in Nat
    OBVIOUS
  <2>1. IsFiniteSet(1 .. n)
    BY FS_Interval
  <2>2. DeadFiles(dead, n) \subseteq 1 .. n
    BY DEF DeadFiles
  <2> QED
    BY <2>1, <2>2, FS_Subset, FS_CardinalityType
<1>4. 0 \in T
  <2>1. DeadFiles(dead, 0) = {}
    BY DEF DeadFiles
  <2>2. Cardinality(DeadFiles(dead, 0)) = 0
    BY <2>1, FS_EmptySet
  <2>3. Context(1) \in Ctx /\ Context(1).login = login /\ Context(1).stray = stray /\ Context(1).open = open
    BY <1>2, ContextFacts DEF Ready
  <2>4. open - 0 = open /\ stray \subseteq {"cgiWiFiScan"} /\ 0 \in 0 .. MaxConn
    BY <1>2 DEF StateOK
  <2>5. Flushed(0)
    BY <1>1, <2>2, <2>3, <2>4
  <2> HIDE DEF Flushed
  <2> QED
    BY <2>4, <2>5
<1>5. ASSUME NEW n \in 0 .. MaxConn - 1, n \in T PROVE n + 1 \in T
  <2>1. Flushed(n) /\ n + 1 \in Slots /\ n \in Nat /\ n + 1 \in 0 .. MaxConn
    BY <1>2, <1>5
  <2>2. f[n + 1] = IF n + 1 \in dead THEN FlushSlot(f[n], n + 1) ELSE f[n]
    BY <1>1, <2>1
  <2> DEFINE D == DeadFiles(dead, n)
             s == slot[n + 1]
  <2>3. n + 1 \notin D /\ IsFiniteSet(D) /\ Cardinality(D) \in Nat
    BY <1>3, <2>1 DEF DeadFiles
  <2>4. CASE n + 1 \in dead
    <3>1. CleanedUp(f[n], s, FlushSlot(f[n], n + 1))
      BY <2>1, FlushCleansUp DEF StateOK
    <3>2. /\ f[n + 1] \in Ctx /\ f[n + 1].login = login /\ f[n + 1].stray \subseteq {"cgiWiFiScan"}
          /\ f[n + 1].open = f[n].open - Holds(s)
      BY <2>1, <2>2, <2>4, <3>1 DEF CleanedUp
    <3>3. Cardinality(DeadFiles(dead, n + 1)) = Cardinality(D) + Holds(s)
      <4>1. CASE Holds(s) = 1
        <5>1. DeadFiles(dead, n + 1) = D \cup {n + 1}
          BY <2>1, <2>4, <4>1 DEF DeadFiles
        <5> QED
          BY <2>3, <4>1, <5>1, FS_AddElement
      <4>2. CASE Holds(s) # 1
        <5>1. DeadFiles(dead, n + 1) = D
          BY <2>1, <2>4, <4>2 DEF DeadFiles
        <5>2. Holds(s) = 0
          BY <4>2 DEF Holds
        <5> QED
          BY <2>3, <5>1, <5>2
      <4> QED
        BY <4>1, <4>2
    <3>4. Holds(s) \in {0, 1} /\ open \in Int
      BY DEF Holds, StateOK
    <3>5. f[n + 1].open = open - Cardinality(DeadFiles(dead, n + 1))
      <4> HIDE DEF s, D
      <4> QED
        BY <2>1, <2>3, <3>2, <3>3, <3>4 DEF D
    <3> QED
      BY <2>1, <3>2, <3>5
  <2>5. CASE n + 1 \notin dead
    <3>1. DeadFiles(dead, n + 1) = D
      BY <2>1, <2>5 DEF DeadFiles
    <3> QED
      BY <2>1, <2>2, <2>5, <3>1
  <2> QED
    BY <2>4, <2>5
<1>6. MaxConn \in T
  <2> HIDE DEF T
  <2>1. \A n \in 0 .. MaxConn : n \in T
    BY <1>2, <1>4, <1>5, BoundedInduction
  <2> QED
    BY <1>2, <2>1
<1>7. DeadFiles(dead, MaxConn) = {i \in dead : Holds(slot[i]) = 1}
  BY DEF DeadFiles, Slots
<1> QED
  BY <1>1, <1>6, <1>7 DEF Ctx

\* The first element of a concatenation.
LEMMA HeadOfConcat ==
  ASSUME NEW S, NEW a \in Seq(S), NEW b \in Seq(S)
  PROVE  /\ a = <<>> => a \o b = b
         /\ a # <<>> => Head(a \o b) = Head(a)
         /\ b # <<>> => a \o b # <<>>
         /\ a \o b \in Seq(S)
<1>1. Len(a) \in Nat /\ Len(b) \in Nat /\ a \o b \in Seq(S) /\ Len(a \o b) = Len(a) + Len(b)
  BY LenProperties, ConcatProperties
<1>2. a = <<>> => a \o b = b
  OBVIOUS
<1>3. a # <<>> => Len(a) # 0 /\ (a \o b)[1] = a[1]
  BY <1>1, EmptySeq, ConcatProperties
<1>4. b # <<>> => Len(b) # 0
  BY EmptySeq
<1>5. (a \o b) = <<>> => Len(a \o b) = 0
  OBVIOUS
<1>6. a # <<>> => Head(a \o b) = Head(a)
  BY <1>1, <1>3, <1>5 DEF Head
<1>7. b # <<>> => a \o b # <<>>
  BY <1>1, <1>4, <1>5
<1> QED
  BY <1>1, <1>2, <1>6, <1>7

\* An answer begins with its status.
LEMMA AnswerFacts ==
  ASSUME NEW code \in Codes, NEW word \in Words
  PROVE  /\ Answer(code, word) \in Seq(Item) /\ Answer(code, word) # <<>>
         /\ Head(Answer(code, word)) = <<"status", code>>
<1> DEFINE x == <<"status", code>>
           y == <<word>>
<1>1. x \in Item /\ y \in Item
  BY Items
<1> HIDE DEF x, y
<1>2. <<x, y>> \in Seq(Item) /\ Head(<<x, y>>) = x
  BY <1>1, PairSeq
<1>3. <<x, y>> # <<>>
  OBVIOUS
<1> QED
  BY <1>2, <1>3 DEF Answer, x, y

-----------------------------------------------------------------------------
(* What a receive callback may do *)

\* A body longer than the buffer is processed buffer by buffer; a file must not be
\* asked for like that, every buffer would open it anew.
FilesFit == \A r \in Requests : FileName(r.url) \in DOMAIN Files => r.body <= MaxPost

\* Who is let in below /admin, by the first thing that was sent.
Progress(w0, r, w) ==
  /\ Ready(w) /\ HandlerOK(w.s, r)
  /\ FilesFit => w.open - Holds(w.s) = w0.open - Holds(w0.s)
  /\ w.scan = w0.scan /\ w.stray = w0.stray
  /\ w.login # w0.login => r.auth = w0.login
  /\ w.sent = <<>> => w.login = w0.login /\ w.s.cgi = w0.s.cgi
  /\ w.sent # <<>> =>
       /\ w.packets > 0
       /\ r.url \in AdminUrls => (Head(w.sent) = <<"status", 401>> <=> r.auth # w0.login)

\* What every outcome of a processing shares.
Outcome(w, r, ww) ==
  \E a \in Seq(Item) :
    /\ a # <<>> /\ ww.sent = w.sent \o a
    /\ r.url \in AdminUrls => (Head(a) = <<"status", 401>> <=> r.auth # w.login)
    /\ ww.login # w.login => r.auth = w.login
    /\ HandlerOK(ww.s, r) /\ ww.open - Holds(ww.s) = w.open /\ ww.scan = w.scan

\* Each of the six outcomes of a processing is an outcome.
LEMMA ProcessOutcome ==
  ASSUME NEW w, Ready(w), NEW r, NEW ww, Processed(w, r, ww)
  PROVE  Outcome(w, r, ww)
<1>1. w.open \in Int /\ ww.s \in SlotRec
  BY DEF Processed, OnePacket, Ready, Ctx
<1>2. \A s : s.cgi = "NULL" => HandlerOK(s, r) /\ Holds(s) = 0
  BY DEF HandlerOK, Holds
<1>3. \A a : Replied(w, ww, a) =>
        /\ ww.sent = w.sent \o a /\ HandlerOK(ww.s, r) /\ ww.open - Holds(ww.s) = w.open
        /\ ww.scan = w.scan
  BY <1>1, <1>2 DEF Replied
<1>4. \A code \in Codes \ {401}, word \in Words :
        /\ Answer(code, word) \in Seq(Item) /\ Answer(code, word) # <<>>
        /\ Head(Answer(code, word)) # <<"status", 401>>
  <2> SUFFICES ASSUME NEW code \in Codes \ {401}, NEW word \in Words
               PROVE  /\ Answer(code, word) \in Seq(Item) /\ Answer(code, word) # <<>>
                      /\ Head(Answer(code, word)) # <<"status", 401>>
    OBVIOUS
  <2>1. code \in Codes /\ code # 401
    OBVIOUS
  <2> QED
    BY <2>1, AnswerFacts
<1>5. CASE Refused(w, r, ww)
  <2>1. 401 \in Codes /\ "forbidden" \in Words
    BY DEF Codes, Words
  <2> DEFINE a == Answer(401, "forbidden")
  <2>2. a \in Seq(Item) /\ a # <<>> /\ Head(a) = <<"status", 401>>
    BY <2>1, AnswerFacts
  <2> HIDE DEF a
  <2> QED
    BY <1>3, <1>5, <2>2 DEF Refused, Accepted, Outcome, a
<1>6. ASSUME NEW code \in Codes \ {401}, NEW word \in Words, Replied(w, ww, Answer(code, word)),
             Accepted(w, r), ww.login = w.login \/ r.url \in AdminUrls
      PROVE  Outcome(w, r, ww)
  <2> DEFINE a == Answer(code, word)
  <2>1. a \in Seq(Item) /\ a # <<>> /\ Head(a) # <<"status", 401>>
    BY <1>4
  <2> HIDE DEF a
  <2>2. Replied(w, ww, a)
    BY <1>6 DEF a
  <2> QED
    BY <1>3, <1>6, <2>1, <2>2 DEF Accepted, Outcome
<1>7. CASE Answered(w, r, ww)
  <2>1. PICK a \in PlainAnswers(r) : Accepted(w, r) /\ Replied(w, ww, a) /\ ww.login = w.login
    BY <1>7 DEF Answered
  <2>2. \E code \in Codes \ {401}, word \in Words : a = Answer(code, word)
    <3>1. a \in {Answer(302, "moved"), Answer(200, "values"), Answer(200, "build"), Answer(404, "notfound")}
      BY <2>1 DEF PlainAnswers
    <3>2. {302, 200, 404} \subseteq Codes \ {401} /\ {"moved", "values", "build", "notfound"} \subseteq Words
      BY DEF Codes, Words
    <3> QED
      BY <3>1, <3>2
  <2> QED
    BY <1>6, <2>1, <2>2
<1>8. CASE FormTaken(w, r, ww) \/ ListingBusy(w, r, ww)
  <2>1. 200 \in Codes \ {401} /\ "form" \in Words /\ "busy" \in Words
    BY DEF Codes, Words
  <2>2. r.url \in AdminUrls
    BY <1>8 DEF FormTaken, ListingBusy, AdminUrls
  <2> QED
    BY <1>6, <1>8, <2>1, <2>2 DEF FormTaken, ListingBusy
<1>9. CASE ListingBegun(w, r, ww)
  <2> DEFINE a == Answer(200, "begin")
  <2>1. 200 \in Codes \ {401} /\ "begin" \in Words
    BY DEF Codes, Words
  <2>2. a \in Seq(Item) /\ a # <<>> /\ Head(a) # <<"status", 401>>
    BY <1>4, <2>1
  <2>3. HandlerOK(ww.s, r) /\ Holds(ww.s) = 0
    BY <1>9 DEF ListingBegun, HandlerOK, Holds
  <2> HIDE DEF a
  <2>4. /\ ww.sent = w.sent \o a /\ ww.open - Holds(ww.s) = w.open /\ ww.scan = w.scan
        /\ Accepted(w, r) /\ ww.login = w.login
    BY <1>1, <1>9, <2>3 DEF ListingBegun, a
  <2> QED
    BY <2>2, <2>3, <2>4 DEF Accepted, Outcome
<1>10. CASE FileBegun(w, r, ww)
  <2> DEFINE x == <<"status", 200>>
             a == <<x>>
  <2>1. x \in Item /\ x # <<"status", 401>>
    <3>1. 200 \in Codes
      BY DEF Codes
    <3> QED
      BY <3>1, Items
  <2>2. ww.sent = w.sent \o a /\ ww.scan = w.scan /\ Accepted(w, r) /\ ww.login = w.login
        /\ ww.s.cgi = "cgiEspFsHook" /\ ww.s.cgiData = 1 /\ ww.open = w.open + 1
        /\ FileName(r.url) \in DOMAIN Files
    BY <1>10 DEF FileBegun
  <2>3. HandlerOK(ww.s, r)
    <3>1. Files[FileName(r.url)] \in Nat /\ PieceLen \in Nat
      BY <2>2, LengthsAssumption
    <3>2. 1 = 0 * PieceLen + 1 /\ 0 \in Nat /\ 1 - 1 <= Files[FileName(r.url)]
      BY <3>1
    <3> QED
      BY <2>2, <3>2 DEF HandlerOK
  <2>4. ww.open - Holds(ww.s) = w.open
    BY <1>1, <2>2 DEF Holds
  <2> HIDE DEF x
  <2>5. a \in Seq(Item) /\ a # <<>> /\ Head(a) # <<"status", 401>>
    BY <2>1
  <2> HIDE DEF a
  <2> QED
    BY <2>2, <2>3, <2>4, <2>5 DEF Accepted, Outcome
<1> QED
  BY <1>5, <1>7, <1>8, <1>9, <1>10 DEF Processed

\* A processing keeps what a receive callback promises.
LEMMA ProcessProgress ==
  ASSUME NEW w0, NEW r, r.url \in Urls, NEW w, Progress(w0, r, w), w.s.url # "NULL",
         FilesFit => w.s.cgi # "cgiEspFsHook"
  PROVE  /\ Progress(w0, r, httpdProcessRequest(w, r))
         /\ httpdProcessRequest(w, r).sent # <<>>
         /\ OnePacket(w, httpdProcessRequest(w, r))
<1> DEFINE ww == httpdProcessRequest(w, r)
<1>1. Ready(w)
  BY DEF Progress
<1>2. Processed(w, r, ww)
  BY <1>1, ProcessGives
<1> HIDE DEF ww
<1>3. Outcome(w, r, ww) /\ OnePacket(w, ww)
  BY <1>1, <1>2, ProcessOutcome DEF Processed
<1>4. PICK a \in Seq(Item) :
        /\ a # <<>> /\ ww.sent = w.sent \o a
        /\ r.url \in AdminUrls => (Head(a) = <<"status", 401>> <=> r.auth # w.login)
        /\ ww.login # w.login => r.auth = w.login
        /\ HandlerOK(ww.s, r) /\ ww.open - Holds(ww.s) = w.open /\ ww.scan = w.scan
  BY <1>3 DEF Outcome
<1>5. w.sent \in Seq(Item) /\ w.packets \in Nat /\ w.open \in Int /\ (FilesFit => Holds(w.s) = 0)
  BY <1>1 DEF Ready, Ctx, Holds
<1>6. /\ w.sent = <<>> => ww.sent = a
      /\ w.sent # <<>> => Head(ww.sent) = Head(w.sent)
      /\ ww.sent # <<>>
  BY <1>4, <1>5, HeadOfConcat
<1>7. Ready(ww) /\ ww.packets = w.packets + 1 /\ ww.stray = w.stray
  BY <1>3 DEF OnePacket, Ready
<1>8. FilesFit => ww.open - Holds(ww.s) = w0.open - Holds(w0.s)
  BY <1>4, <1>5 DEF Progress
<1>9. ww.login # w0.login => r.auth = w0.login
  BY <1>4 DEF Progress
<1>10. r.url \in AdminUrls => (Head(ww.sent) = <<"status", 401>> <=> r.auth # w0.login)
  <2>1. CASE w.sent = <<>>
    BY <1>4, <1>6, <2>1 DEF Progress
  <2>2. CASE w.sent # <<>>
    BY <1>6, <2>2 DEF Progress
  <2> QED
    BY <2>1, <2>2
<1>11. ww.packets > 0
  BY <1>5, <1>7
<1>12. ww.scan = w0.scan /\ ww.stray = w0.stray /\ HandlerOK(ww.s, r)
  BY <1>4, <1>7 DEF Progress
<1>13. Progress(w0, r, ww)
  BY <1>6, <1>7, <1>8, <1>9, <1>10, <1>11, <1>12 DEF Progress
<1> QED
  BY <1>3, <1>6, <1>13 DEF ww

-----------------------------------------------------------------------------
(* Receiving unit by unit *)

\* The head of r is complete, and the buffer took all of it.
Parsed(r, k) == k >= r.head /\ r.head <= MaxHead

\* A slot after k units of request r.
FedOK(s, r, k) ==
  IF Parsed(r, k)
    THEN /\ s.len = r.body /\ s.received = k - r.head /\ s.buffLen < MaxPost
         /\ s.url = IF r.method \in {"GET", "POST"} THEN r.url ELSE "NULL"
         /\ r.body <= MaxPost /\ k < r.head + r.body => s.buffLen = s.received /\ s.cgi = "NULL"
    ELSE /\ s.len = InHead /\ s.received = 0 /\ s.buffLen = 0 /\ s.url = "NULL" /\ s.cgi = "NULL"
         /\ s.headPos = IF k < MaxHead THEN k ELSE MaxHead

\* The context after k units of request r, since it was w0.
Feeding(w0, r, w, k) ==
  /\ Progress(w0, r, w) /\ FedOK(w.s, r, k)
  /\ k = r.head + r.body /\ Understood(r) => w.sent # <<>>

\* The lengths and the URL of a request.
LEMMA RequestFacts ==
  ASSUME NEW r \in Requests
  PROVE  /\ r.head \in Nat \ {0} /\ r.body \in Nat /\ r.url \in Urls /\ r.url # "NULL"
         /\ MaxHead \in Nat \ {0} /\ MaxPost \in Nat \ {0}
<1>1. "NULL" \notin Urls
  BY DEF Urls, AdminUrls
<1> QED
  BY <1>1, LengthsAssumption, RequestsAssumption

\* A change of what the slot holds of the request alone.
LEMMA SlotChanged ==
  ASSUME NEW w0, NEW r, NEW w, Progress(w0, r, w), NEW s \in SlotRec,
         s.cgi = w.s.cgi, s.cgiData = w.s.cgiData
  PROVE  /\ Progress(w0, r, [w EXCEPT !.s = s])
         /\ [w EXCEPT !.s = s].s = s /\ [w EXCEPT !.s = s].sent = w.sent
<1> DEFINE ww == [w EXCEPT !.s = s]
<1>1. w \in Ctx
  BY DEF Progress, Ready
<1>2. /\ ww \in Ctx /\ ww.s = s /\ ww.alive = w.alive /\ ww.buff = w.buff /\ ww.sent = w.sent
      /\ ww.packets = w.packets /\ ww.scan = w.scan /\ ww.login = w.login /\ ww.open = w.open
      /\ ww.stray = w.stray
  BY <1>1 DEF Ctx
<1> HIDE DEF ww
<1>3. Ready(ww)
  BY <1>2 DEF Progress, Ready
<1>4. HandlerOK(ww.s, r) /\ Holds(ww.s) = Holds(w.s)
  BY <1>2 DEF Progress, HandlerOK, Holds
<1>5. Progress(w0, r, ww)
  BY <1>2, <1>3, <1>4 DEF Progress
<1> QED
  BY <1>2, <1>5 DEF ww

\* What a processing within a receive callback makes of w.
Handled(w0, r, w, ww) ==
  /\ Progress(w0, r, ww)
  /\ IF r.method \in {"GET", "POST"} THEN Processed(w, r, ww) ELSE ww = w
  /\ ww.s = [w.s EXCEPT !.cgi = ww.s.cgi, !.cgiData = ww.s.cgiData]
  /\ r.method \in {"GET", "POST"} => ww.sent # <<>>

\* A request is processed, unless its first line was not understood.
LEMMA ProcessFeeds ==
  ASSUME NEW w0, NEW r \in Requests, NEW w, Progress(w0, r, w), FilesFit => w.s.cgi # "cgiEspFsHook",
         w.s.url = IF r.method \in {"GET", "POST"} THEN r.url ELSE "NULL"
  PROVE  Handled(w0, r, w, httpdProcessRequest(w, r))
<1>1. CASE w.s.url = "NULL"
  <2>1. httpdProcessRequest(w, r) = w /\ r.method \notin {"GET", "POST"}
    BY <1>1, RequestFacts DEF httpdProcessRequest
  <2>2. w.s \in SlotRec
    BY DEF Progress, Ready, Ctx
  <2>3. w.s = [w.s EXCEPT !.cgi = w.s.cgi, !.cgiData = w.s.cgiData]
    <3> DEFINE s == w.s
    <3> HIDE DEF s
    <3>1. s = [s EXCEPT !.cgi = s.cgi, !.cgiData = s.cgiData]
      BY <2>2 DEF SlotRec, s
    <3> QED
      BY <3>1 DEF s
  <2> QED
    BY <2>1, <2>3 DEF Handled
<1>2. CASE w.s.url # "NULL"
  <2> DEFINE ww == httpdProcessRequest(w, r)
  <2>1. Progress(w0, r, ww) /\ ww.sent # <<>> /\ OnePacket(w, ww)
    BY <1>2, RequestFacts, ProcessProgress
  <2> HIDE DEF ww
  <2>2. ww.s = [w.s EXCEPT !.cgi = ww.s.cgi, !.cgiData = ww.s.cgiData]
    BY <2>1 DEF OnePacket
  <2>3. Processed(w, r, ww) /\ r.method \in {"GET", "POST"}
    <3>1. Ready(w) /\ r.url \in Urls
      BY RequestFacts DEF Progress
    <3> QED
      BY <1>2, <3>1, ProcessGives DEF ww
  <2> QED
    BY <2>1, <2>2, <2>3 DEF Handled, ww
<1> QED
  BY <1>1, <1>2

\* A file's handler is at work only when the request is complete.
LEMMA NoFileYet ==
  ASSUME FilesFit, NEW w0, NEW r \in Requests, NEW w, NEW k \in Nat, Feeding(w0, r, w, k),
         k < r.head + r.body
  PROVE  w.s.cgi # "cgiEspFsHook"
<1> SUFFICES ASSUME w.s.cgi = "cgiEspFsHook" PROVE FALSE
  OBVIOUS
<1>1. FileName(r.url) \in DOMAIN Files
  BY DEF Feeding, Progress, HandlerOK
<1>2. r.body <= MaxPost
  BY <1>1 DEF FilesFit
<1> QED
  BY <1>2 DEF Feeding, FedOK

\* What a unit did that led to no processing, or to one of a request that was not
\* understood: nothing was sent.
Quiet(w, r, ww, k) ==
  /\ ww.sent = w.sent /\ ww.s.cgi = w.s.cgi /\ ww.s.cgiData = w.s.cgiData
  /\ Understood(r) /\ k + 1 < r.head + r.body =>
       ww.s.received - ww.s.buffLen = w.s.received - w.s.buffLen

\* What it did if it led to a processing: the body is complete, or the buffer full.
Acted(w, r, ww, k) ==
  /\ Understood(r)
  /\ r.body <= MaxPost => k + 1 = r.head + r.body
  /\ k + 1 < r.head + r.body =>
       ww.s.received = w.s.received + 1 /\ ww.s.buffLen = 0 /\ w.s.buffLen + 1 = MaxPost
  /\ r.body = 0 \/ w.s.received < r.body
  /\ \E v, x : /\ Processed(v, r, x) /\ v.sent = w.sent /\ v.scan = w.scan
               /\ ww.sent = x.sent /\ ww.s.cgi = x.s.cgi /\ ww.s.cgiData = x.s.cgiData

\* One more unit of the head.
LEMMA HeadUnitFeeds ==
  ASSUME NEW w0, NEW r \in Requests, NEW w, NEW k \in Nat, Feeding(w0, r, w, k),
         k < r.head + r.body, ~Parsed(r, k)
  PROVE  /\ Feeding(w0, r, HeadUnit(w, r, k + 1 = r.head), k + 1)
         /\ Quiet(w, r, HeadUnit(w, r, k + 1 = r.head), k) \/ Acted(w, r, HeadUnit(w, r, k + 1 = r.head), k)
<1> DEFINE s == w.s
           p == Least({MaxHead, s.headPos + 1})
           s1 == [s EXCEPT !.headPos = p]
           ww == [w EXCEPT !.s = s1]
           url == IF r.method \in {"GET", "POST"} THEN r.url ELSE "NULL"
           s2 == [s EXCEPT !.headPos = p, !.len = r.body, !.url = url]
           parsed == [w EXCEPT !.s = s2]
<1>1. Progress(w0, r, w) /\ w \in Ctx /\ s \in SlotRec
  BY DEF Feeding, Progress, Ready, Ctx
<1>2. /\ s.len = InHead /\ s.received = 0 /\ s.buffLen = 0 /\ s.url = "NULL" /\ s.cgi = "NULL"
      /\ s.headPos = IF k < MaxHead THEN k ELSE MaxHead
  BY DEF Feeding, FedOK
<1>3. /\ r.head \in Nat \ {0} /\ r.body \in Nat /\ r.url \in Urls /\ r.url # "NULL"
      /\ MaxHead \in Nat \ {0} /\ MaxPost \in Nat \ {0}
  BY RequestFacts
<1>4. p = (IF k + 1 < MaxHead THEN k + 1 ELSE MaxHead) /\ p \in 0 .. MaxHead
  <2> DEFINE q == s.headPos + 1
  <2>1. q \in Int /\ MaxHead \in Int /\ p = Least({MaxHead, q})
    BY <1>2, <1>3
  <2>2. q = IF k < MaxHead THEN k + 1 ELSE MaxHead + 1
    BY <1>2
  <2> HIDE DEF q, p
  <2>3. (MaxHead <= q => p = MaxHead) /\ (q <= MaxHead => p = q)
    BY <2>1, LeastOfTwo
  <2> QED
    BY <1>3, <2>1, <2>2, <2>3
<1>5. HeadUnit(w, r, k + 1 = r.head) =
        IF k + 1 # r.head \/ s.headPos = MaxHead THEN ww
        ELSE IF parsed.s.len = 0 THEN httpdProcessRequest(parsed, r) ELSE parsed
  <2>1. httpdParseHeader(ww, r) = parsed
    <3>1. ww.s = s1
      BY <1>1 DEF Ctx
    <3>2. httpdParseHeader(ww, r) = [ww EXCEPT !.s = [s1 EXCEPT !.len = r.body, !.url = url]]
      BY <3>1 DEF httpdParseHeader
    <3>3. [s1 EXCEPT !.len = r.body, !.url = url] = s2
      <4> HIDE DEF s, p, url
      <4> QED
        BY <1>1 DEF SlotRec
    <3> QED
      BY <3>2, <3>3
  <2>2. [w EXCEPT !.s.headPos = Least({MaxHead, @ + 1})] = ww
    OBVIOUS
  <2> HIDE DEF ww, parsed
  <2> QED
    BY <2>1, <2>2 DEF HeadUnit
<1> HIDE DEF p
<1>6. url \in Urls \cup {"NULL"}
  BY <1>3
<1> HIDE DEF s, url
<1>7. /\ s1 \in SlotRec /\ s1.cgi = s.cgi /\ s1.cgiData = s.cgiData /\ s1.len = s.len
      /\ s1.received = s.received /\ s1.buffLen = s.buffLen /\ s1.url = s.url /\ s1.headPos = p
      /\ s2 \in SlotRec /\ s2.cgi = s.cgi /\ s2.cgiData = s.cgiData /\ s2.len = r.body
      /\ s2.received = s.received /\ s2.buffLen = s.buffLen /\ s2.url = url
  <2>1. s \in SlotRec /\ p \in 0 .. MaxHead /\ url \in Urls \cup {"NULL"} /\ r.body \in Int
    BY <1>1, <1>3, <1>4, <1>6
  <2>2. /\ s1 \in SlotRec /\ s1.cgi = s.cgi /\ s1.cgiData = s.cgiData /\ s1.len = s.len
        /\ s1.received = s.received /\ s1.buffLen = s.buffLen /\ s1.url = s.url /\ s1.headPos = p
    BY <2>1 DEF SlotRec
  <2>3. /\ s2 \in SlotRec /\ s2.cgi = s.cgi /\ s2.cgiData = s.cgiData /\ s2.len = r.body
        /\ s2.received = s.received /\ s2.buffLen = s.buffLen /\ s2.url = url
    BY <2>1 DEF SlotRec
  <2> QED
    BY <2>2, <2>3
<1> HIDE DEF s1, s2
<1>8. /\ Progress(w0, r, ww) /\ ww.s = s1 /\ Progress(w0, r, parsed) /\ parsed.s = s2
  BY <1>1, <1>7, SlotChanged DEF s
<1> HIDE DEF ww, parsed
<1>11. ww.sent = w.sent /\ parsed.sent = w.sent /\ ww.scan = w.scan /\ parsed.scan = w.scan
       /\ w.s = s
  <2>1. ww = [w EXCEPT !.s = s1] /\ parsed = [w EXCEPT !.s = s2]
    BY DEF ww, parsed
  <2> QED
    BY <1>1, <2>1 DEF Ctx, s
<1>9. CASE k + 1 # r.head \/ s.headPos = MaxHead
  <2>1. ~Parsed(r, k + 1)
    BY <1>2, <1>3, <1>9 DEF Parsed
  <2>2. FedOK(s1, r, k + 1)
    BY <1>2, <1>4, <1>7, <2>1 DEF FedOK
  <2>3. ~(k + 1 = r.head + r.body /\ Understood(r))
    BY <1>3, <2>1 DEF Parsed, Understood
  <2>4. Feeding(w0, r, ww, k + 1)
    BY <1>8, <2>2, <2>3 DEF Feeding
  <2>5. Quiet(w, r, ww, k)
    BY <1>7, <1>8, <1>11 DEF Quiet
  <2> QED
    BY <1>5, <1>9, <2>4, <2>5
<1>10. CASE ~(k + 1 # r.head \/ s.headPos = MaxHead)
  <2>1. k + 1 = r.head /\ Parsed(r, k + 1)
    BY <1>2, <1>3, <1>10 DEF Parsed
  <2>2. ASSUME NEW x, x.len = r.body, x.received = 0, x.buffLen = 0, x.url = url,
               r.body # 0 => x.cgi = "NULL"
        PROVE  FedOK(x, r, k + 1)
    <3>1. k + 1 - r.head = 0 /\ 0 < MaxPost /\ (k + 1 < r.head + r.body => r.body # 0)
      BY <1>3, <2>1
    <3> QED
      BY <2>1, <2>2, <3>1 DEF FedOK, url
  <2>3. CASE r.body = 0
    <3> DEFINE v == httpdProcessRequest(parsed, r)
    <3>1. Handled(w0, r, parsed, v)
      <4>1. parsed.s.cgi # "cgiEspFsHook" /\ parsed.s.url = IF r.method \in {"GET", "POST"} THEN r.url ELSE "NULL"
        BY <1>2, <1>7, <1>8 DEF url
      <4> QED
        BY <1>8, <4>1, ProcessFeeds
    <3> HIDE DEF v
    <3>2. FedOK(v.s, r, k + 1)
      <4>1. v.s.len = r.body /\ v.s.received = 0 /\ v.s.buffLen = 0 /\ v.s.url = url
        BY <1>2, <1>7, <1>8, <3>1 DEF Handled, SlotRec
      <4> QED
        BY <2>2, <2>3, <4>1
    <3>3. Feeding(w0, r, v, k + 1)
      BY <3>1, <3>2 DEF Handled, Feeding, Understood
    <3>4. k + 1 = r.head + r.body /\ r.head <= MaxHead
      BY <1>3, <2>1, <2>3 DEF Parsed
    <3>5. ASSUME v = parsed PROVE Quiet(w, r, v, k)
      BY <1>3, <1>7, <1>8, <1>11, <3>4, <3>5 DEF Quiet
    <3>6. ASSUME r.method \in {"GET", "POST"}, Processed(parsed, r, v) PROVE Acted(w, r, v, k)
      <4>1. ~(k + 1 < r.head + r.body) /\ Understood(r)
        BY <1>3, <3>4, <3>6 DEF Understood
      <4>2. \E u, x : /\ Processed(u, r, x) /\ u.sent = w.sent /\ u.scan = w.scan
                      /\ v.sent = x.sent /\ v.s.cgi = x.s.cgi /\ v.s.cgiData = x.s.cgiData
        BY <1>11, <3>6
      <4> QED
        BY <2>3, <3>4, <4>1, <4>2 DEF Acted
    <3>7. Quiet(w, r, v, k) \/ Acted(w, r, v, k)
      BY <3>1, <3>5, <3>6 DEF Handled
    <3> QED
      BY <1>5, <1>7, <1>8, <1>10, <2>3, <3>3, <3>7 DEF v
  <2>4. CASE r.body # 0
    <3>1. FedOK(s2, r, k + 1)
      BY <1>2, <1>7, <2>2
    <3>2. Feeding(w0, r, parsed, k + 1)
      BY <1>3, <1>8, <2>1, <2>4, <3>1 DEF Feeding
    <3>3. Quiet(w, r, parsed, k)
      BY <1>7, <1>8, <1>11 DEF Quiet
    <3> QED
      BY <1>5, <1>7, <1>8, <1>10, <2>4, <3>2, <3>3
  <2> QED
    BY <2>3, <2>4
<1> QED
  BY <1>9, <1>10

\* One more unit of the body.
LEMMA BodyUnitFeeds ==
  ASSUME NEW w0, NEW r \in Requests, NEW w, NEW k \in Nat, Feeding(w0, r, w, k),
         k < r.head + r.body, Parsed(r, k)
  PROVE  /\ Feeding(w0, r, BodyUnit(w, r), k + 1)
         /\ Quiet(w, r, BodyUnit(w, r), k) \/ Acted(w, r, BodyUnit(w, r), k)
<1> DEFINE s == w.s
           url == IF r.method \in {"GET", "POST"} THEN r.url ELSE "NULL"
           s1 == [s EXCEPT !.buffLen = @ + 1, !.received = @ + 1]
           ww == [w EXCEPT !.s = s1]
           size == Least({MaxPost, s.len})
           v == httpdProcessRequest(ww, r)
           s2 == [v.s EXCEPT !.buffLen = 0]
           vv == [v EXCEPT !.s = s2]
<1>1. Progress(w0, r, w) /\ w \in Ctx /\ s \in SlotRec
  BY DEF Feeding, Progress, Ready, Ctx
<1>2. /\ s.len = r.body /\ s.received = k - r.head /\ s.buffLen < MaxPost /\ s.url = url
      /\ r.body <= MaxPost => s.buffLen = s.received /\ s.cgi = "NULL"
  BY DEF Feeding, FedOK
<1>3. /\ r.head \in Nat \ {0} /\ r.body \in Nat /\ r.head <= k
      /\ MaxHead \in Nat \ {0} /\ MaxPost \in Nat \ {0} /\ Parsed(r, k + 1)
  BY RequestFacts DEF Parsed
<1>4. size = IF MaxPost <= r.body THEN MaxPost ELSE r.body
  BY <1>2, <1>3, LeastOfTwo
<1>5. BodyUnit(w, r) = IF ww.s.buffLen >= size \/ ww.s.received = s.len
                         THEN [v EXCEPT !.s.buffLen = 0] ELSE ww
  <2> DEFINE u == [w EXCEPT !.s.buffLen = @ + 1, !.s.received = @ + 1]
  <2>1. BodyUnit(w, r) = IF u.s.buffLen >= size \/ u.s.received = s.len
                           THEN [httpdProcessRequest(u, r) EXCEPT !.s.buffLen = 0] ELSE u
    BY DEF BodyUnit
  <2>2. u = ww
    BY <1>1 DEF Ctx
  <2> HIDE DEF u
  <2> QED
    BY <2>1, <2>2
<1>6. FilesFit => w.s.cgi # "cgiEspFsHook"
  BY NoFileYet
<1> HIDE DEF size, url
<1>7. /\ s1 \in SlotRec /\ s1.cgi = s.cgi /\ s1.cgiData = s.cgiData /\ s1.len = s.len
      /\ s1.received = s.received + 1 /\ s1.buffLen = s.buffLen + 1 /\ s1.url = s.url
      /\ s.buffLen \in Nat
  <2> DEFINE n == s.buffLen + 1
             m == s.received + 1
  <2> HIDE DEF s
  <2>1. s.buffLen \in Nat /\ s.received \in Nat
    BY <1>1 DEF SlotRec
  <2>2. n \in Nat /\ m \in Nat /\ s1 = [s EXCEPT !.buffLen = n, !.received = m]
    BY <2>1
  <2> HIDE DEF n, m, s1
  <2>3. /\ s1 \in SlotRec /\ s1.cgi = s.cgi /\ s1.cgiData = s.cgiData /\ s1.len = s.len
        /\ s1.received = m /\ s1.buffLen = n /\ s1.url = s.url
    BY <1>1, <2>2 DEF SlotRec
  <2> QED
    BY <2>1, <2>3 DEF n, m
<1> HIDE DEF s1
<1>8. Progress(w0, r, ww) /\ ww.s = s1
  BY <1>1, <1>7, SlotChanged
<1> HIDE DEF ww
<1>11. ww.sent = w.sent /\ ww.scan = w.scan /\ w.s = s
  <2>1. ww = [w EXCEPT !.s = s1]
    BY DEF ww
  <2> QED
    BY <1>1, <2>1 DEF Ctx
<1>9. CASE ~(ww.s.buffLen >= size \/ ww.s.received = s.len)
  <2>1. s.buffLen + 1 < size /\ k + 1 - r.head # r.body
    BY <1>2, <1>3, <1>7, <1>8, <1>9, <1>4
  <2>2. FedOK(s1, r, k + 1)
    BY <1>2, <1>3, <1>4, <1>7, <2>1 DEF FedOK, url
  <2>3. Feeding(w0, r, ww, k + 1)
    BY <1>3, <1>8, <2>1, <2>2 DEF Feeding
  <2>4. Quiet(w, r, ww, k)
    <3>1. (s.received + 1) - (s.buffLen + 1) = s.received - s.buffLen
      BY <1>2, <1>3, <1>7
    <3> QED
      BY <1>7, <1>8, <1>11, <3>1 DEF Quiet
  <2> QED
    BY <1>5, <1>9, <2>3, <2>4
<1>10. CASE ww.s.buffLen >= size \/ ww.s.received = s.len
  <2>1. Handled(w0, r, ww, v)
    <3>1. (FilesFit => ww.s.cgi # "cgiEspFsHook") /\ ww.s.url = IF r.method \in {"GET", "POST"} THEN r.url ELSE "NULL"
      BY <1>2, <1>6, <1>7, <1>8 DEF url
    <3> QED
      BY <1>8, <3>1, ProcessFeeds
  <2> HIDE DEF v
  <2>2. /\ Progress(w0, r, v) /\ v.s = [s1 EXCEPT !.cgi = v.s.cgi, !.cgiData = v.s.cgiData]
        /\ v.s \in SlotRec
        /\ r.method \in {"GET", "POST"} => v.sent # <<>>
    BY <1>8, <2>1 DEF Handled, Progress, Ready, Ctx
  <2>3. /\ v.s.len = s.len /\ v.s.received = s.received + 1 /\ v.s.url = s.url
    BY <1>7, <2>2 DEF SlotRec
  <2>4. /\ s2 \in SlotRec /\ s2.cgi = v.s.cgi /\ s2.cgiData = v.s.cgiData /\ s2.buffLen = 0
        /\ s2.len = s.len /\ s2.received = s.received + 1 /\ s2.url = s.url
    <3> DEFINE x == v.s
    <3>1. x \in SlotRec /\ x.len = s.len /\ x.received = s.received + 1 /\ x.url = s.url
      BY <2>2, <2>3
    <3> HIDE DEF x, s
    <3>2. LET y == [x EXCEPT !.buffLen = 0]
          IN /\ y \in SlotRec /\ y.cgi = x.cgi /\ y.cgiData = x.cgiData /\ y.buffLen = 0
             /\ y.len = s.len /\ y.received = s.received + 1 /\ y.url = s.url
      BY <3>1 DEF SlotRec
    <3> QED
      BY <3>2 DEF x
  <2> HIDE DEF s2
  <2>5. Progress(w0, r, vv) /\ vv.s = s2 /\ vv.sent = v.sent
    BY <2>2, <2>4, SlotChanged
  <2>6. BodyUnit(w, r) = vv
    BY <1>5, <1>10 DEF s2
  <2> HIDE DEF vv
  <2>7. r.body <= MaxPost => k + 1 = r.head + r.body
    BY <1>2, <1>3, <1>4, <1>7, <1>8, <1>10
  <2>8. FedOK(s2, r, k + 1)
    BY <1>2, <1>3, <2>4, <2>7 DEF FedOK, url
  <2>9. Feeding(w0, r, vv, k + 1)
    BY <2>2, <2>5, <2>8 DEF Feeding, Understood
  <2>10. k + 1 < r.head + r.body => s.buffLen + 1 = MaxPost
    BY <1>2, <1>3, <1>4, <1>7, <1>8, <1>10, <2>7
  <2>11. Processed(ww, r, v) /\ r.method \in {"GET", "POST"} => Acted(w, r, vv, k)
    BY <1>2, <1>3, <1>11, <2>4, <2>5, <2>7, <2>10 DEF Acted, Understood, Parsed
  <2>12. v = ww /\ r.method \notin {"GET", "POST"} => Quiet(w, r, vv, k)
    BY <1>7, <1>8, <1>11, <2>4, <2>5 DEF Quiet, Understood
  <2>13. Quiet(w, r, vv, k) \/ Acted(w, r, vv, k)
    BY <2>1, <2>11, <2>12 DEF Handled
  <2> QED
    BY <2>6, <2>9, <2>13
<1> QED
  BY <1>9, <1>10

\* One more unit of a request.
LEMMA UnitFeeds ==
  ASSUME NEW w0, NEW r \in Requests, NEW w, NEW k \in Nat, Feeding(w0, r, w, k),
         k < r.head + r.body
  PROVE  /\ Feeding(w0, r, Unit(w, r, k + 1 = r.head), k + 1)
         /\ Quiet(w, r, Unit(w, r, k + 1 = r.head), k) \/ Acted(w, r, Unit(w, r, k + 1 = r.head), k)
<1>1. r.head \in Nat \ {0} /\ r.body \in Nat
  BY RequestFacts
<1>2. CASE Parsed(r, k)
  <2>1. w.s.len = r.body /\ r.body # 0
    BY <1>1, <1>2 DEF Feeding, FedOK, Parsed
  <2>2. Unit(w, r, k + 1 = r.head) = BodyUnit(w, r)
    BY <1>1, <2>1 DEF Unit, InHead
  <2> QED
    BY <1>2, <2>2, BodyUnitFeeds
<1>3. CASE ~Parsed(r, k)
  <2>1. w.s.len = InHead
    BY <1>3 DEF Feeding, FedOK
  <2>2. Unit(w, r, k + 1 = r.head) = HeadUnit(w, r, k + 1 = r.head)
    BY <2>1 DEF Unit
  <2> QED
    BY <1>3, <2>2, HeadUnitFeeds
<1> QED
  BY <1>2, <1>3

\* Feed goes through the units one by one.
LEMMA FeedRecursion ==
  ASSUME NEW w, NEW r, NEW from \in Nat \ {0}, NEW to \in Nat, from <= to
  PROVE  \E f : /\ f[from - 1] = w /\ Feed(w, r, from, to) = f[to]
                /\ \A k \in from .. to : f[k] = Unit(f[k - 1], r, k = r.head)
<1> DEFINE Good(f, n) == f = [k \in (from - 1) .. n |->
                           IF k = from - 1 THEN w ELSE Unit(f[k - 1], r, k = r.head)]
           T == {n \in Nat : \E f : Good(f, from - 1 + n)}
<1>1. 0 \in T
  <2>1. Good([k \in (from - 1) .. (from - 1) |-> w], from - 1)
    OBVIOUS
  <2>2. from - 1 + 0 = from - 1
    OBVIOUS
  <2> QED
    BY <2>1, <2>2
<1>2. ASSUME NEW d \in T PROVE d + 1 \in T
  <2> DEFINE n == from - 1 + d
  <2>1. PICK f : Good(f, n)
    OBVIOUS
  <2> DEFINE g == [k \in (from - 1) .. n + 1 |-> IF k <= n THEN f[k] ELSE Unit(f[k - 1], r, k = r.head)]
  <2>2. /\ n \in Nat /\ from - 1 <= n /\ n + 1 = from - 1 + (d + 1) /\ d \in Nat
        /\ f = [k \in (from - 1) .. n |-> IF k = from - 1 THEN w ELSE Unit(f[k - 1], r, k = r.head)]
    BY <2>1
  <2> HIDE DEF n
  <2>3. \A k \in (from - 1) .. n + 1 :
          g[k] = IF k = from - 1 THEN w ELSE Unit(g[k - 1], r, k = r.head)
    <3>1. ASSUME NEW k \in (from - 1) .. n + 1
          PROVE  g[k] = IF k = from - 1 THEN w ELSE Unit(g[k - 1], r, k = r.head)
      <4>1. k # from - 1 => k - 1 \in (from - 1) .. n /\ g[k - 1] = f[k - 1]
        BY <2>2
      <4>2. k <= n => k \in (from - 1) .. n /\ g[k] = f[k]
        BY <2>2
      <4>3. k <= n => f[k] = IF k = from - 1 THEN w ELSE Unit(f[k - 1], r, k = r.head)
        BY <2>2, <4>2
      <4>4. k > n => k # from - 1 /\ g[k] = Unit(f[k - 1], r, k = r.head)
        BY <2>2
      <4> HIDE DEF g
      <4> QED
        BY <2>2, <4>1, <4>2, <4>3, <4>4
    <3> QED
      BY <3>1
  <2>4. Good(g, n + 1)
    <3> DEFINE h == [k \in (from - 1) .. n + 1 |->
                       IF k = from - 1 THEN w ELSE Unit(g[k - 1], r, k = r.head)]
    <3>1. DOMAIN g = (from - 1) .. n + 1 /\ g = [k \in DOMAIN g |-> g[k]]
      OBVIOUS
    <3> HIDE DEF g
    <3>2. g = h
      BY <2>3, <3>1, Zenon
    <3> QED
      BY <3>2
  <2> HIDE DEF Good, g
  <2>5. \E h : Good(h, from - 1 + (d + 1))
    BY <2>2, <2>4
  <2> QED
    BY <2>2, <2>5
<1>3. \E f : Good(f, to)
  <2>1. T = Nat
    <3> HIDE DEF Good
    <3>1. T \in SUBSET Nat
      OBVIOUS
    <3> HIDE DEF T
    <3> QED
      BY <1>1, <1>2, <3>1, SetInduction
  <2>2. to - (from - 1) \in Nat /\ from - 1 + (to - (from - 1)) = to
    OBVIOUS
  <2>3. to - (from - 1) \in T
    <3> HIDE DEF T
    <3> QED
      BY <2>1, <2>2
  <2>4. \E f : Good(f, from - 1 + (to - (from - 1)))
    BY <2>3
  <2> HIDE DEF Good
  <2> QED
    BY <2>2, <2>4
<1> DEFINE f == CHOOSE fed : Good(fed, to)
<1>4. Good(f, to)
  BY <1>3
<1>5. Feed(w, r, from, to) = f[to]
  BY DEF Feed
<1> HIDE DEF f
<1>6. f[from - 1] = w /\ \A k \in from .. to : f[k] = Unit(f[k - 1], r, k = r.head)
  BY <1>4
<1> QED
  BY <1>5, <1>6

\* What the receive callback makes of the context, whatever units it delivers.
LEMMA FeedGives ==
  ASSUME NEW w0, NEW r \in Requests, NEW from \in Nat \ {0}, NEW to \in Nat,
         from <= to, to <= r.head + r.body, Feeding(w0, r, w0, from - 1)
  PROVE  Feeding(w0, r, Feed(w0, r, from, to), to)
<1>1. PICK f : /\ f[from - 1] = w0 /\ Feed(w0, r, from, to) = f[to]
               /\ \A k \in from .. to : f[k] = Unit(f[k - 1], r, k = r.head)
  BY FeedRecursion
<1> DEFINE N == to - (from - 1)
           T == {n \in 0 .. N : Feeding(w0, r, f[from - 1 + n], from - 1 + n)}
<1>2. r.head \in Nat /\ r.body \in Nat /\ N \in Nat /\ from - 1 + 0 = from - 1 /\ from - 1 + N = to
  BY RequestFacts
<1>3. 0 \in T
  BY <1>1, <1>2
<1>4. ASSUME NEW n \in 0 .. N - 1, n \in T PROVE n + 1 \in T
  <2> DEFINE k == from - 1 + n
  <2>1. k \in Nat /\ k < r.head + r.body /\ k + 1 = from - 1 + (n + 1) /\ k + 1 \in from .. to
        /\ n + 1 \in 0 .. N /\ (k + 1) - 1 = k
    BY <1>2
  <2>2. Feeding(w0, r, f[k], k)
    BY <1>4
  <2> HIDE DEF k
  <2>3. Feeding(w0, r, Unit(f[k], r, k + 1 = r.head), k + 1)
    BY <2>1, <2>2, UnitFeeds
  <2>4. f[k + 1] = Unit(f[k], r, k + 1 = r.head)
    BY <1>1, <2>1
  <2> QED
    BY <2>1, <2>3, <2>4
<1>5. N \in T
  <2> HIDE DEF T
  <2>1. \A n \in 0 .. N : n \in T
    BY <1>2, <1>3, <1>4, BoundedInduction
  <2> QED
    BY <1>2, <2>1
<1> QED
  BY <1>1, <1>2, <1>5

-----------------------------------------------------------------------------
(* The answers, element by element *)

\* As many whole pieces fit as division says.
LEMMA DivBound ==
  ASSUME NEW n \in Nat, NEW d \in Nat \ {0}, NEW a \in Nat, a * d <= n
  PROVE  a <= n \div d /\ n \div d \in Nat
<1> DEFINE q == n \div d
<1>1. q \in Int /\ d * q <= n /\ n < d * (q + 1)
  OBVIOUS
<1> HIDE DEF q
<1>2. a * d < d * (q + 1)
  <2>1. a * d \in Int /\ d * (q + 1) \in Int
    BY <1>1
  <2> QED
    BY <1>1, <2>1
<1>3. a < q + 1
  <2> SUFFICES ASSUME a >= q + 1 PROVE FALSE
    BY <1>1
  <2>1. a * d >= (q + 1) * d
    BY <1>1
  <2>2. (q + 1) * d = d * (q + 1)
    BY <1>1
  <2> QED
    BY <1>1, <1>2, <2>1, <2>2
<1>4. a <= q /\ q \in Nat
  BY <1>1, <1>3
<1> QED
  BY <1>4 DEF q

\* How many pieces there are of a length.
LEMMA PieceCount ==
  ASSUME NEW n \in Nat, NEW d \in Nat \ {0}
  PROVE  (n + d - 1) \div d \in Nat
<1> DEFINE m == n + d - 1
<1>1. m \in Nat
  OBVIOUS
<1>2. 0 * d = 0
  OBVIOUS
<1> HIDE DEF m
<1>3. 0 * d <= m
  BY <1>1, <1>2
<1>4. m \div d \in Nat
  BY <1>1, <1>3, DivBound
<1> QED
  BY <1>4 DEF m

\* A prefix, element by element.
LEMMA PrefixBy ==
  ASSUME NEW S, NEW a \in Seq(S), NEW b \in Seq(S), Len(a) <= Len(b),
         \A i \in 1 .. Len(a) : a[i] = b[i]
  PROVE  IsPrefix(a, b)
<1> DEFINE n == Len(a)
           p == SubSeq(a, 1, n)
           q == SubSeq(b, 1, n)
<1>1. n \in Nat /\ Len(b) \in Nat /\ n <= Len(b)
  BY LenProperties
<1>2. p \in Seq(S) /\ Len(p) = n /\ \A i \in 1 .. n : p[i] = a[i]
  BY <1>1
<1>3. q \in Seq(S) /\ Len(q) = n /\ \A i \in 1 .. n : q[i] = b[i]
  BY <1>1
<1> HIDE DEF p, q
<1>4. p = q
  BY <1>2, <1>3, SeqEqual
<1> QED
  BY <1>4 DEF IsPrefix, p, q

-----------------------------------------------------------------------------
(* What a client has been told *)

\* Only a form is sent with a body longer than the buffer: any other handler
\* answers such a request once for every buffer.
LongBodiesAreForms == \A r \in Requests : r.body > MaxPost => r.url = "/admin/form.cgi"

\* What a form may be answered with.
FormPages == {Answer(200, "form"), Answer(401, "forbidden")}

\* One page for every buffer of a form that was full or the last one.
FormTold(r, s, k, o) ==
  \E j \in 0 .. Pieces(r) :
    /\ Len(o) = 2 * j
    /\ \A t \in 1 .. j : <<o[2 * t - 1], o[2 * t]>> \in FormPages
    /\ Understood(r) /\ k < r.head + r.body => s.received = j * MaxPost + s.buffLen

\* The head of a file and the pieces before its position.
FileTold(s, o) ==
  \E m \in Nat :
    /\ s.cgiData = m * PieceLen + 1
    /\ Len(o) = m + 1 /\ o[1] = <<"status", 200>>
    /\ \A i \in 1 .. m : o[i + 1] = <<"piece", i * PieceLen>>

\* The head of a listing and the entries before its position, all of the scan
\* result there is; no new one is on its way.
ListTold(s, sc, o) ==
  /\ ~sc.inProgress /\ (s.cgiData = 1 \/ s.cgiData - 1 < sc.n)
  /\ Len(o) = s.cgiData + 1 /\ o[1] = <<"status", 200>> /\ o[2] = <<"begin">>
  /\ \A i \in 1 .. s.cgiData - 1 : o[i + 2] = <<"ap", sc.result, i>>

\* What was sent to a client whose request but the form's is complete.
OnceTold(r, s, sc, o) ==
  /\ s.cgi = "NULL" => o = <<>> \/ \E a \in Answers(r) : IsPrefix(o, a)
  /\ s.cgi = "cgiEspFsHook" => FileTold(s, o)
  /\ s.cgi = "cgiWiFiScan" => ListTold(s, sc, o)

\* What was sent to a client after k units of request r, by slot s and scan result sc.
Told(r, s, sc, k, o) ==
  /\ o # <<>> => Understood(r)
  /\ IF r.url = "/admin/form.cgi" THEN FormTold(r, s, k, o)
     ELSE /\ k < r.head + r.body => o = <<>>
          /\ OnceTold(r, s, sc, o)

\* No file has the URL of a form or of the listing.
LEMMA FormsAreNoFiles ==
  /\ FileName("/admin/form.cgi") \notin DOMAIN Files
  /\ FileName("/admin/wifiscan.cgi") \notin DOMAIN Files
  /\ "/admin/form.cgi" \in AdminUrls /\ "/admin/wifiscan.cgi" \in AdminUrls
  BY FilesAssumption DEF AdminUrls, FileName

\* A unit of which nothing came changes nothing of what was told.
LEMMA QuietTells ==
  ASSUME NEW r \in Requests, NEW w, w.s \in SlotRec, NEW ww, ww.s \in SlotRec, NEW k \in Nat,
         NEW sc, NEW o, Quiet(w, r, ww, k), Told(r, w.s, sc, k, o)
  PROVE  Told(r, ww.s, sc, k + 1, o)
<1>1. r.head \in Nat \ {0} /\ r.body \in Nat /\ MaxPost \in Nat \ {0}
  BY RequestFacts
<1>2. CASE r.url = "/admin/form.cgi"
  <2>1. PICK j \in 0 .. Pieces(r) :
          /\ Len(o) = 2 * j
          /\ \A t \in 1 .. j : <<o[2 * t - 1], o[2 * t]>> \in FormPages
          /\ Understood(r) /\ k < r.head + r.body => w.s.received = j * MaxPost + w.s.buffLen
    BY <1>2 DEF Told, FormTold
  <2>2. ASSUME Understood(r), k + 1 < r.head + r.body
        PROVE  ww.s.received = j * MaxPost + ww.s.buffLen
    <3> DEFINE a == w.s.received
               b == w.s.buffLen
               c == ww.s.received
               d == ww.s.buffLen
               e == j * MaxPost
    <3>1. a \in Nat /\ b \in Nat /\ c \in Nat /\ d \in Nat
      BY DEF SlotRec
    <3>2. e \in Int
      BY <1>1, <2>1
    <3>3. a = e + b /\ c - d = a - b
      BY <1>1, <2>1, <2>2 DEF Quiet
    <3> HIDE DEF a, b, c, d, e
    <3>4. c = e + d
      BY <3>1, <3>2, <3>3
    <3> QED
      BY <3>4 DEF c, d, e
  <2>3. FormTold(r, ww.s, k + 1, o)
    BY <2>1, <2>2 DEF FormTold
  <2> QED
    BY <1>2, <2>3 DEF Told
<1>3. CASE r.url # "/admin/form.cgi"
  <2>1. k + 1 < r.head + r.body => k < r.head + r.body
    BY <1>1
  <2>2. OnceTold(r, ww.s, sc, o)
    BY <1>3 DEF Told, OnceTold, Quiet, FileTold, ListTold
  <2> QED
    BY <1>3, <2>1, <2>2 DEF Told
<1> QED
  BY <1>2, <1>3

\* A sequence is a prefix of itself.
LEMMA PrefixSelf == \A o : Len(o) \in Nat => IsPrefix(o, o)
  BY DEF IsPrefix

\* The number of pieces of a form.
LEMMA PiecesType == \A r \in Requests : Pieces(r) \in Nat
<1> SUFFICES ASSUME NEW r \in Requests PROVE Pieces(r) \in Nat
  OBVIOUS
<1>1. r.body \in Nat /\ MaxPost \in Nat \ {0}
  BY RequestFacts
<1>2. (r.body + MaxPost - 1) \div MaxPost \in Nat
  BY <1>1, PieceCount
<1> QED
  BY <1>2 DEF Pieces

\* A buffer that is still to be processed has its page among the pieces of the form.
LEMMA PieceBound ==
  ASSUME NEW r \in Requests, NEW j \in Nat, IF r.body = 0 THEN j = 0 ELSE j * MaxPost < r.body
  PROVE  j + 1 <= Pieces(r) /\ Pieces(r) \in Nat
<1>1. r.body \in Nat /\ MaxPost \in Nat \ {0}
  BY RequestFacts
<1>2. CASE r.body = 0
  BY <1>2 DEF Pieces
<1>3. CASE r.body # 0
  <2> DEFINE n == r.body + MaxPost - 1
             a == j + 1
             p == j * MaxPost
  <2>1. a * MaxPost = p + MaxPost /\ p \in Nat /\ n \in Nat /\ a \in Nat
    BY <1>1
  <2>2. p < r.body
    BY <1>3
  <2> HIDE DEF p
  <2>3. a * MaxPost <= n
    BY <1>1, <2>1, <2>2
  <2> HIDE DEF n, a
  <2>4. a <= n \div MaxPost /\ n \div MaxPost \in Nat
    BY <1>1, <2>1, <2>3, DivBound
  <2> QED
    BY <1>3, <2>4 DEF Pieces, n, a
<1> QED
  BY <1>2, <1>3

\* A form is answered by one page, whatever becomes of it.
LEMMA FormProcessed ==
  ASSUME NEW r, r.url = "/admin/form.cgi", NEW v, NEW x, Processed(v, r, x)
  PROVE  \E a \in FormPages : x.sent = v.sent \o a
<1>1. ~Answered(v, r, x) /\ ~ListingBusy(v, r, x) /\ ~ListingBegun(v, r, x) /\ ~FileBegun(v, r, x)
  BY FormsAreNoFiles DEF Answered, PlainAnswers, ListingBusy, ListingBegun, FileBegun
<1> QED
  BY <1>1 DEF Processed, Refused, FormTaken, Replied, FormPages

\* A page of a form is a pair of items.
LEMMA FormPageFacts ==
  ASSUME NEW a \in FormPages
  PROVE  a \in Seq(Item) /\ Len(a) = 2 /\ <<a[1], a[2]>> = a
<1>1. Answer(200, "form") \in Seq(Item) /\ Answer(401, "forbidden") \in Seq(Item)
  <2>1. {200, 401} \subseteq Codes /\ {"form", "forbidden"} \subseteq Words
    BY DEF Codes, Words
  <2> QED
    BY <2>1, AnswerFacts
<1>2. a \in Seq(Item)
  BY <1>1 DEF FormPages
<1>3. \A x, y : Len(<<x, y>>) = 2 /\ <<x, y>>[1] = x /\ <<x, y>>[2] = y
  OBVIOUS
<1>4. \E x, y : a = <<x, y>>
  BY DEF FormPages, Answer
<1> QED
  BY <1>2, <1>3, <1>4

\* A page more.
LEMMA FormPageAdded ==
  ASSUME NEW o \in Seq(Item), NEW a \in FormPages, NEW j \in Nat, Len(o) = 2 * j,
         \A t \in 1 .. j : <<o[2 * t - 1], o[2 * t]>> \in FormPages
  PROVE  /\ Len(o \o a) = 2 * (j + 1)
         /\ \A t \in 1 .. j + 1 : <<(o \o a)[2 * t - 1], (o \o a)[2 * t]>> \in FormPages
<1>1. a \in Seq(Item) /\ Len(a) = 2 /\ <<a[1], a[2]>> = a
  BY FormPageFacts
<1> DEFINE oa == o \o a
<1>2. /\ Len(oa) = 2 * j + 2
      /\ \A i \in 1 .. 2 * j : oa[i] = o[i]
      /\ \A i \in 2 * j + 1 .. 2 * j + 2 : oa[i] = a[i - 2 * j]
  <2>1. /\ Len(oa) = Len(o) + Len(a)
        /\ \A i \in 1 .. Len(o) + Len(a) : oa[i] = IF i <= Len(o) THEN o[i] ELSE a[i - Len(o)]
    BY <1>1, ConcatProperties
  <2> HIDE DEF oa
  <2> QED
    BY <1>1, <2>1
<1> HIDE DEF oa
<1>3. oa[2 * j + 1] = a[1] /\ oa[2 * j + 2] = a[2]
  <2>1. 2 * j + 1 - 2 * j = 1 /\ 2 * j + 2 - 2 * j = 2
    OBVIOUS
  <2> QED
    BY <1>2, <2>1
<1>4. ASSUME NEW t \in 1 .. j + 1 PROVE <<oa[2 * t - 1], oa[2 * t]>> \in FormPages
  <2>1. CASE t <= j
    <3>1. 2 * t - 1 \in 1 .. 2 * j /\ 2 * t \in 1 .. 2 * j /\ t \in 1 .. j
      BY <2>1
    <3> QED
      BY <1>2, <3>1
  <2>2. CASE t > j
    <3>1. t = j + 1 /\ 2 * t - 1 = 2 * j + 1 /\ 2 * t = 2 * j + 2
      BY <2>2
    <3> QED
      BY <1>1, <1>3, <3>1
  <2> QED
    BY <2>1, <2>2
<1>5. 2 * j + 2 = 2 * (j + 1)
  OBVIOUS
<1> QED
  BY <1>2, <1>4, <1>5 DEF oa

\* What any other request is answered when it is complete.
LEMMA OnceProcessed ==
  ASSUME NEW r, Understood(r), r.url # "/admin/form.cgi", NEW v, NEW x, Processed(v, r, x)
  PROVE  \E a \in Seq(Item) : x.sent = v.sent \o a /\ OnceTold(r, x.s, v.scan, a)
<1>1. \A code \in Codes, word \in Words :
        Answer(code, word) \in Seq(Item) /\ IsPrefix(Answer(code, word), Answer(code, word))
  <2> SUFFICES ASSUME NEW code \in Codes, NEW word \in Words
               PROVE  Answer(code, word) \in Seq(Item) /\ IsPrefix(Answer(code, word), Answer(code, word))
    OBVIOUS
  <2> DEFINE a == Answer(code, word)
  <2>1. a \in Seq(Item)
    BY AnswerFacts
  <2> HIDE DEF a
  <2>2. IsPrefix(a, a)
    BY <2>1, PrefixSelf
  <2> QED
    BY <2>1, <2>2 DEF a
<1>2. /\ {200, 302, 401, 404} \subseteq Codes
      /\ {"moved", "values", "build", "forbidden", "notfound", "busy", "begin"} \subseteq Words
  BY DEF Codes, Words
<1>3. ASSUME NEW code \in Codes, NEW word \in Words, Replied(v, x, Answer(code, word)),
             Answer(code, word) \in Answers(r)
      PROVE  \E a \in Seq(Item) : x.sent = v.sent \o a /\ OnceTold(r, x.s, v.scan, a)
  <2> DEFINE a == Answer(code, word)
  <2>1. a \in Seq(Item) /\ IsPrefix(a, a)
    BY <1>1
  <2>2. a \in Answers(r) /\ Replied(v, x, a)
    BY <1>3
  <2> HIDE DEF a
  <2> QED
    BY <2>1, <2>2 DEF Replied, OnceTold
<1>4. CASE Refused(v, r, x)
  <2>1. Answer(401, "forbidden") \in Answers(r)
    BY <1>4 DEF Refused, Accepted, Answers
  <2> QED
    BY <1>2, <1>3, <1>4, <2>1 DEF Refused
<1>5. CASE Answered(v, r, x)
  <2>1. PICK a \in PlainAnswers(r) : Replied(v, x, a)
    BY <1>5 DEF Answered
  <2>2. \E code \in Codes, word \in Words : a = Answer(code, word)
    <3>1. a \in {Answer(302, "moved"), Answer(200, "values"), Answer(200, "build"), Answer(404, "notfound")}
      BY <2>1 DEF PlainAnswers
    <3> QED
      BY <1>2, <3>1
  <2>3. a \in Answers(r)
    BY <2>1, FilesAssumption DEF PlainAnswers, Contents, Answers, FileName
  <2> QED
    BY <1>3, <2>1, <2>2, <2>3
<1>6. ~FormTaken(v, r, x)
  BY DEF FormTaken
<1>7. CASE ListingBusy(v, r, x)
  <2>1. r.url = "/admin/wifiscan.cgi" /\ Replied(v, x, Answer(200, "busy"))
    BY <1>7 DEF ListingBusy
  <2>2. Answer(200, "busy") \in Answers(r)
    <3>1. Contents(r) = Listings \cup {<<<<"status", 200>>, <<"busy">>>>}
      BY <2>1, FormsAreNoFiles DEF Contents
    <3>2. Answer(200, "busy") \in Contents(r)
      BY <3>1 DEF Answer
    <3> QED
      BY <3>2 DEF Answers
  <2> QED
    BY <1>2, <1>3, <2>1, <2>2, SMTT(30)
<1>8. CASE ListingBegun(v, r, x)
  <2> DEFINE a == Answer(200, "begin")
  <2>1. a \in Seq(Item)
    BY <1>1, <1>2
  <2>2. Len(a) = 2 /\ a[1] = <<"status", 200>> /\ a[2] = <<"begin">>
    BY DEF Answer
  <2> HIDE DEF a
  <2>3. /\ ~v.scan.inProgress /\ x.sent = v.sent \o a /\ x.s.cgi = "cgiWiFiScan" /\ x.s.cgiData = 1
    BY <1>8 DEF ListingBegun, a
  <2>4. ListTold(x.s, v.scan, a)
    BY <2>2, <2>3 DEF ListTold
  <2> QED
    BY <2>1, <2>3, <2>4 DEF OnceTold
<1>9. CASE FileBegun(v, r, x)
  <2> DEFINE a == <<<<"status", 200>>>>
  <2>1. a \in Seq(Item) /\ Len(a) = 1 /\ a[1] = <<"status", 200>>
    <3>1. <<"status", 200>> \in Item
      BY <1>2, Items
    <3> QED
      BY <3>1
  <2> HIDE DEF a
  <2>2. x.sent = v.sent \o a /\ x.s.cgi = "cgiEspFsHook" /\ x.s.cgiData = 1
    BY <1>9 DEF FileBegun, a
  <2>3. FileTold(x.s, a)
    <3>1. PieceLen \in Nat /\ 1 = 0 * PieceLen + 1 /\ 1 = 0 + 1
      BY LengthsAssumption
    <3> QED
      BY <2>1, <2>2, <3>1 DEF FileTold
  <2> QED
    BY <2>1, <2>2, <2>3 DEF OnceTold
<1> QED
  BY <1>4, <1>5, <1>6, <1>7, <1>8, <1>9 DEF Processed

\* What is told by two packets after what was told before.
LEMMA ToldInTurn ==
  ASSUME NEW o \in Seq(Item), NEW b \in Seq(Item), NEW a \in Seq(Item)
  PROVE  o \o (b \o a) = (o \o b) \o a
  BY ConcatAssociative

\* A unit that led to a processing: one page more of a form, or the beginning of
\* the answer to a request that is complete.
LEMMA ActedTells ==
  ASSUME LongBodiesAreForms, NEW r \in Requests, NEW w, w.s \in SlotRec, w.sent \in Seq(Item),
         NEW ww, ww.s \in SlotRec, NEW k \in Nat, k < r.head + r.body, FedOK(w.s, r, k),
         NEW o \in Seq(Item), Acted(w, r, ww, k), Told(r, w.s, w.scan, k, o \o w.sent)
  PROVE  Told(r, ww.s, w.scan, k + 1, o \o ww.sent)
<1>1. r.head \in Nat \ {0} /\ r.body \in Nat /\ MaxPost \in Nat \ {0}
  BY RequestFacts
<1>2. Understood(r)
  BY DEF Acted
<1>3. PICK v, x : /\ Processed(v, r, x) /\ v.sent = w.sent /\ v.scan = w.scan
                  /\ ww.sent = x.sent /\ ww.s.cgi = x.s.cgi /\ ww.s.cgiData = x.s.cgiData
  BY DEF Acted
<1>4. \A a \in Seq(Item) : x.sent = v.sent \o a => o \o ww.sent = (o \o w.sent) \o a
  <2> SUFFICES ASSUME NEW a \in Seq(Item), x.sent = v.sent \o a
               PROVE  o \o ww.sent = (o \o w.sent) \o a
    OBVIOUS
  <2> DEFINE b == w.sent
  <2>1. b \in Seq(Item) /\ ww.sent = b \o a
    BY <1>3
  <2> HIDE DEF b
  <2>2. o \o (b \o a) = (o \o b) \o a
    BY <2>1, ToldInTurn, Zenon
  <2> QED
    BY <2>1, <2>2 DEF b
<1> DEFINE ow == o \o w.sent
           oww == o \o ww.sent
<1>5. ow \in Seq(Item)
  BY ConcatProperties
<1>6. CASE r.url = "/admin/form.cgi"
  <2>1. PICK j \in 0 .. Pieces(r) :
          /\ Len(ow) = 2 * j
          /\ \A t \in 1 .. j : <<ow[2 * t - 1], ow[2 * t]>> \in FormPages
          /\ w.s.received = j * MaxPost + w.s.buffLen
    BY <1>2, <1>6 DEF Told, FormTold
  <2>2. PICK a \in FormPages : x.sent = v.sent \o a
    <3>1. Processed(v, r, x)
      BY <1>3
    <3> QED
      BY <1>6, <3>1, FormProcessed
  <2>3. oww = ow \o a
    BY <1>4, <2>2, FormPageFacts
  <2> HIDE DEF ow, oww
  <2>4. /\ Len(oww) = 2 * (j + 1)
        /\ \A t \in 1 .. j + 1 : <<oww[2 * t - 1], oww[2 * t]>> \in FormPages
    <3>1. j \in Nat
      BY <2>1, PiecesType
    <3> QED
      BY <1>5, <2>1, <2>3, <3>1, FormPageAdded
  <2> DEFINE p == j * MaxPost
             a1 == w.s.received
             b1 == w.s.buffLen
  <2>5. p \in Nat /\ a1 \in Nat /\ b1 \in Nat /\ a1 = p + b1 /\ (j + 1) * MaxPost = p + MaxPost /\ j \in Nat
    BY <1>1, <2>1, PiecesType DEF SlotRec
  <2>6. j + 1 \in 0 .. Pieces(r)
    <3>1. IF r.body = 0 THEN j = 0 ELSE p < r.body
      <4>1. CASE r.body = 0
        <5>1. a1 = 0
          BY <1>1, <4>1 DEF FedOK, Parsed
        <5>2. j = 0
          <6> SUFFICES ASSUME j >= 1 PROVE FALSE
            BY <2>5
          <6>1. p >= MaxPost
            BY <1>1, <2>5
          <6> HIDE DEF p, a1, b1
          <6> QED
            BY <1>1, <2>5, <5>1, <6>1
        <5> QED
          BY <4>1, <5>2
      <4>2. CASE r.body # 0
        <5>1. a1 < r.body
          BY <4>2 DEF Acted
        <5> HIDE DEF p, a1, b1
        <5> QED
          BY <1>1, <2>5, <4>2, <5>1
      <4> QED
        BY <4>1, <4>2
    <3>2. j + 1 <= Pieces(r) /\ Pieces(r) \in Nat
      BY <2>5, <3>1, PieceBound
    <3> QED
      BY <2>5, <3>2
  <2>7. k + 1 < r.head + r.body => ww.s.received = (j + 1) * MaxPost + ww.s.buffLen
    <3> SUFFICES ASSUME k + 1 < r.head + r.body PROVE ww.s.received = (j + 1) * MaxPost + ww.s.buffLen
      OBVIOUS
    <3>1. ww.s.received = a1 + 1 /\ ww.s.buffLen = 0 /\ b1 + 1 = MaxPost
      BY DEF Acted
    <3> HIDE DEF p, a1, b1
    <3> QED
      BY <1>1, <2>5, <3>1
  <2>8. FormTold(r, ww.s, k + 1, oww)
    BY <2>4, <2>6, <2>7 DEF FormTold
  <2> QED
    BY <1>2, <1>6, <2>8 DEF Told, oww
<1>7. CASE r.url # "/admin/form.cgi"
  <2>1. k + 1 = r.head + r.body
    BY <1>1, <1>7 DEF LongBodiesAreForms, Acted
  <2>2. ow = <<>>
    BY <1>7 DEF Told
  <2>3. PICK a \in Seq(Item) : x.sent = v.sent \o a /\ OnceTold(r, x.s, v.scan, a)
    BY <1>2, <1>3, <1>7, OnceProcessed
  <2>4. oww = ow \o a
    BY <1>4, <2>3
  <2> HIDE DEF ow, oww
  <2>5. oww = a
    BY <2>2, <2>4
  <2>6. OnceTold(r, ww.s, w.scan, oww)
    BY <1>3, <2>3, <2>5 DEF OnceTold, FileTold, ListTold
  <2>7. Told(r, ww.s, w.scan, k + 1, oww)
    BY <1>2, <1>7, <2>1, <2>6 DEF Told
  <2> QED
    BY <2>7 DEF oww
<1> QED
  BY <1>6, <1>7

\* The context after k units, with what was told before.
Telling(w0, r, w, k, o) ==
  o \in Seq(Item) /\ Feeding(w0, r, w, k) /\ Told(r, w.s, w.scan, k, o \o w.sent)

\* One more unit keeps what was told in step with the slot.
LEMMA UnitTells ==
  ASSUME LongBodiesAreForms, NEW w0, NEW r \in Requests, NEW w, NEW k \in Nat, NEW o,
         Telling(w0, r, w, k, o), k < r.head + r.body
  PROVE  Telling(w0, r, Unit(w, r, k + 1 = r.head), k + 1, o)
<1> DEFINE ww == Unit(w, r, k + 1 = r.head)
<1>1. Feeding(w0, r, ww, k + 1) /\ (Quiet(w, r, ww, k) \/ Acted(w, r, ww, k))
  BY UnitFeeds DEF Telling
<1> HIDE DEF ww
<1>2. /\ w \in Ctx /\ w.s \in SlotRec /\ w.sent \in Seq(Item) /\ FedOK(w.s, r, k) /\ w.scan = w0.scan
      /\ ww.s \in SlotRec /\ ww.scan = w0.scan /\ o \in Seq(Item)
      /\ Told(r, w.s, w.scan, k, o \o w.sent)
  BY <1>1 DEF Telling, Feeding, Progress, Ready, Ctx
<1>3. Told(r, ww.s, w.scan, k + 1, o \o ww.sent)
  <2>1. CASE Quiet(w, r, ww, k)
    <3>1. o \o ww.sent = o \o w.sent
      BY <2>1 DEF Quiet
    <3> DEFINE ow == o \o w.sent
    <3>2. Told(r, w.s, w.scan, k, ow)
      BY <1>2
    <3> HIDE DEF ow
    <3>3. Told(r, ww.s, w.scan, k + 1, ow)
      BY <1>2, <2>1, <3>2, QuietTells
    <3> QED
      BY <3>1, <3>3 DEF ow
  <2>2. CASE Acted(w, r, ww, k)
    BY <1>2, <2>2, ActedTells
  <2> QED
    BY <1>1, <2>1, <2>2
<1>4. Telling(w0, r, ww, k + 1, o)
  BY <1>1, <1>2, <1>3 DEF Telling
<1> QED
  BY <1>4 DEF ww

\* What a receive callback adds to what was told, whatever units it delivers.
LEMMA FeedTells ==
  ASSUME LongBodiesAreForms, NEW w0, NEW r \in Requests, NEW from \in Nat \ {0}, NEW to \in Nat,
         NEW o, from <= to, to <= r.head + r.body, Telling(w0, r, w0, from - 1, o)
  PROVE  Telling(w0, r, Feed(w0, r, from, to), to, o)
<1>1. PICK f : /\ f[from - 1] = w0 /\ Feed(w0, r, from, to) = f[to]
               /\ \A k \in from .. to : f[k] = Unit(f[k - 1], r, k = r.head)
  BY FeedRecursion
<1> DEFINE N == to - (from - 1)
           T == {n \in 0 .. N : Telling(w0, r, f[from - 1 + n], from - 1 + n, o)}
<1>2. r.head \in Nat /\ r.body \in Nat /\ N \in Nat /\ from - 1 + 0 = from - 1 /\ from - 1 + N = to
  BY RequestFacts
<1>3. 0 \in T
  BY <1>1, <1>2
<1>4. ASSUME NEW n \in 0 .. N - 1, n \in T PROVE n + 1 \in T
  <2> DEFINE k == from - 1 + n
  <2>1. k \in Nat /\ k < r.head + r.body /\ k + 1 = from - 1 + (n + 1) /\ k + 1 \in from .. to
        /\ n + 1 \in 0 .. N /\ (k + 1) - 1 = k
    BY <1>2
  <2>2. Telling(w0, r, f[k], k, o)
    BY <1>4
  <2> HIDE DEF k
  <2>3. Telling(w0, r, Unit(f[k], r, k + 1 = r.head), k + 1, o)
    BY <2>1, <2>2, UnitTells
  <2>4. f[k + 1] = Unit(f[k], r, k + 1 = r.head)
    BY <1>1, <2>1
  <2> QED
    BY <2>1, <2>3, <2>4
<1>5. N \in T
  <2> HIDE DEF T
  <2>1. \A n \in 0 .. N : n \in T
    BY <1>2, <1>3, <1>4, BoundedInduction
  <2> QED
    BY <1>2, <2>1
<1> QED
  BY <1>1, <1>2, <1>5

-----------------------------------------------------------------------------
(* The pool *)

\* The connections whose slot is kept for them.
Kept == {"up", "heir", "gone"}

\* The invariant: the types of the two functions that PoolMatches relates, and its
\* parts in terms of the slots that hold a connection.
PoolInv ==
  /\ conn \in [Slots -> Conns \cup {NoConn}]
  /\ est \in [Conns -> {"free", "up", "heir", "closing", "gone"}]
  /\ \A c \in Conns :
       /\ est[c] \in Kept => \E i \in Slots : conn[i] = c
       /\ est[c] = "heir" => \E i, j \in Slots : i # j /\ conn[i] = c /\ conn[j] = c
       /\ est[c] = "free" => \A i \in Slots : conn[i] # c

\* Of the slots that hold an address one is the first, and httpdFindConnData finds
\* no other one.
LEMMA FindsFirst ==
  /\ \A c, i : i \in FindConnData(c) => i \in Slots /\ conn[i] = c
  /\ \A c, i, j : i \in FindConnData(c) /\ j \in FindConnData(c) => i = j
  /\ \A c : (\E i \in Slots : conn[i] = c) => FindConnData(c) # {}
<1>1. \A i, j \in Slots : i < j => i \in 1 .. j - 1
  BY DEF Slots
<1>2. ASSUME NEW c, NEW i \in FindConnData(c), NEW j \in FindConnData(c) PROVE i = j
  <2>1. i \in Slots /\ j \in Slots /\ ~(i < j) /\ ~(j < i)
    BY <1>1 DEF FindConnData
  <2> QED
    BY <2>1 DEF Slots
<1>3. ASSUME NEW c, NEW i \in Slots, conn[i] = c PROVE FindConnData(c) # {}
  <2> DEFINE T == {j \in Slots : conn[j] = c}
  <2>1. T \in SUBSET Nat /\ T # {}
    BY <1>3 DEF Slots
  <2>2. PICK j \in T : \A k \in T : j <= k
    <3> HIDE DEF T
    <3> QED
      BY <2>1, HasLeast
  <2>3. \A k \in 1 .. j - 1 : k \in Slots /\ ~(j <= k)
    BY PoolAssumption DEF Slots
  <2> QED
    BY <2>2, <2>3 DEF FindConnData
<1> QED
  BY <1>2, <1>3 DEF FindConnData

\* Slots are given to others and taken from others: a connection is found as before.
LEMMA FoundAsBefore ==
  ASSUME NEW c, \A i \in Slots : conn'[i] = c <=> conn[i] = c
  PROVE  FindConnData(c)' = FindConnData(c)
<1>1. \A i \in Slots : 1 .. i - 1 \subseteq Slots
  BY PoolAssumption DEF Slots
<1> QED
  BY <1>1 DEF FindConnData

LEMMA PoolInit == Init => PoolInv
<1> SUFFICES ASSUME Init PROVE PoolInv
  OBVIOUS
<1> QED
  BY PoolAssumption DEF Init, PoolInv, Kept, Slots

\* What a connect callback that found a free slot did: the slot holds the connection,
\* and is the one that is found, unless an older one comes before it.
Taken(c, i) ==
  /\ i \in Slots /\ conn[i] = NoConn
  /\ conn' = [conn EXCEPT ![i] = c] /\ slot' = [slot EXCEPT ![i] = Unused]
  /\ \/ /\ est' = [est EXCEPT ![c] = "heir"] /\ ContinuesRequest(c)
        /\ \E o \in FindConnData(c) : o < i
     \/ /\ est' = [est EXCEPT ![c] = "up"] /\ \A o \in FindConnData(c) : ~(o < i)
        /\ \E r \in Requests : /\ req' = [req EXCEPT ![c] = r]
                               /\ left' = [left EXCEPT ![c] = r.head + r.body]

LEMMA ConnectGives ==
  ASSUME NEW c \in Conns, httpdConnectCb(c)
  PROVE  /\ est[c] \in {"free", "gone"} /\ UNCHANGED <<scan, login, open, unsent, out, mixed, stray>>
         /\ PoolOverflow(c) \/ \E i : Taken(c, i)
<1>1. ASSUME NEW i \in FindConnData(NoConn), TakesSlot(c, i) PROVE Taken(c, i)
  <2>1. i \in Slots /\ conn[i] = NoConn
    BY FindsFirst
  <2> QED
    BY <1>1, <2>1 DEF TakesSlot, Taken
<1> QED
  BY <1>1 DEF httpdConnectCb, history

\* A connection that comes up takes a slot that is free.
LEMMA PoolConnect ==
  ASSUME PoolInv, NEW c \in Conns, httpdConnectCb(c)
  PROVE  PoolInv'
<1>1. CASE PoolOverflow(c)
  BY <1>1 DEF PoolOverflow, PoolInv, Kept
<1>2. ASSUME NEW i, Taken(c, i) PROVE PoolInv'
  <2>1. /\ i \in Slots /\ conn[i] = NoConn /\ conn' = [conn EXCEPT ![i] = c]
        /\ est' = [est EXCEPT ![c] = "heir"] \/ est' = [est EXCEPT ![c] = "up"]
        /\ est'[c] = "heir" => \E o \in Slots : o # i /\ conn[o] = c
    <3>1. \A o \in FindConnData(c) : o \in Slots /\ conn[o] = c
      BY FindsFirst
    <3>2. NoConn # c
      BY PoolAssumption
    <3> QED
      BY <1>2, <3>1, <3>2 DEF Taken, PoolInv
  <2>2. \A j \in Slots : conn'[j] = IF j = i THEN c ELSE conn[j]
    BY <2>1 DEF PoolInv
  <2>3. \A d \in Conns \ {c} : est'[d] = est[d] /\ \A j \in Slots : conn'[j] = d <=> conn[j] = d
    BY <2>1, <2>2, PoolAssumption DEF PoolInv
  <2>4. est'[c] \in {"up", "heir"} /\ conn'[i] = c
    BY <2>1, <2>2 DEF PoolInv
  <2>5. ASSUME NEW d \in Conns
        PROVE  /\ est'[d] \in Kept => \E j \in Slots : conn'[j] = d
               /\ est'[d] = "heir" => \E j, k \in Slots : j # k /\ conn'[j] = d /\ conn'[k] = d
               /\ est'[d] = "free" => \A j \in Slots : conn'[j] # d
    <3>1. CASE d = c
      BY <2>1, <2>2, <2>4, <3>1
    <3>2. CASE d # c
      BY <2>3, <3>2 DEF PoolInv
    <3> QED
      BY <3>1, <3>2
  <2>6. /\ conn' \in [Slots -> Conns \cup {NoConn}]
        /\ est' \in [Conns -> {"free", "up", "heir", "closing", "gone"}]
    BY <2>1 DEF PoolInv
  <2> QED
    BY <2>5, <2>6 DEF PoolInv
<1> QED
  BY <1>1, <1>2, ConnectGives

\* The receive callback and a sent callback that runs a handler again leave the
\* pool alone; the last sent callback of a connection gives its slot up.
LEMMA PoolLast ==
  ASSUME PoolInv, NEW c \in Conns, NEW i \in FindConnData(c), SentLast(c, i)
  PROVE  PoolInv'
<1>1. conn[i] = c /\ i \in Slots
  BY FindsFirst
<1>2. est' = [est EXCEPT ![c] = "closing"] /\ conn' = [conn EXCEPT ![i] = NoConn]
  BY DEF SentLast
<1>3. \A d \in Conns \ {c} : est'[d] = est[d] /\ \A j \in Slots : conn'[j] = d <=> conn[j] = d
  BY <1>1, <1>2, PoolAssumption DEF PoolInv
<1>4. est'[c] = "closing"
  BY <1>2 DEF PoolInv
<1>5. /\ conn' \in [Slots -> Conns \cup {NoConn}]
      /\ est' \in [Conns -> {"free", "up", "heir", "closing", "gone"}]
  BY <1>2 DEF PoolInv
<1>6. ASSUME NEW d \in Conns
      PROVE  /\ est'[d] \in Kept => \E j \in Slots : conn'[j] = d
             /\ est'[d] = "heir" => \E j, k \in Slots : j # k /\ conn'[j] = d /\ conn'[k] = d
             /\ est'[d] = "free" => \A j \in Slots : conn'[j] # d
  <2>1. CASE d = c
    BY <1>4, <2>1 DEF Kept
  <2>2. CASE d # c
    BY <1>3, <2>2 DEF PoolInv
  <2> QED
    BY <2>1, <2>2
<1> QED
  BY <1>5, <1>6 DEF PoolInv

LEMMA PoolServe ==
  ASSUME PoolInv, NEW c \in Conns, httpdRecvCb(c) \/ httpdSentCb(c)
  PROVE  PoolInv'
<1>1. CASE UNCHANGED <<conn, est>>
  BY <1>1 DEF PoolInv
<1>2. \A i \in FindConnData(c) : SentLast(c, i) => PoolInv'
  BY PoolLast
<1>3. httpdRecvCb(c) => UNCHANGED <<conn, est>>
  BY DEF httpdRecvCb
<1>4. \A i \in FindConnData(c) : SentMore(c, i) => UNCHANGED <<conn, est>>
  BY DEF SentMore
<1> QED
  BY <1>1, <1>2, <1>3, <1>4 DEF httpdSentCb

\* A connection that is closed or reset keeps its slot until somebody looks.
LEMMA PoolLoss ==
  ASSUME PoolInv, NEW c \in Conns, ClientCloses(c) \/ httpdReconCb(c)
  PROVE  PoolInv'
  BY DEF ClientCloses, httpdReconCb, PoolInv, Alive, Kept

\* The disconnect callback frees the slots of all connections that look closed,
\* among them those of every connection it sets free.
LEMMA PoolDiscon ==
  ASSUME PoolInv, NEW c \in Conns, httpdDisconCb(c)
  PROVE  PoolInv'
<1>1. PICK seen \in SUBSET {d \in Conns : est[d] = "gone"} :
        /\ conn' = [i \in Slots |-> IF i \in LooksClosed(seen) THEN NoConn ELSE conn[i]]
        /\ est' = [d \in Conns |-> IF d = c \/ d \in seen THEN "free" ELSE est[d]]
  BY DEF httpdDisconCb
<1>2. est[c] = "closing"
  BY DEF httpdDisconCb
<1>3. \A i \in Slots : conn[i] = c \/ conn[i] \in seen => i \in LooksClosed(seen)
  BY <1>2, PoolAssumption DEF LooksClosed
<1>4. \A i \in Slots : i \in LooksClosed(seen) => est[conn[i]] = "closing" \/ conn[i] \in seen
  BY DEF LooksClosed
<1>5. \A i \in Slots : conn'[i] # NoConn => conn'[i] = conn[i] /\ i \notin LooksClosed(seen)
  BY <1>1
<1>6. ASSUME NEW d \in Conns
      PROVE  /\ est'[d] \in Kept => \E i \in Slots : conn'[i] = d
             /\ est'[d] = "heir" => \E i, j \in Slots : i # j /\ conn'[i] = d /\ conn'[j] = d
             /\ est'[d] = "free" => \A i \in Slots : conn'[i] # d
  <2>1. CASE d = c \/ d \in seen
    <3>1. est'[d] = "free"
      BY <1>1, <2>1
    <3> QED
      BY <1>3, <1>5, <2>1, <3>1, PoolAssumption DEF Kept
  <2>2. CASE ~(d = c \/ d \in seen)
    <3>1. est'[d] = est[d]
      BY <1>1, <2>2
    <3>2. ASSUME est[d] \in Kept, NEW i \in Slots, conn[i] = d PROVE conn'[i] = d
      <4>1. i \notin LooksClosed(seen)
        BY <1>4, <2>2, <3>2 DEF Kept
      <4> QED
        BY <1>1, <3>2, <4>1
    <3>3. est[d] = "free" => \A i \in Slots : conn'[i] # d
      BY <1>5, PoolAssumption DEF PoolInv
    <3>4. "heir" \in Kept
      BY DEF Kept
    <3> QED
      BY <3>1, <3>2, <3>3, <3>4 DEF PoolInv
  <2> QED
    BY <2>1, <2>2
<1>7. /\ conn' \in [Slots -> Conns \cup {NoConn}]
      /\ est' \in [Conns -> {"free", "up", "heir", "closing", "gone"}]
  BY <1>1 DEF PoolInv
<1> QED
  BY <1>6, <1>7 DEF PoolInv

LEMMA PoolNext == PoolInv /\ [Next]_vars => PoolInv'
<1> SUFFICES ASSUME PoolInv, [Next]_vars PROVE PoolInv'
  OBVIOUS
<1>1. ASSUME NEW c \in Conns, httpdConnectCb(c) PROVE PoolInv'
  BY <1>1, PoolConnect
<1>2. ASSUME NEW c \in Conns, httpdRecvCb(c) \/ httpdSentCb(c) PROVE PoolInv'
  BY <1>2, PoolServe
<1>3. ASSUME NEW c \in Conns, ClientCloses(c) \/ httpdReconCb(c) PROVE PoolInv'
  BY <1>3, PoolLoss
<1>4. ASSUME NEW c \in Conns, httpdDisconCb(c) PROVE PoolInv'
  BY <1>4, PoolDiscon
<1>5. CASE wifiScanDoneCb
  BY <1>5 DEF wifiScanDoneCb, network, PoolInv
<1>6. CASE UNCHANGED vars
  BY <1>6 DEF vars, network, PoolInv
<1> QED
  BY <1>1, <1>2, <1>3, <1>4, <1>5, <1>6 DEF Next

\* For all numbers of clients and slots, and however often the addresses of reset
\* connections are used again: httpdFindConnData finds every connection that
\* exists, the first of the slots that hold it, and no slot keeps one whose
\* address is free.
THEOREM PoolAlwaysMatches == Spec => []PoolMatches
<1>1. PoolInv => PoolMatches
  BY FindsFirst DEF PoolInv, PoolMatches, Kept
<1> QED
  BY PoolInit, PoolNext, <1>1, PTL DEF Spec

-----------------------------------------------------------------------------
(* The inductive invariant *)

\* Slot i and the connection it serves.
ServesOK(i, c) ==
  /\ req[c] \in Requests /\ left[c] <= req[c].head + req[c].body
  /\ FedOK(slot[i], req[c], Units(c)) /\ HandlerOK(slot[i], req[c])

\* A client that is served by its own slot, i, has got something since a handler is
\* at work for it.
AnswerOK(i, c) ==
  /\ slot[i].cgi # "NULL" => out[c] # <<>>
  /\ left[c] = 0 /\ Closes(req[c]) => unsent[c] > 0

\* The counters of a slot stay below their limits.
Bounded(s) == s.buffLen <= MaxPost /\ (s.len \in {InHead, 0} \/ s.received \in 0 .. s.len)

\* The types of the slots; a slot without connection is as it was in the beginning.
SlotsOK ==
  /\ slot \in [Slots -> SlotRec]
  /\ \A i \in Slots : Bounded(slot[i]) /\ (conn[i] = NoConn => slot[i] = Unused)

\* The types of what is known of each connection.
ConnTypes ==
  /\ unsent \in [Conns -> Nat] /\ req \in [Conns -> Requests \cup {NoRequest}]
  /\ left \in [Conns -> Nat] /\ out \in [Conns -> Seq(Item)]

\* Every slot that is found fits the connection it serves, also when that is reset
\* and when another one at its address is served by it.
Fits(i, c) ==
  /\ est[c] \in Kept => ServesOK(i, c)
  /\ est[c] = "up" => AnswerOK(i, c)

AllServed == \A c \in Conns : \A i \in FindConnData(c) : Fits(i, c)

\* The inductive invariant: the pool, the shared state, the slots, and what each
\* slot has of the request of its connection.
HttpInv == PoolInv /\ StateOK /\ SlotsOK /\ ConnTypes /\ AllServed /\ (FilesFit => FilesAccounted)

\* The slots that keep a file open.
Held == {i \in Slots : Holds(slot[i]) = 1}

\* FilesAccounted in terms of these slots.
LEMMA HeldFiles ==
  /\ FilesAccounted <=> open = Cardinality(Held)
  /\ FilesAccounted' <=> open' = Cardinality(Held')
<1>1. Held = {i \in Slots : slot[i].cgi = "cgiEspFsHook" /\ slot[i].cgiData > 0}
  BY DEF Held, Holds
<1>2. Held' = {i \in Slots : slot'[i].cgi = "cgiEspFsHook" /\ slot'[i].cgiData > 0}
  BY DEF Held, Holds
<1> QED
  BY <1>1, <1>2 DEF FilesAccounted

\* There are finitely many slots, and of every set of them no more than MaxConn.
LEMMA SlotsFinite ==
  /\ IsFiniteSet(Slots) /\ Cardinality(Slots) = MaxConn
  /\ \A S \in SUBSET Slots : IsFiniteSet(S) /\ Cardinality(S) \in 0 .. MaxConn
<1>1. MaxConn \in Nat /\ MaxConn >= 1
  BY PoolAssumption
<1>2. IsFiniteSet(Slots) /\ Cardinality(Slots) = MaxConn
  BY <1>1, FS_Interval DEF Slots
<1>3. ASSUME NEW S \in SUBSET Slots PROVE IsFiniteSet(S) /\ Cardinality(S) \in 0 .. MaxConn
  <2>1. IsFiniteSet(S) /\ Cardinality(S) <= Cardinality(Slots)
    BY <1>2, FS_Subset
  <2>2. Cardinality(S) \in Nat
    BY <2>1, FS_CardinalityType
  <2> QED
    BY <1>1, <1>2, <2>1, <2>2
<1> QED
  BY <1>2, <1>3

\* One slot changes, and the files with it.
LEMMA FilesOfOneSlot ==
  ASSUME FilesAccounted, open \in Int, open' \in Int, slot \in [Slots -> SlotRec], NEW i \in Slots, NEW s,
         slot' = [slot EXCEPT ![i] = s], open' - Holds(s) = open - Holds(slot[i])
  PROVE  FilesAccounted'
<1> DEFINE H == Held \ {i}
<1>1. open = Cardinality(Held)
  BY HeldFiles
<1>2. IsFiniteSet(H) /\ Cardinality(H) \in Nat /\ i \notin H
  BY SlotsFinite DEF Held
<1>3. Held = IF Holds(slot[i]) = 1 THEN H \cup {i} ELSE H
  BY DEF Held
<1>4. Held' = IF Holds(s) = 1 THEN H \cup {i} ELSE H
  <2>1. \A j \in Slots : slot'[j] = IF j = i THEN s ELSE slot[j]
    OBVIOUS
  <2> QED
    BY <2>1 DEF Held
<1>5. Cardinality(H \cup {i}) = Cardinality(H) + 1
  BY <1>2, FS_AddElement
<1>6. Holds(s) \in {0, 1} /\ Holds(slot[i]) \in {0, 1}
  BY DEF Holds
<1> HIDE DEF H
<1>7. Cardinality(Held) = Cardinality(H) + Holds(slot[i])
  BY <1>2, <1>3, <1>5, <1>6
<1>8. Cardinality(Held') = Cardinality(H) + Holds(s)
  BY <1>2, <1>4, <1>5, <1>6
<1>9. open' = Cardinality(Held')
  BY <1>1, <1>2, <1>6, <1>7, <1>8
<1> QED
  BY <1>9, HeldFiles

\* Nothing happened to connection d and its slot j.
LEMMA OthersServed ==
  ASSUME NEW j, NEW d, slot'[j] = slot[j], req'[d] = req[d], left'[d] = left[d]
  PROVE  /\ ServesOK(j, d) => ServesOK(j, d)'
         /\ AnswerOK(j, d) /\ out'[d] = out[d] /\ unsent'[d] = unsent[d] => AnswerOK(j, d)'
  BY DEF ServesOK, AnswerOK, Units

\* Nothing happened to connection d, which is found where it was.
LEMMA StillServed ==
  ASSUME AllServed, NEW d \in Conns, FindConnData(d)' = FindConnData(d),
         \A j \in FindConnData(d) : slot'[j] = slot[j], req'[d] = req[d], left'[d] = left[d],
         est'[d] \in Kept => est[d] \in Kept,
         est'[d] = "up" => est[d] = "up" /\ out'[d] = out[d] /\ unsent'[d] = unsent[d]
  PROVE  \A j \in FindConnData(d)' : Fits(j, d)'
<1> SUFFICES ASSUME NEW j \in FindConnData(d) PROVE Fits(j, d)'
  OBVIOUS
<1>1. /\ ServesOK(j, d) => ServesOK(j, d)'
      /\ AnswerOK(j, d) /\ out'[d] = out[d] /\ unsent'[d] = unsent[d] => AnswerOK(j, d)'
  BY OthersServed
<1>2. /\ est[d] \in Kept => ServesOK(j, d)
      /\ est[d] = "up" => AnswerOK(j, d)
  BY DEF AllServed, Fits
<1> QED
  BY <1>1, <1>2 DEF Fits

\* AllServed, connection by connection.
LEMMA ServedOneByOne ==
  ASSUME \A d \in Conns : \A j \in FindConnData(d)' : Fits(j, d)'
  PROVE  AllServed'
  BY DEF AllServed

\* The bounds of a slot follow from how far its request has come.
LEMMA FedBounds ==
  ASSUME NEW r \in Requests, NEW k \in Nat, k <= r.head + r.body, NEW s \in SlotRec,
         FedOK(s, r, k), HandlerOK(s, r)
  PROVE  Bounded(s) /\ SlotShape(s)
<1>1. SlotShape(s)
  BY DEF HandlerOK, SlotShape
<1>2. r.head \in Nat \ {0} /\ r.body \in Nat /\ MaxPost \in Nat \ {0} /\ s.buffLen \in Nat
  BY RequestFacts DEF SlotRec
<1>3. CASE Parsed(r, k)
  <2>1. s.len = r.body /\ s.received = k - r.head /\ s.buffLen < MaxPost
    BY <1>3 DEF FedOK
  <2>2. s.received \in 0 .. s.len
    BY <1>2, <1>3, <2>1 DEF Parsed
  <2> QED
    BY <1>1, <1>2, <2>1, <2>2 DEF Bounded
<1>4. CASE ~Parsed(r, k)
  <2>1. s.len = InHead /\ s.buffLen = 0
    BY <1>4 DEF FedOK
  <2> QED
    BY <1>1, <1>2, <2>1 DEF Bounded
<1> QED
  BY <1>1, <1>3, <1>4

\* An unused slot fits every request of which nothing has arrived.
LEMMA UnusedFacts ==
  /\ Unused \in SlotRec /\ SlotShape(Unused) /\ Bounded(Unused) /\ Holds(Unused) = 0
  /\ Unused.cgi = "NULL"
  /\ \A r \in Requests : FedOK(Unused, r, 0) /\ HandlerOK(Unused, r)
<1>1. MaxHead \in Nat \ {0} /\ MaxPost \in Nat \ {0}
  BY LengthsAssumption
<1>2. Unused \in SlotRec
  BY <1>1 DEF Unused, SlotRec, Cgis, InHead
<1>3. \A r \in Requests : FedOK(Unused, r, 0) /\ HandlerOK(Unused, r)
  <2> SUFFICES ASSUME NEW r \in Requests PROVE FedOK(Unused, r, 0) /\ HandlerOK(Unused, r)
    OBVIOUS
  <2>1. ~Parsed(r, 0)
    BY RequestFacts DEF Parsed
  <2> QED
    BY <1>1, <2>1 DEF FedOK, HandlerOK, Unused
<1> QED
  BY <1>1, <1>2, <1>3 DEF Unused, SlotShape, Bounded, Holds, InHead

\* The invariant holds in the beginning.
LEMMA HttpInit == Init => HttpInv
<1> SUFFICES ASSUME Init PROVE HttpInv
  OBVIOUS
<1>1. PoolInv
  BY PoolInit
<1>2. \A i \in Slots : slot[i] = Unused /\ conn[i] = NoConn
  BY DEF Init
<1>3. StateOK
  BY <1>2, UnusedFacts DEF Init, StateOK, ScanRec
<1>4. SlotsOK
  BY <1>2, UnusedFacts DEF Init, SlotsOK
<1>5. ConnTypes
  BY DEF Init, ConnTypes
<1>6. AllServed
  BY <1>2, FindsFirst, PoolAssumption DEF AllServed
<1>7. FilesAccounted
  <2>1. Held = {}
    BY <1>2, UnusedFacts DEF Held
  <2>2. open = 0
    BY DEF Init
  <2> QED
    BY <2>1, <2>2, FS_EmptySet, HeldFiles
<1> QED
  BY <1>1, <1>3, <1>4, <1>5, <1>6, <1>7 DEF HttpInv

\* The connect callback keeps it: the slot it takes is unused, and the one of a
\* reset connection has what it had of its request, of a longer one perhaps.
LEMMA RequestContinues ==
  ASSUME HttpInv, NEW c \in Conns, est[c] \in Kept, ContinuesRequest(c), NEW o \in FindConnData(c),
         slot'[o] = slot[o]
  PROVE  /\ ServesOK(o, c)'
         /\ req' \in [Conns -> Requests \cup {NoRequest}] /\ left' \in [Conns -> Nat]
         /\ \A d \in Conns \ {c} : req'[d] = req[d] /\ left'[d] = left[d]
<1>1. ServesOK(o, c) /\ req \in [Conns -> Requests \cup {NoRequest}] /\ left \in [Conns -> Nat]
  BY DEF HttpInv, AllServed, Fits, ConnTypes
<1>2. CASE UNCHANGED <<req, left>>
  BY <1>1, <1>2, OthersServed
<1>3. CASE ~UNCHANGED <<req, left>>
  <2>1. PICK r \in Requests : /\ slot[o].len = InHead /\ Units(c) < r.head
                              /\ req' = [req EXCEPT ![c] = r]
                              /\ left' = [left EXCEPT ![c] = r.head + r.body - Units(c)]
    BY <1>3, FindsFirst DEF ContinuesRequest
  <2> DEFINE k == Units(c)
             s == slot[o]
             q == req[c]
  <2>2. q \in Requests /\ left[c] \in Nat /\ left[c] <= q.head + q.body /\ FedOK(s, q, k)
    BY <1>1 DEF ServesOK
  <2>3. /\ r.head \in Nat \ {0} /\ r.body \in Nat /\ q.head \in Nat \ {0} /\ q.body \in Nat
    BY <2>2, RequestFacts
  <2>4. k \in Nat
    BY <2>2, <2>3 DEF Units
  <2>5. req'[c] = r /\ left'[c] = r.head + r.body - k
    BY <1>1, <2>1
  <2> HIDE DEF k, s, q
  <2>6. left'[c] \in Nat /\ left'[c] <= r.head + r.body /\ Units(c)' = k
    <3>1. k < r.head
      BY <2>1 DEF k
    <3>2. Units(c)' = r.head + r.body - (r.head + r.body - k)
      BY <2>5 DEF Units
    <3> QED
      BY <2>3, <2>4, <2>5, <3>1, <3>2
  <2>7. s.len = InHead /\ k < r.head
    BY <2>1 DEF s, k
  <2>8. ~Parsed(q, k) /\ ~Parsed(r, k)
    <3>1. q.body # InHead
      BY <2>3 DEF InHead
    <3>2. ~Parsed(q, k)
      BY <2>2, <2>7, <3>1 DEF FedOK
    <3> QED
      BY <2>3, <2>4, <2>7, <3>2 DEF Parsed
  <2>9. FedOK(s, r, k) /\ HandlerOK(s, r)
    BY <2>2, <2>8 DEF FedOK, HandlerOK
  <2>10. ServesOK(o, c)'
    <3>1. slot'[o] = s
      BY DEF s
    <3> QED
      BY <2>5, <2>6, <2>9, <3>1 DEF ServesOK
  <2>11. left' \in [Conns -> Nat] /\ req' \in [Conns -> Requests \cup {NoRequest}]
    BY <1>1, <2>1, <2>5, <2>6
  <2> QED
    BY <1>1, <2>1, <2>10, <2>11
<1> QED
  BY <1>2, <1>3

\* A slot that comes before the others that hold the address is the one found.
LEMMA TakesFirst ==
  ASSUME NEW i \in Slots, NEW c, conn \in [Slots -> Conns \cup {NoConn}], conn' = [conn EXCEPT ![i] = c],
         \A o \in FindConnData(c) : ~(o < i)
  PROVE  \A j \in FindConnData(c)' : j = i
<1> SUFFICES ASSUME NEW j \in FindConnData(c)', j # i PROVE FALSE
  OBVIOUS
<1>1. \A k \in Slots : conn'[k] = IF k = i THEN c ELSE conn[k]
  OBVIOUS
<1>2. j \in Slots /\ conn[j] = c /\ \A k \in 1 .. j - 1 : conn'[k] # c
  BY <1>1 DEF FindConnData
<1>3. j < i
  BY <1>1, <1>2 DEF Slots
<1>4. \A k \in 1 .. j - 1 : k \in Slots /\ k # i
  BY <1>2, <1>3, PoolAssumption DEF Slots
<1>5. j \in FindConnData(c)
  BY <1>1, <1>2, <1>4 DEF FindConnData
<1> QED
  BY <1>3, <1>5

LEMMA HttpTaken ==
  ASSUME HttpInv, NEW c \in Conns, est[c] \in {"free", "gone"}, NEW i, Taken(c, i),
         UNCHANGED <<scan, login, open, unsent, out, stray>>, PoolInv'
  PROVE  HttpInv'
<1>1. /\ i \in Slots /\ conn[i] = NoConn /\ conn' = [conn EXCEPT ![i] = c]
      /\ slot' = [slot EXCEPT ![i] = Unused]
  BY DEF Taken
<1>2. slot[i] = Unused
  BY <1>1 DEF HttpInv, SlotsOK
<1>3. slot' = slot
  BY <1>1, <1>2 DEF HttpInv, SlotsOK
<1>4. SlotsOK'
  BY <1>1, <1>3, PoolAssumption DEF HttpInv, SlotsOK, PoolInv
<1>5. \A j \in Slots : conn'[j] = IF j = i THEN c ELSE conn[j]
  BY <1>1 DEF HttpInv, PoolInv
<1>6. \A d \in Conns \ {c} : est'[d] = est[d] /\ FindConnData(d)' = FindConnData(d)
  <2>1. \A d \in Conns \ {c} : est'[d] = est[d]
    BY DEF Taken, HttpInv, PoolInv
  <2>2. ASSUME NEW d \in Conns \ {c} PROVE FindConnData(d)' = FindConnData(d)
    <3>1. \A j \in Slots : conn'[j] = d <=> conn[j] = d
      BY <1>1, <1>5, PoolAssumption
    <3> QED
      BY <3>1, FoundAsBefore
  <2> QED
    BY <2>1, <2>2
\* Its slot, or that of its predecessor.
<1>7. /\ req' \in [Conns -> Requests \cup {NoRequest}] /\ left' \in [Conns -> Nat]
      /\ \A d \in Conns \ {c} : req'[d] = req[d] /\ left'[d] = left[d]
      /\ \A j \in FindConnData(c)' : ServesOK(j, c)' /\ (est'[c] = "up" => AnswerOK(j, c)')
  <2>1. CASE /\ est' = [est EXCEPT ![c] = "heir"] /\ ContinuesRequest(c)
             /\ \E o \in FindConnData(c) : o < i
    <3>1. PICK o \in FindConnData(c) : o < i
      BY <2>1
    <3>2. o \in Slots /\ conn[o] = c
      BY FindsFirst
    <3>3. est[c] \in Kept
      BY <3>2 DEF HttpInv, PoolInv, Kept
    <3>4. slot'[o] = slot[o]
      BY <1>3
    <3>5. FindConnData(c)' = {o}
      <4>1. \A j \in 1 .. o - 1 : j \in Slots /\ j # i /\ conn[j] # c
        BY <3>1, <3>2, <1>1, PoolAssumption DEF FindConnData, Slots
      <4>2. conn'[o] = c /\ \A j \in 1 .. o - 1 : conn'[j] # c
        BY <1>5, <3>2, <4>1
      <4>3. o \in FindConnData(c)'
        BY <3>2, <4>2 DEF FindConnData
      <4>4. \A j \in Slots : j # o /\ ~(j \in 1 .. o - 1) => o \in 1 .. j - 1
        BY <3>2 DEF Slots
      <4>5. \A j \in FindConnData(c)' : j = o
        BY <4>2, <4>4 DEF FindConnData
      <4> QED
        BY <4>3, <4>5
    <3>6. est'[c] # "up"
      BY <2>1 DEF HttpInv, PoolInv
    <3> QED
      BY <2>1, <3>3, <3>4, <3>5, <3>6, RequestContinues
  <2>2. CASE /\ est' = [est EXCEPT ![c] = "up"] /\ \A o \in FindConnData(c) : ~(o < i)
             /\ \E r \in Requests : /\ req' = [req EXCEPT ![c] = r]
                                    /\ left' = [left EXCEPT ![c] = r.head + r.body]
    <3>1. PICK r \in Requests : /\ req' = [req EXCEPT ![c] = r]
                                /\ left' = [left EXCEPT ![c] = r.head + r.body]
      BY <2>2
    <3>2. r.head + r.body \in Nat /\ r.head + r.body > 0 /\ r.head \in Nat /\ r.body \in Nat
      BY RequestFacts
    <3>3. /\ req' \in [Conns -> Requests \cup {NoRequest}] /\ left' \in [Conns -> Nat]
          /\ \A d \in Conns \ {c} : req'[d] = req[d] /\ left'[d] = left[d]
          /\ req'[c] = r /\ left'[c] = r.head + r.body
      BY <3>1, <3>2 DEF HttpInv, ConnTypes
    <3>4. Units(c)' = 0
      BY <3>2, <3>3 DEF Units
    <3>5. \A j \in FindConnData(c)' : j = i
      BY <1>1, <2>2, TakesFirst DEF HttpInv, PoolInv
    <3>6. slot'[i] = Unused
      BY <1>2, <1>3
    <3>7. ServesOK(i, c)'
      BY <3>2, <3>3, <3>4, <3>6, UnusedFacts DEF ServesOK
    <3>8. AnswerOK(i, c)'
      BY <3>2, <3>3, <3>6, UnusedFacts DEF AnswerOK
    <3> QED
      BY <3>3, <3>5, <3>7, <3>8
  <2> QED
    BY <2>1, <2>2 DEF Taken
<1>8. ConnTypes'
  BY <1>7 DEF HttpInv, ConnTypes
<1>9. AllServed'
  <2>1. ASSUME NEW d \in Conns \ {c}
        PROVE  \A j \in FindConnData(d)' : Fits(j, d)'
    <3>1. est'[d] = est[d] /\ FindConnData(d)' = FindConnData(d)
      BY <1>6
    <3>2. req'[d] = req[d] /\ left'[d] = left[d]
      BY <1>7
    <3> QED
      BY <1>3, <3>1, <3>2, StillServed DEF HttpInv
  <2> QED
    BY <1>7, <2>1, ServedOneByOne DEF Fits
<1> QED
  BY <1>3, <1>4, <1>8, <1>9 DEF HttpInv, StateOK, FilesAccounted

LEMMA HttpConnect ==
  ASSUME HttpInv, NEW c \in Conns, httpdConnectCb(c)
  PROVE  HttpInv'
<1>1. PoolInv'
  BY PoolConnect DEF HttpInv
<1>2. est[c] \in {"free", "gone"} /\ UNCHANGED <<scan, login, open, unsent, out, stray>>
  BY ConnectGives
<1>3. CASE PoolOverflow(c)
  <2>1. /\ est' = [est EXCEPT ![c] = "closing"] /\ UNCHANGED <<conn, slot>>
        /\ req' = [req EXCEPT ![c] = NoRequest] /\ left' = [left EXCEPT ![c] = 0]
    BY <1>3 DEF PoolOverflow
  <2>2. \A d \in Conns \ {c} : est'[d] = est[d] /\ req'[d] = req[d] /\ left'[d] = left[d]
    BY <2>1 DEF HttpInv, PoolInv, ConnTypes
  <2>3. est'[c] \notin Kept /\ est'[c] # "up"
    BY <2>1 DEF HttpInv, PoolInv, Kept
  <2>4. \A d : FindConnData(d)' = FindConnData(d)
    BY <2>1 DEF FindConnData
  <2>5. AllServed'
    <3>1. ASSUME NEW d \in Conns \ {c}
          PROVE  \A j \in FindConnData(d)' : Fits(j, d)'
      BY <1>2, <2>1, <2>2, <2>4, StillServed DEF HttpInv
    <3> QED
      BY <2>3, <3>1, ServedOneByOne DEF Fits
  <2>6. ConnTypes'
    BY <1>2, <2>1 DEF HttpInv, ConnTypes
  <2> QED
    BY <1>1, <1>2, <2>1, <2>5, <2>6 DEF HttpInv, StateOK, SlotsOK, FilesAccounted
<1>4. ASSUME NEW i, Taken(c, i) PROVE HttpInv'
  BY <1>1, <1>2, <1>4, HttpTaken
<1> QED
  BY <1>3, <1>4, ConnectGives

\* What a receive callback for connection c in slot i did: it delivered len units
\* and made w of the context.
Received(c, i, len, w) ==
  /\ i \in FindConnData(c) /\ len \in 1 .. left[c] /\ c \in Alive
  /\ w = Feed(Context(i), req[c], Units(c) + 1, Units(c) + len)
  /\ Feeding(Context(i), req[c], w, Units(c) + len)
  /\ left' = [left EXCEPT ![c] = @ - len]
  /\ slot' = [slot EXCEPT ![i] = w.s]
  /\ unsent' = [unsent EXCEPT ![c] = @ + w.packets]
  /\ out' = [out EXCEPT ![c] = @ \o w.sent]
  /\ Shared(w, {i})
  /\ UNCHANGED <<conn, est, req>>

\* The receive callback does what Received says.
LEMMA ReceiveGives ==
  ASSUME HttpInv, NEW c \in Conns, httpdRecvCb(c)
  PROVE  \E i, len, w : Received(c, i, len, w)
<1>1. PICK len \in 1 .. left[c], i \in FindConnData(c) :
        LET first == Units(c) + 1
            w     == Feed(Context(i), req[c], first, first + len - 1)
        IN /\ left' = [left EXCEPT ![c] = @ - len]
           /\ slot' = [slot EXCEPT ![i] = w.s]
           /\ unsent' = [unsent EXCEPT ![c] = @ + w.packets]
           /\ out' = [out EXCEPT ![c] = @ \o w.sent]
           /\ Shared(w, {i})
  BY DEF httpdRecvCb
<1> DEFINE r == req[c]
           first == Units(c) + 1
           w == Feed(Context(i), r, first, first + len - 1)
<1>2. i \in Slots /\ c \in Alive /\ UNCHANGED <<conn, est, req>>
  BY FindsFirst DEF httpdRecvCb
<1>3. ServesOK(i, c) /\ left[c] \in Nat
  BY <1>2 DEF HttpInv, AllServed, Fits, Alive, Kept, ConnTypes
<1>4. r \in Requests /\ r.head \in Nat \ {0} /\ r.body \in Nat /\ left[c] <= r.head + r.body
  BY <1>3, RequestFacts DEF ServesOK
<1>5. /\ first \in Nat \ {0} /\ first + len - 1 \in Nat /\ first <= first + len - 1
      /\ first + len - 1 <= r.head + r.body /\ first - 1 = Units(c) /\ first + len - 1 = Units(c) + len
      /\ Units(c) \in Nat /\ Units(c) < r.head + r.body
  BY <1>3, <1>4 DEF Units
<1> DEFINE w0 == Context(i)
<1>6. /\ Ready(w0) /\ w0.s = slot[i] /\ w0.sent = <<>>
  BY <1>2, ContextFacts DEF HttpInv
<1> HIDE DEF first
<1>7. Feeding(w0, r, w0, first - 1)
  <2> HIDE DEF w0, r
  <2>1. FedOK(w0.s, r, first - 1) /\ HandlerOK(w0.s, r)
    BY <1>3, <1>5, <1>6 DEF ServesOK, r
  <2>2. first - 1 # r.head + r.body
    BY <1>5
  <2> QED
    BY <1>6, <2>1, <2>2 DEF Feeding, Progress
<1>8. Feeding(w0, r, w, first + len - 1)
  BY <1>4, <1>5, <1>7, FeedGives
<1>9. /\ left' = [left EXCEPT ![c] = @ - len] /\ slot' = [slot EXCEPT ![i] = w.s]
      /\ unsent' = [unsent EXCEPT ![c] = @ + w.packets]
      /\ out' = [out EXCEPT ![c] = @ \o w.sent]
      /\ Shared(w, {i})
  BY <1>1 DEF first
<1>10. w = Feed(Context(i), req[c], Units(c) + 1, Units(c) + len)
  <2>1. first = Units(c) + 1 /\ first + len - 1 = Units(c) + len
    BY <1>5
  <2> QED
    BY <2>1
<1> HIDE DEF w
<1>11. Received(c, i, len, w)
  BY <1>2, <1>5, <1>8, <1>9, <1>10 DEF Received
<1> QED
  BY <1>11

\* The state shared by all connections, as a handler leaves it.
LEMMA SharedFacts ==
  ASSUME NEW w, NEW who, Shared(w, who)
  PROVE  scan' = w.scan /\ login' = w.login /\ open' = w.open /\ stray' = w.stray
  BY DEF Shared

\* A handler ran for slot i, and the invariant holds of this slot.
LEMMA SlotServed ==
  ASSUME HttpInv, NEW c \in Conns, NEW i \in FindConnData(c), c \in Alive, NEW w \in Ctx,
         slot' = [slot EXCEPT ![i] = w.s], Shared(w, {i}), UNCHANGED <<conn, est, req>>,
         Bounded(w.s), SlotShape(w.s), w.stray = stray,
         FilesFit => w.open - Holds(w.s) = open - Holds(slot[i]),
         \A d \in Conns \ {c} : left'[d] = left[d] /\ out'[d] = out[d] /\ unsent'[d] = unsent[d],
         ConnTypes', ServesOK(i, c)', est[c] = "up" => AnswerOK(i, c)'
  PROVE  HttpInv'
<1>0. i \in Slots /\ conn[i] = c
  BY FindsFirst
<1>1. PoolInv'
  BY DEF HttpInv, PoolInv
<1>2. w.s \in SlotRec /\ w.scan \in ScanRec /\ w.login \in Logins /\ w.open \in Int
  BY DEF Ctx
<1>3. scan' = w.scan /\ login' = w.login /\ open' = w.open /\ stray' = w.stray
  BY SharedFacts
<1>4. slot \in [Slots -> SlotRec] /\ slot' \in [Slots -> SlotRec]
      /\ \A j \in Slots : slot'[j] = IF j = i THEN w.s ELSE slot[j]
  BY <1>0, <1>2 DEF HttpInv, SlotsOK
<1>5. StateOK'
  <2>1. \A j \in Slots : SlotShape(slot'[j])
    BY <1>4 DEF HttpInv, StateOK
  <2> QED
    BY <1>2, <1>3, <2>1 DEF HttpInv, StateOK
<1>6. SlotsOK'
  BY <1>0, <1>4, PoolAssumption DEF HttpInv, SlotsOK
<1>7. AllServed'
  <2>1. \A d : FindConnData(d)' = FindConnData(d)
    BY DEF FindConnData
  <2>2. \A j \in FindConnData(c)' : Fits(j, c)'
    BY <2>1, FindsFirst DEF Fits
  <2>3. ASSUME NEW d \in Conns \ {c} PROVE \A j \in FindConnData(d)' : Fits(j, d)'
    <3>1. \A j \in FindConnData(d) : j \in Slots /\ j # i
      BY <1>0, FindsFirst
    <3>2. \A j \in FindConnData(d) : slot'[j] = slot[j]
      BY <1>4, <3>1
    <3> QED
      BY <2>1, <3>2, StillServed DEF HttpInv
  <2> QED
    BY <2>2, <2>3, ServedOneByOne
<1>8. ASSUME FilesFit PROVE FilesAccounted'
  <2> DEFINE s == w.s
  <2>1. /\ FilesAccounted /\ open \in Int /\ open' \in Int /\ slot' = [slot EXCEPT ![i] = s]
        /\ open' - Holds(s) = open - Holds(slot[i])
    BY <1>2, <1>3, <1>8 DEF HttpInv, StateOK
  <2> HIDE DEF s
  <2> QED
    BY <1>0, <1>4, <2>1, FilesOfOneSlot, ZenonT(40)
<1> QED
  BY <1>1, <1>5, <1>6, <1>7, <1>8 DEF HttpInv

\* The receive callback keeps the invariant.
LEMMA HttpReceive ==
  ASSUME HttpInv, NEW c \in Conns, httpdRecvCb(c)
  PROVE  HttpInv'
<1>1. PICK i, len, w : Received(c, i, len, w)
  BY ReceiveGives
<1> DEFINE r == req[c]
           w0 == Context(i)
           k == Units(c) + len
<1>2. /\ i \in FindConnData(c) /\ i \in Slots /\ len \in 1 .. left[c] /\ c \in Alive
      /\ Feeding(w0, r, w, k)
      /\ left' = [left EXCEPT ![c] = @ - len]
      /\ slot' = [slot EXCEPT ![i] = w.s]
      /\ unsent' = [unsent EXCEPT ![c] = @ + w.packets]
      /\ out' = [out EXCEPT ![c] = @ \o w.sent]
      /\ Shared(w, {i})
      /\ UNCHANGED <<conn, est, req>>
  BY <1>1, FindsFirst DEF Received
<1>3. ServesOK(i, c) /\ (est[c] = "up" => AnswerOK(i, c)) /\ left[c] \in Nat /\ ConnTypes
  BY <1>2 DEF HttpInv, AllServed, Fits, Alive, Kept, ConnTypes
<1>4. r \in Requests /\ r.head \in Nat \ {0} /\ r.body \in Nat /\ left[c] <= r.head + r.body
  BY <1>3, RequestFacts DEF ServesOK
<1>5. /\ w0.s = slot[i] /\ w0.sent = <<>> /\ w0.packets = 0
      /\ w0.open = open /\ w0.stray = stray
  BY <1>2, ContextFacts DEF HttpInv
<1>6. k \in Nat /\ k <= r.head + r.body /\ (left[c] - len = 0 => k = r.head + r.body) /\ left[c] - len \in Nat
  <2>1. Units(c) = r.head + r.body - left[c] /\ len \in 1 .. left[c]
    BY <1>2 DEF Units
  <2>2. k = r.head + r.body - left[c] + len
    BY <2>1
  <2> HIDE DEF k, r
  <2> QED
    BY <1>3, <1>4, <2>1, <2>2
<1> HIDE DEF w0
<1>7. /\ Progress(w0, r, w) /\ FedOK(w.s, r, k) /\ HandlerOK(w.s, r)
      /\ w \in Ctx /\ w.s \in SlotRec /\ w.sent \in Seq(Item) /\ w.packets \in Nat
  BY <1>2 DEF Feeding, Progress, Ready, Ctx
<1>8. Bounded(w.s) /\ SlotShape(w.s)
  BY <1>4, <1>6, <1>7, FedBounds
<1>9. ConnTypes'
  <2>1. out[c] \o w.sent \in Seq(Item) /\ unsent[c] + w.packets \in Nat
    BY <1>3, <1>7 DEF ConnTypes
  <2> QED
    BY <1>2, <1>3, <1>6, <2>1 DEF ConnTypes
<1>10. /\ left'[c] = left[c] - len /\ slot'[i] = w.s /\ unsent'[c] = unsent[c] + w.packets
       /\ out'[c] = out[c] \o w.sent /\ req'[c] = r
       /\ \A d \in Conns \ {c} : left'[d] = left[d] /\ out'[d] = out[d] /\ unsent'[d] = unsent[d]
  BY <1>2, <1>3 DEF HttpInv, SlotsOK, ConnTypes
<1>11. Units(c)' = k
  BY <1>2, <1>3, <1>4, <1>10 DEF Units
<1>12. ASSUME est[c] = "up" PROVE w.s.cgi # "NULL" => out'[c] # <<>>
  <2>1. CASE w.sent = <<>>
    <3>1. w.s.cgi = slot[i].cgi
      BY <1>5, <1>7, <2>1 DEF Progress
    <3>2. out[c] \in Seq(Item) /\ out'[c] = out[c]
      BY <1>3, <1>10, <2>1 DEF ConnTypes
    <3> QED
      BY <1>3, <1>12, <3>1, <3>2 DEF AnswerOK
  <2>2. CASE w.sent # <<>>
    <3>1. out[c] \in Seq(Item)
      BY <1>3 DEF ConnTypes
    <3> QED
      BY <1>7, <1>10, <2>2, <3>1, HeadOfConcat
  <2> QED
    BY <2>1, <2>2
<1>13. left'[c] = 0 /\ Closes(r) => unsent'[c] > 0
  <2> SUFFICES ASSUME left'[c] = 0, Closes(r) PROVE unsent'[c] > 0
    OBVIOUS
  <2>1. w.sent # <<>>
    BY <1>2, <1>6, <1>10 DEF Feeding, Closes
  <2>2. w.packets > 0
    BY <1>7, <2>1 DEF Progress
  <2>3. unsent[c] \in Nat
    BY <1>3 DEF ConnTypes
  <2> QED
    BY <1>7, <1>10, <2>2, <2>3
<1>14. ServesOK(i, c)'
  <2>1. left'[c] <= r.head + r.body
    BY <1>2, <1>3, <1>4, <1>10
  <2> HIDE DEF r, k
  <2>2. req'[c] = r
    BY <1>10
  <2> QED
    BY <1>4, <1>7, <1>10, <1>11, <2>1, <2>2 DEF ServesOK
<1>16. est[c] = "up" => AnswerOK(i, c)'
  <2> HIDE DEF r
  <2>1. req'[c] = r
    BY <1>10
  <2> QED
    BY <1>10, <1>12, <1>13, <2>1 DEF AnswerOK
<1>15. w.stray = stray /\ (FilesFit => w.open - Holds(w.s) = open - Holds(slot[i]))
  BY <1>5, <1>7 DEF Progress
<1> QED
  BY <1>2, <1>7, <1>8, <1>9, <1>10, <1>14, <1>15, <1>16, SlotServed

\* What a sent callback for connection c in slot i did when a handler was at work.
SentOn(c, i, w) ==
  /\ i \in FindConnData(c) /\ i \in Slots /\ c \in Alive /\ unsent[c] > 0 /\ slot[i].cgi # "NULL"
  /\ Continued(Context(i), req[c], w)
  /\ slot' = [slot EXCEPT ![i] = w.s]
  /\ unsent' = [unsent EXCEPT ![c] = @ - 1 + w.packets]
  /\ out' = [out EXCEPT ![c] = @ \o w.sent]
  /\ Shared(w, {i})
  /\ UNCHANGED <<conn, est, req, left>>

\* The sent callback with a handler does what SentOn says.
LEMMA SentMoreGives ==
  ASSUME HttpInv, NEW c \in Conns, c \in Alive, unsent[c] > 0, NEW i \in FindConnData(c), SentMore(c, i)
  PROVE  \E w : SentOn(c, i, w)
<1> DEFINE w0 == Context(i)
           w == CalledAgain(w0, req[c])
<1>1. i \in Slots
  BY FindsFirst
<1>2. Ready(w0) /\ w0.s = slot[i]
  BY <1>1, ContextFacts DEF HttpInv
<1>3. ServesOK(i, c)
  BY DEF HttpInv, AllServed, Fits, Alive, Kept
<1>4. /\ slot[i].cgi # "NULL"
      /\ slot' = [slot EXCEPT ![i] = w.s]
      /\ unsent' = [unsent EXCEPT ![c] = @ - 1 + w.packets]
      /\ out' = [out EXCEPT ![c] = @ \o w.sent]
      /\ Shared(w, {i})
      /\ UNCHANGED <<conn, est, req, left>>
  <2>1. w = xmitSendBuff(IF Call(slot[i].cgi, w0, req[c]).r = "MORE" THEN Call(slot[i].cgi, w0, req[c])
                         ELSE MarkForDestruction(Call(slot[i].cgi, w0, req[c])))
    BY <1>2 DEF CalledAgain
  <2> HIDE DEF w
  <2> QED
    BY <2>1 DEF SentMore
<1> HIDE DEF w0
<1>5. Continued(w0, req[c], w)
  BY <1>2, <1>3, <1>4, Continues DEF ServesOK
<1> HIDE DEF w
<1>6. SentOn(c, i, w)
  BY <1>1, <1>4, <1>5 DEF SentOn, w0
<1> QED
  BY <1>6

\* What every step of a handler that goes on has in common; it sends a packet,
\* unless a file ends at a multiple of what is read at a time.
LEMMA ContinuedFacts ==
  ASSUME NEW w, Ready(w), NEW r, HandlerOK(w.s, r), NEW ww, Continued(w, r, ww)
  PROVE  /\ ww \in Ctx /\ ww.stray = w.stray /\ ww.login = w.login
         /\ ww.s = [w.s EXCEPT !.cgi = ww.s.cgi, !.cgiData = ww.s.cgiData]
         /\ HandlerOK(ww.s, r) /\ ww.open - Holds(ww.s) = w.open - Holds(w.s)
         /\ ww.packets >= w.packets /\ (Closes(r) => ww.packets > w.packets)
<1>1. w.s \in SlotRec /\ w.open \in Int /\ w.packets \in Nat
  BY DEF Ready, Ctx
<1>2. PICK packet : Advanced(w, ww, packet) /\ (packet = <<>> => FileEnded(w, r, ww) /\ Files[FileName(r.url)] = w.s.cgiData - 1)
  <2> DEFINE end == <<<<"end", w.scan.result, w.scan.n>>>>
             ap == IF w.s.cgiData - 1 < w.scan.n THEN <<<<"ap", w.scan.result, w.s.cgiData>>>> ELSE <<>>
  <2>1. ap \o end # <<>>
    <3> DEFINE x == <<"end", w.scan.result, w.scan.n>>
               y == <<"ap", w.scan.result, w.s.cgiData>>
    <3> HIDE DEF x, y
    <3>1. <<x>> \in Seq({x, y}) /\ <<y>> \in Seq({x, y}) /\ <<x>> # <<>> /\ <<>> \in Seq({x, y})
      OBVIOUS
    <3>2. <<y>> \o <<x>> # <<>> /\ <<>> \o <<x>> # <<>>
      BY <3>1, HeadOfConcat
    <3> QED
      BY <3>2 DEF x, y
  <2>2. PieceSent(w, r, ww) => Advanced(w, ww, <<<<"piece", w.s.cgiData - 1 + PieceLen>>>>)
    BY DEF PieceSent
  <2>3. EntrySent(w, ww) => Advanced(w, ww, <<<<"ap", w.scan.result, w.s.cgiData>>>>)
    BY DEF EntrySent
  <2>4. ListingEnded(w, ww) => Advanced(w, ww, ap \o end)
    BY DEF ListingEnded
  <2>5. ListingBroken(w, ww) => Advanced(w, ww, Answer(200, "busy")) /\ Answer(200, "busy") # <<>>
    BY DEF ListingBroken, Answer
  <2>6. FileEnded(w, r, ww) =>
          Advanced(w, ww, IF Files[FileName(r.url)] = w.s.cgiData - 1 THEN <<>> ELSE <<<<"piece", Files[FileName(r.url)]>>>>)
    BY DEF FileEnded
  <2>7. \A x : <<x>> # <<>>
    OBVIOUS
  <2> HIDE DEF ap, end
  <2>8. CASE PieceSent(w, r, ww) \/ EntrySent(w, ww)
    <3> DEFINE x == <<"piece", w.s.cgiData - 1 + PieceLen>>
               y == <<"ap", w.scan.result, w.s.cgiData>>
    <3> HIDE DEF x, y
    <3>1. <<x>> # <<>> /\ <<y>> # <<>>
      BY <2>7
    <3>2. Advanced(w, ww, <<x>>) \/ Advanced(w, ww, <<y>>)
      BY <2>2, <2>3, <2>8 DEF x, y
    <3> QED
      BY <3>1, <3>2
  <2>9. CASE ListingEnded(w, ww) \/ ListingBroken(w, ww)
    BY <2>1, <2>4, <2>5, <2>9, Zenon
  <2>10. CASE FileEnded(w, r, ww)
    <3>1. CASE Files[FileName(r.url)] = w.s.cgiData - 1
      BY <2>6, <2>10, <3>1
    <3>2. CASE Files[FileName(r.url)] # w.s.cgiData - 1
      BY <2>6, <2>7, <2>10, <3>2
    <3> QED
      BY <3>1, <3>2
  <2> QED
    BY <2>8, <2>9, <2>10 DEF Continued
<1>3. /\ ww \in Ctx /\ ww.stray = w.stray /\ ww.login = w.login
      /\ ww.s = [w.s EXCEPT !.cgi = ww.s.cgi, !.cgiData = ww.s.cgiData]
      /\ ww.packets = w.packets + (IF packet = <<>> THEN 0 ELSE 1)
      /\ ww.s \in SlotRec /\ ww.open \in Int
  BY <1>2 DEF Advanced, Ctx
<1>4. Closes(r) => packet # <<>>
  <2> SUFFICES ASSUME Closes(r), FileEnded(w, r, ww), Files[FileName(r.url)] = w.s.cgiData - 1 PROVE FALSE
    BY <1>2
  <2>1. FileName(r.url) \in DOMAIN Files /\ \E m \in Nat : w.s.cgiData = m * PieceLen + 1
    BY DEF FileEnded, HandlerOK
  <2>2. PICK m \in Nat : w.s.cgiData = m * PieceLen + 1
    BY <2>1
  <2>3. PieceLen \in Nat \ {0}
    BY LengthsAssumption
  <2>4. Files[FileName(r.url)] = m * PieceLen
    BY <2>2, <2>3
  <2>5. (m * PieceLen) % PieceLen = 0
    BY <2>3
  <2> QED
    BY <2>1, <2>4, <2>5 DEF Closes
<1>5. HandlerOK(ww.s, r) /\ ww.open - Holds(ww.s) = w.open - Holds(w.s)
  <2>1. CASE PieceSent(w, r, ww)
    <3>1. /\ w.s.cgi = "cgiEspFsHook" /\ Files[FileName(r.url)] >= w.s.cgiData - 1 + PieceLen
          /\ ww.s.cgi = w.s.cgi /\ ww.s.cgiData = w.s.cgiData + PieceLen /\ ww.open = w.open
      BY <2>1 DEF PieceSent
    <3>2. PICK m \in Nat : w.s.cgiData = m * PieceLen + 1
      BY <3>1 DEF HandlerOK
    <3>3. PieceLen \in Nat \ {0} /\ FileName(r.url) \in DOMAIN Files /\ Files[FileName(r.url)] \in Nat /\ w.s.cgiData \in Nat \ {0}
      BY <1>1, <3>1, LengthsAssumption DEF HandlerOK, SlotRec
    <3>4. ww.s.cgiData = (m + 1) * PieceLen + 1 /\ m + 1 \in Nat
      <4>1. (m + 1) * PieceLen = m * PieceLen + PieceLen /\ m * PieceLen \in Nat
        BY <3>3
      <4> QED
        BY <3>1, <3>2, <3>3, <4>1
    <3>5. ww.s.cgiData - 1 <= Files[FileName(r.url)] /\ ww.s.cgiData >= 1
      BY <3>1, <3>3
    <3>6. HandlerOK(ww.s, r)
      BY <3>1, <3>3, <3>4, <3>5 DEF HandlerOK
    <3>7. Holds(ww.s) = Holds(w.s)
      BY <3>1, <3>3, <3>5 DEF Holds
    <3> QED
      BY <3>1, <3>6, <3>7
  <2>2. CASE FileEnded(w, r, ww)
    <3>1. w.s.cgi = "cgiEspFsHook" /\ ww.s.cgi = "NULL" /\ ww.open = w.open - 1 /\ w.s.cgiData >= 1
          /\ w.s.cgiData \in Nat
      BY <1>1, <2>2 DEF FileEnded, HandlerOK, SlotRec
    <3>2. Holds(w.s) = 1 /\ Holds(ww.s) = 0
      BY <3>1 DEF Holds
    <3> QED
      BY <1>1, <3>1, <3>2 DEF HandlerOK
  <2>3. CASE EntrySent(w, ww)
    <3>1. w.s.cgi = "cgiWiFiScan" /\ ww.s.cgi = w.s.cgi /\ ww.s.cgiData = w.s.cgiData + 1 /\ ww.open = w.open
          /\ w.s.cgiData \in Nat /\ r.url = "/admin/wifiscan.cgi"
      BY <1>1, <2>3 DEF EntrySent, HandlerOK, SlotRec
    <3>2. Holds(w.s) = 0 /\ Holds(ww.s) = 0
      BY <3>1 DEF Holds
    <3> QED
      BY <3>1, <3>2 DEF HandlerOK
  <2>4. CASE ListingEnded(w, ww) \/ ListingBroken(w, ww)
    <3>1. w.s.cgi = "cgiWiFiScan" /\ ww.s.cgi = "NULL" /\ ww.open = w.open
      BY <2>4 DEF ListingEnded, ListingBroken
    <3>2. Holds(w.s) = 0 /\ Holds(ww.s) = 0
      BY <3>1 DEF Holds
    <3> QED
      BY <3>1, <3>2 DEF HandlerOK
  <2> QED
    BY <2>1, <2>2, <2>3, <2>4 DEF Continued
<1> QED
  BY <1>1, <1>3, <1>4, <1>5

\* It keeps the invariant.
LEMMA HttpSentMore ==
  ASSUME HttpInv, NEW c \in Conns, c \in Alive, unsent[c] > 0, NEW i \in FindConnData(c), SentMore(c, i)
  PROVE  HttpInv'
<1>1. PICK w : SentOn(c, i, w)
  BY SentMoreGives
<1> DEFINE r == req[c]
           w0 == Context(i)
<1>2. /\ i \in Slots /\ slot[i].cgi # "NULL"
      /\ Continued(w0, r, w)
      /\ slot' = [slot EXCEPT ![i] = w.s]
      /\ unsent' = [unsent EXCEPT ![c] = @ - 1 + w.packets]
      /\ out' = [out EXCEPT ![c] = @ \o w.sent]
      /\ Shared(w, {i})
      /\ UNCHANGED <<conn, est, req, left>>
  BY <1>1 DEF SentOn
<1>3. ServesOK(i, c) /\ (est[c] = "up" => AnswerOK(i, c)) /\ left[c] \in Nat /\ ConnTypes
  BY DEF HttpInv, AllServed, Fits, Alive, Kept, ConnTypes
<1>4. r \in Requests /\ r.head \in Nat \ {0} /\ r.body \in Nat /\ left[c] <= r.head + r.body
      /\ MaxPost \in Nat \ {0}
  BY <1>3, RequestFacts DEF ServesOK
<1>5. /\ Ready(w0) /\ w0.s = slot[i] /\ w0.sent = <<>> /\ w0.packets = 0
      /\ w0.open = open /\ w0.stray = stray /\ w0.s \in SlotRec
  BY <1>2, ContextFacts DEF HttpInv, Ready, Ctx
<1>6. HandlerOK(w0.s, r) /\ FedOK(w0.s, r, Units(c))
  BY <1>3, <1>5 DEF ServesOK
<1>7. Units(c) \in Nat /\ Units(c) <= r.head + r.body
  BY <1>3, <1>4 DEF Units
<1> HIDE DEF w0, r
<1>8. /\ w \in Ctx /\ w.stray = w0.stray /\ w.login = w0.login
      /\ w.s = [w0.s EXCEPT !.cgi = w.s.cgi, !.cgiData = w.s.cgiData]
      /\ HandlerOK(w.s, r) /\ w.open - Holds(w.s) = w0.open - Holds(w0.s)
      /\ w.packets >= w0.packets /\ (Closes(r) => w.packets > w0.packets)
  BY <1>2, <1>5, <1>6, ContinuedFacts
<1>9. w.s \in SlotRec /\ w.sent \in Seq(Item) /\ w.packets \in Nat
  BY <1>8 DEF Ctx
\* What the slot holds of the request stays; a file or listing follows the last unit,
\* or its request has a body longer than the buffer.
<1>10. FedOK(w.s, r, Units(c))
  <2>1. /\ w.s.len = w0.s.len /\ w.s.headPos = w0.s.headPos /\ w.s.buffLen = w0.s.buffLen
        /\ w.s.received = w0.s.received /\ w.s.url = w0.s.url
    BY <1>5, <1>8 DEF SlotRec
  <2>2. Parsed(r, Units(c)) /\ ~(r.body <= MaxPost /\ Units(c) < r.head + r.body)
    BY <1>2, <1>5, <1>6 DEF FedOK
  <2> QED
    BY <1>6, <2>1, <2>2 DEF FedOK
<1>11. Bounded(w.s) /\ SlotShape(w.s)
  BY <1>4, <1>7, <1>8, <1>9, <1>10, FedBounds
<1>12. unsent[c] - 1 + w.packets \in Nat /\ (Closes(r) => unsent[c] - 1 + w.packets > 0)
  <2>1. unsent[c] \in Nat
    BY <1>3 DEF ConnTypes
  <2> QED
    BY <1>5, <1>8, <1>9, <2>1
<1>13. ConnTypes'
  <2>1. out[c] \o w.sent \in Seq(Item)
    BY <1>3, <1>9 DEF ConnTypes
  <2> QED
    BY <1>2, <1>3, <1>12, <2>1 DEF ConnTypes
<1>14. /\ slot'[i] = w.s /\ unsent'[c] = unsent[c] - 1 + w.packets
       /\ out'[c] = out[c] \o w.sent
       /\ \A d \in Conns \ {c} : left'[d] = left[d] /\ out'[d] = out[d] /\ unsent'[d] = unsent[d]
  BY <1>2, <1>3 DEF HttpInv, SlotsOK, ConnTypes
<1>15. ASSUME est[c] = "up" PROVE out'[c] # <<>>
  <2>1. out[c] # <<>> /\ out[c] \in Seq(Item)
    BY <1>2, <1>3, <1>15 DEF AnswerOK, ConnTypes
  <2> DEFINE a == out[c]
             b == w.sent
             ab == a \o b
  <2>2. a \in Seq(Item) /\ b \in Seq(Item) /\ a # <<>>
    BY <1>9, <2>1
  <2> HIDE DEF a, b
  <2>3. Len(a) # 0 /\ Len(a) \in Nat /\ Len(b) \in Nat /\ Len(ab) = Len(a) + Len(b)
        /\ ab \in Seq(Item)
    BY <2>2, EmptySeq, LenProperties, ConcatProperties
  <2> HIDE DEF ab
  <2>4. ab # <<>>
    BY <2>3, EmptySeq
  <2> QED
    BY <1>14, <2>4 DEF ab, a, b
<1>16. ServesOK(i, c)' /\ (est[c] = "up" => AnswerOK(i, c)')
  <2>1. req'[c] = r /\ left'[c] = left[c] /\ Units(c)' = Units(c)
    BY <1>2 DEF r, Units
  <2> QED
    BY <1>4, <1>8, <1>10, <1>12, <1>14, <1>15, <2>1 DEF ServesOK, AnswerOK
<1>17. w.stray = stray /\ w.open - Holds(w.s) = open - Holds(slot[i])
  BY <1>5, <1>8
<1> QED
  BY <1>2, <1>8, <1>11, <1>13, <1>14, <1>16, <1>17, SlotServed

\* Connections that are no longer up: their slots stay as they are.
LEMMA EndedFacts ==
  ASSUME ConnTypes, NEW E \in SUBSET Conns, Ended(E)
  PROVE  /\ ConnTypes'
         /\ \A d \in Conns \ E : /\ req'[d] = req[d] /\ left'[d] = left[d] /\ out'[d] = out[d]
                                 /\ unsent'[d] = unsent[d]
<1>1. <<>> \in Seq(Item)
  OBVIOUS
<1> QED
  BY <1>1 DEF Ended, ConnTypes

\* So does the sent callback that closes the connection and gives its slot up.
LEMMA HttpSentLast ==
  ASSUME HttpInv, NEW c \in Conns, NEW i \in FindConnData(c), SentLast(c, i)
  PROVE  HttpInv'
<1>1. /\ i \in Slots /\ conn[i] = c /\ slot[i].cgi = "NULL"
      /\ est' = [est EXCEPT ![c] = "closing"] /\ conn' = [conn EXCEPT ![i] = NoConn]
      /\ slot' = [slot EXCEPT ![i] = Unused] /\ Ended({c})
      /\ UNCHANGED <<scan, login, open, stray>>
  BY FindsFirst DEF SentLast
<1>2. slot \in [Slots -> SlotRec] /\ \A j \in Slots : slot'[j] = IF j = i THEN Unused ELSE slot[j]
  BY <1>1 DEF HttpInv, SlotsOK
<1>3. PoolInv'
  BY PoolLast DEF HttpInv
<1>4. ConnTypes' /\ \A d \in Conns \ {c} :
        req'[d] = req[d] /\ left'[d] = left[d] /\ out'[d] = out[d] /\ unsent'[d] = unsent[d]
  <2>1. {c} \in SUBSET Conns
    OBVIOUS
  <2> QED
    BY <1>1, <2>1, EndedFacts DEF HttpInv
<1>5. StateOK'
  BY <1>1, <1>2, UnusedFacts DEF HttpInv, StateOK
<1>6. SlotsOK'
  BY <1>1, <1>2, UnusedFacts DEF HttpInv, SlotsOK, PoolInv
<1>7. AllServed'
  <2>1. est'[c] = "closing" /\ \A d \in Conns \ {c} : est'[d] = est[d]
    BY <1>1 DEF HttpInv, PoolInv
  <2>2. Fits(i, c)' /\ \A j : Fits(j, c)'
    BY <2>1 DEF Fits, Kept
  <2>3. ASSUME NEW d \in Conns \ {c} PROVE \A j \in FindConnData(d)' : Fits(j, d)'
    <3>1. \A j \in Slots : conn'[j] = d <=> conn[j] = d
      BY <1>1, PoolAssumption DEF HttpInv, PoolInv
    <3>2. FindConnData(d)' = FindConnData(d)
      BY <3>1, FoundAsBefore
    <3>3. \A j \in FindConnData(d) : slot'[j] = slot[j]
      BY <1>1, <1>2, FindsFirst
    <3> QED
      BY <1>4, <2>1, <3>2, <3>3, StillServed DEF HttpInv
  <2> QED
    BY <2>2, <2>3, ServedOneByOne
<1>8. ASSUME FilesFit PROVE FilesAccounted'
  <2> DEFINE s == Unused
  <2>1. open' - Holds(s) = open - Holds(slot[i]) /\ open \in Int /\ open' \in Int
    BY <1>1, UnusedFacts DEF HttpInv, StateOK, Holds
  <2> HIDE DEF s
  <2>2. slot' = [slot EXCEPT ![i] = s]
    BY <1>1 DEF s
  <2> QED
    BY <1>1, <1>2, <1>8, <2>1, <2>2, FilesOfOneSlot DEF HttpInv
<1> QED
  BY <1>3, <1>4, <1>5, <1>6, <1>7, <1>8 DEF HttpInv

\* A connection that is closed by its client or reset leaves its slot as it is.
LEMMA LossGives ==
  ASSUME HttpInv, NEW c \in Conns, ClientCloses(c) \/ httpdReconCb(c)
  PROVE  /\ UNCHANGED <<conn, slot, scan, login, open, stray>>
         /\ c \in Alive /\ est' \in {[est EXCEPT ![c] = "closing"], [est EXCEPT ![c] = "gone"]}
         /\ est' = [est EXCEPT ![c] = "gone"] => req'[c] = req[c] /\ left'[c] = left[c]
         /\ ConnTypes' /\ out'[c] = <<>>
         /\ \A d \in Conns \ {c} : /\ req'[d] = req[d] /\ left'[d] = left[d] /\ out'[d] = out[d]
                                   /\ unsent'[d] = unsent[d] /\ mixed'[d] = mixed[d]
<1>1. ConnTypes /\ <<>> \in Seq(Item)
  BY DEF HttpInv
<1>2. CASE ClientCloses(c)
  <2>1. Ended({c}) /\ c \in Alive /\ est' = [est EXCEPT ![c] = "closing"]
        /\ UNCHANGED <<conn, slot, scan, login, open, stray>>
    BY <1>2 DEF ClientCloses
  <2>2. {c} \in SUBSET Conns
    OBVIOUS
  <2>3. ConnTypes' /\ \A d \in Conns \ {c} : /\ req'[d] = req[d] /\ left'[d] = left[d]
                                             /\ out'[d] = out[d] /\ unsent'[d] = unsent[d]
    BY <1>1, <2>1, <2>2, EndedFacts
  <2>4. out'[c] = <<>> /\ \A d \in Conns \ {c} : mixed'[d] = mixed[d]
    BY <2>1 DEF Ended
  <2>5. est'[c] = "closing" /\ [est EXCEPT ![c] = "gone"][c] = "gone"
    BY <2>1 DEF HttpInv, PoolInv
  <2> QED
    BY <2>1, <2>3, <2>4, <2>5
<1>3. CASE httpdReconCb(c)
  BY <1>1, <1>3 DEF httpdReconCb, ConnTypes, HttpInv
<1> QED
  BY <1>2, <1>3

LEMMA HttpLoss ==
  ASSUME HttpInv, NEW c \in Conns, ClientCloses(c) \/ httpdReconCb(c)
  PROVE  HttpInv'
<1>1. /\ UNCHANGED <<conn, slot, scan, login, open, stray>> /\ ConnTypes'
      /\ c \in Alive /\ est' \in {[est EXCEPT ![c] = "closing"], [est EXCEPT ![c] = "gone"]}
      /\ est' = [est EXCEPT ![c] = "gone"] => req'[c] = req[c] /\ left'[c] = left[c]
      /\ \A d \in Conns \ {c} : /\ req'[d] = req[d] /\ left'[d] = left[d] /\ out'[d] = out[d]
                                /\ unsent'[d] = unsent[d]
  BY LossGives
<1>2. PoolInv'
  BY PoolLoss DEF HttpInv
<1>3. /\ est'[c] # "up" /\ est[c] \in Kept /\ \A d \in Conns \ {c} : est'[d] = est[d]
      /\ est'[c] \in Kept => est' = [est EXCEPT ![c] = "gone"]
  BY <1>1 DEF HttpInv, PoolInv, Alive, Kept
<1>4. \A d : FindConnData(d)' = FindConnData(d)
  BY <1>1 DEF FindConnData
<1>5. AllServed'
  <2>1. ASSUME NEW d \in Conns \ {c} PROVE \A j \in FindConnData(d)' : Fits(j, d)'
    BY <1>1, <1>3, <1>4, StillServed DEF HttpInv
  <2>2. \A j \in FindConnData(c)' : Fits(j, c)'
    <3>1. CASE est'[c] \notin Kept
      BY <1>3, <3>1 DEF Fits
    <3>2. CASE est'[c] \in Kept
      BY <1>1, <1>3, <1>4, <3>2, StillServed DEF HttpInv
    <3> QED
      BY <3>1, <3>2
  <2> QED
    BY <2>1, <2>2, ServedOneByOne
<1> QED
  BY <1>1, <1>2, <1>5 DEF HttpInv, StateOK, SlotsOK, FilesAccounted

\* The disconnect callback closes exactly the files of the slots it frees.
LEMMA HttpDiscon ==
  ASSUME HttpInv, NEW c \in Conns, httpdDisconCb(c)
  PROVE  HttpInv'
<1>1. PICK seen \in SUBSET {d \in Conns : est[d] = "gone"} :
        /\ conn' = [i \in Slots |-> IF i \in LooksClosed(seen) THEN NoConn ELSE conn[i]]
        /\ slot' = [i \in Slots |-> IF i \in LooksClosed(seen) THEN Unused ELSE slot[i]]
        /\ est' = [d \in Conns |-> IF d = c \/ d \in seen THEN "free" ELSE est[d]]
        /\ req' = [d \in Conns |-> IF d \in seen THEN NoRequest ELSE req[d]]
        /\ left' = [d \in Conns |-> IF d \in seen THEN 0 ELSE left[d]]
        /\ Shared(Flush(LooksClosed(seen)), LooksClosed(seen))
  BY DEF httpdDisconCb
<1> DEFINE dead == LooksClosed(seen)
           w == Flush(dead)
<1>2. dead \in SUBSET Slots /\ \A i \in dead : est[conn[i]] = "closing" \/ est[conn[i]] = "gone"
  BY <1>1 DEF LooksClosed
<1> HIDE DEF dead
<1>3. /\ w.login = login /\ w.scan \in ScanRec /\ w.stray \subseteq {"cgiWiFiScan"}
      /\ w.open = open - Cardinality({i \in dead : Holds(slot[i]) = 1})
  BY <1>2, FlushGives DEF HttpInv
<1> HIDE DEF w
<1>4. scan' = w.scan /\ login' = w.login /\ open' = w.open /\ stray' = w.stray
  BY <1>1, SharedFacts DEF w, dead
<1>5. PoolInv'
  BY PoolDiscon DEF HttpInv
<1>6. UNCHANGED <<unsent, out>>
  BY DEF httpdDisconCb
<1>7. \A i \in Slots : /\ slot'[i] = IF i \in dead THEN Unused ELSE slot[i]
                       /\ conn'[i] = IF i \in dead THEN NoConn ELSE conn[i]
  BY <1>1 DEF dead
<1> DEFINE D == {i \in dead : Holds(slot[i]) = 1}
<1>8. open' \in Int
  <2>1. Cardinality(D) \in Nat /\ open \in Int
    <3>1. D \in SUBSET Slots
      BY <1>2
    <3> QED
      BY <3>1, SlotsFinite DEF HttpInv, StateOK
  <2> HIDE DEF D
  <2> QED
    BY <1>3, <1>4, <2>1 DEF D
<1>9. ASSUME FilesFit PROVE FilesAccounted'
  <2>1. Held = Held' \cup D /\ Held' \cap D = {}
    BY <1>2, <1>7, UnusedFacts DEF Held
  <2>2. D \in SUBSET Slots /\ Held' \in SUBSET Slots
    BY <1>2 DEF Held
  <2>3. IsFiniteSet(D) /\ IsFiniteSet(Held') /\ Cardinality(D) \in Nat /\ Cardinality(Held') \in Nat
    BY <2>2, SlotsFinite
  <2>4. Cardinality(Held) = Cardinality(Held') + Cardinality(D)
    <3> DEFINE H == Held'
    <3>1. IsFiniteSet(H) /\ IsFiniteSet(D) /\ H \cap D = {} /\ Held = H \cup D
          /\ Cardinality(H) \in Nat /\ Cardinality(D) \in Nat
      BY <2>1, <2>3
    <3> HIDE DEF H, D
    <3>2. Cardinality(H \cup D) = Cardinality(H) + Cardinality(D) - Cardinality(H \cap D)
      BY <3>1, FS_Union
    <3>3. Cardinality(H \cap D) = 0
      BY <3>1, FS_EmptySet
    <3>4. Cardinality(Held) = Cardinality(H) + Cardinality(D)
      BY <3>1, <3>2, <3>3
    <3> QED
      BY <3>4 DEF H
  <2>5. open = Cardinality(Held)
    BY <1>9, HeldFiles DEF HttpInv
  <2>6. open' = Cardinality(Held')
    BY <1>3, <1>4, <2>3, <2>4, <2>5
  <2> QED
    BY <2>6, HeldFiles
<1>10. StateOK'
  BY <1>3, <1>4, <1>7, <1>8, UnusedFacts DEF HttpInv, StateOK
<1>11. SlotsOK'
  BY <1>1, <1>7, UnusedFacts DEF HttpInv, SlotsOK
<1>12. AllServed'
  <2>1. ASSUME NEW d \in Conns, d = c \/ d \in seen PROVE \A j : Fits(j, d)'
    BY <1>1, <2>1 DEF Fits, Kept
  <2>2. ASSUME NEW d \in Conns, ~(d = c \/ d \in seen), est[d] \notin Kept
        PROVE  \A j : Fits(j, d)'
    BY <1>1, <2>2 DEF Fits, Kept
  <2>3. ASSUME NEW d \in Conns, ~(d = c \/ d \in seen), est[d] \in Kept
        PROVE  \A j \in FindConnData(d)' : Fits(j, d)'
    <3>1. est'[d] = est[d] /\ req'[d] = req[d] /\ left'[d] = left[d]
      BY <1>1, <2>3
    <3>2. \A j \in Slots : conn[j] = d => j \notin dead
      BY <2>3 DEF dead, LooksClosed, Kept
    <3>3. \A j \in Slots : conn'[j] = d <=> conn[j] = d
      BY <1>7, <3>2, PoolAssumption
    <3>4. FindConnData(d)' = FindConnData(d)
      BY <3>3, FoundAsBefore
    <3>5. \A j \in FindConnData(d) : slot'[j] = slot[j]
      BY <1>7, <3>2, FindsFirst
    <3> QED
      BY <1>6, <3>1, <3>4, <3>5, StillServed DEF HttpInv
  <2> QED
    BY <2>1, <2>2, <2>3, ServedOneByOne
<1>13. ConnTypes'
  BY <1>1, <1>6 DEF HttpInv, ConnTypes
<1> QED
  BY <1>5, <1>9, <1>10, <1>11, <1>12, <1>13 DEF HttpInv

\* A scan result changes nothing the invariant is about but the result.
LEMMA HttpUnchanged ==
  ASSUME HttpInv, UNCHANGED <<conn, slot, login, open, est, unsent, req, left, out, stray>>, scan' \in ScanRec
  PROVE  HttpInv'
<1>1. AllServed'
  <2>1. \A d : FindConnData(d)' = FindConnData(d)
    BY DEF FindConnData
  <2>2. \A d \in Conns : \A j \in FindConnData(d)' : Fits(j, d)'
    BY <2>1, StillServed DEF HttpInv
  <2> QED
    BY <2>2, ServedOneByOne
<1> QED
  BY <1>1 DEF HttpInv, PoolInv, StateOK, SlotsOK, ConnTypes, FilesAccounted

\* Every step keeps the invariant.
LEMMA HttpNext ==
  ASSUME HttpInv, [Next]_vars
  PROVE  HttpInv'
<1>1. ASSUME NEW c \in Conns, httpdConnectCb(c) PROVE HttpInv'
  BY <1>1, HttpConnect
<1>2. ASSUME NEW c \in Conns, httpdRecvCb(c) PROVE HttpInv'
  BY <1>2, HttpReceive
<1>3. ASSUME NEW c \in Conns, httpdSentCb(c) PROVE HttpInv'
  <2>1. PICK i \in FindConnData(c) : SentMore(c, i) \/ SentLast(c, i)
    BY <1>3 DEF httpdSentCb
  <2>2. c \in Alive /\ unsent[c] > 0
    BY <1>3 DEF httpdSentCb
  <2> QED
    BY <2>1, <2>2, HttpSentMore, HttpSentLast
<1>4. ASSUME NEW c \in Conns, ClientCloses(c) \/ httpdReconCb(c) PROVE HttpInv'
  BY <1>4, HttpLoss
<1>5. ASSUME NEW c \in Conns, httpdDisconCb(c) PROVE HttpInv'
  BY <1>5, HttpDiscon
<1>6. CASE wifiScanDoneCb
  <2>1. scan \in ScanRec
    BY DEF HttpInv, StateOK
  <2>2. scan' \in ScanRec
    <3>1. [scan EXCEPT !.inProgress = FALSE] \in ScanRec
      BY <2>1 DEF ScanRec
    <3>2. 1 - scan.result \in {0, 1}
      BY <2>1 DEF ScanRec
    <3>3. \A n \in ApCounts : [inProgress |-> FALSE, result |-> 1 - scan.result, n |-> n] \in ScanRec
      BY <3>2 DEF ScanRec
    <3> QED
      BY <1>6, <3>1, <3>3 DEF wifiScanDoneCb
  <2>3. UNCHANGED <<conn, slot, login, open, est, unsent, req, left, out, stray>>
    BY <1>6 DEF wifiScanDoneCb, network, history
  <2> QED
    BY <2>2, <2>3, HttpUnchanged
<1>7. CASE UNCHANGED vars
  <2>1. scan' \in ScanRec /\ UNCHANGED <<conn, slot, login, open, est, unsent, req, left, out, stray>>
    BY <1>7 DEF vars, network, history, HttpInv, StateOK
  <2> QED
    BY <2>1, HttpUnchanged
<1> QED
  BY <1>1, <1>2, <1>3, <1>4, <1>5, <1>6, <1>7 DEF Next

-----------------------------------------------------------------------------
(* The theorems *)

\* The two properties of single states follow from the invariant.
LEMMA InvConsistent == HttpInv => (FilesFit => SlotsConsistent) /\ AnswerNeverStalls
<1> SUFFICES ASSUME HttpInv PROVE (FilesFit => SlotsConsistent) /\ AnswerNeverStalls
  OBVIOUS
<1>1. ASSUME FilesFit PROVE TypeOK
  <2>1. open \in 0 .. MaxConn
    <3>1. open = Cardinality(Held)
      BY <1>1, HeldFiles DEF HttpInv
    <3>2. Held \in SUBSET Slots
      BY DEF Held
    <3> QED
      BY <3>1, <3>2, SlotsFinite
  <2>2. ASSUME NEW i \in Slots
        PROVE  /\ slot[i].headPos \in 0 .. MaxHead
               /\ slot[i].buffLen \in 0 .. MaxPost
               /\ slot[i].len \in {InHead, 0} \/ slot[i].received \in 0 .. slot[i].len
               /\ slot[i].cgi \in {"NULL", "cgiWiFiScan", "cgiEspFsHook"}
    <3> DEFINE s == slot[i]
    <3>1. s \in SlotRec /\ Bounded(s) /\ SlotShape(s)
      BY DEF HttpInv, SlotsOK, StateOK
    <3>2. MaxPost \in Nat
      BY LengthsAssumption
    <3> HIDE DEF s
    <3>3. s.headPos \in 0 .. MaxHead /\ s.buffLen \in Nat
      BY <3>1 DEF SlotRec
    <3>4. s.buffLen \in 0 .. MaxPost
      BY <3>1, <3>2, <3>3 DEF Bounded
    <3>5. s.len \in {InHead, 0} \/ s.received \in 0 .. s.len
      BY <3>1 DEF Bounded
    <3>6. s.cgi \in {"NULL", "cgiWiFiScan", "cgiEspFsHook"}
      BY <3>1 DEF SlotShape
    <3> QED
      BY <3>3, <3>4, <3>5, <3>6 DEF s
  <2> QED
    BY <2>1, <2>2 DEF TypeOK, HttpInv, PoolInv, StateOK, ScanRec, ConnTypes
<1>2. FilesFit => SlotsConsistent
  BY <1>1 DEF SlotsConsistent, AbortIsSeen, HttpInv, StateOK
<1>3. AnswerNeverStalls
  <2> SUFFICES ASSUME NEW c \in Conns, est[c] = "up", left[c] = 0, Closes(req[c]) PROVE unsent[c] > 0
    BY DEF AnswerNeverStalls
  <2>1. PICK i : i \in FindConnData(c)
    BY FindsFirst DEF HttpInv, PoolInv, Kept
  <2>2. AnswerOK(i, c)
    BY <2>1 DEF HttpInv, AllServed, Fits
  <2> QED
    BY <2>2 DEF AnswerOK
<1> QED
  BY <1>2, <1>3

\* For all numbers of clients, slots, files and requests: whatever state a connection
\* is lost in, its slot is cleaned up, no file stays open that nobody is being sent,
\* and no handler but the listing writes to a connection that is gone.
THEOREM SlotsAlwaysConsistent == FilesFit => (Spec => []SlotsConsistent)
<1> SUFFICES ASSUME FilesFit PROVE Spec => []SlotsConsistent
  OBVIOUS
<1>1. Init => HttpInv
  BY HttpInit
<1>2. HttpInv /\ [Next]_vars => HttpInv'
  BY HttpNext
<1>3. HttpInv => SlotsConsistent
  BY InvConsistent
<1> QED
  BY <1>1, <1>2, <1>3, PTL DEF Spec

\* For all numbers of clients, slots, files and requests: from the last unit of a
\* request until the server closes the connection, a sent callback is to come in
\* which it can act, but for the two exceptions Closes names.
THEOREM NeverStalls == Spec => []AnswerNeverStalls
<1>1. Init => HttpInv
  BY HttpInit
<1>2. HttpInv /\ [Next]_vars => HttpInv'
  BY HttpNext
<1>3. HttpInv => AnswerNeverStalls
  BY InvConsistent
<1> QED
  BY <1>1, <1>2, <1>3, PTL DEF Spec

\* Only a receive callback for a request with the valid login changes the login.
LEMMA LoginStep ==
  ASSUME HttpInv, [Next]_vars, login' # login
  PROVE  \E c \in Conns : req[c] # NoRequest /\ req[c].auth = login
<1>1. \A c \in Conns : (httpdConnectCb(c) \/ ClientCloses(c) \/ httpdReconCb(c)) => login' = login
  BY DEF httpdConnectCb, ClientCloses, httpdReconCb
<1>2. wifiScanDoneCb \/ UNCHANGED vars => login' = login
  BY DEF wifiScanDoneCb, vars
<1>3. ASSUME NEW c \in Conns, httpdDisconCb(c) PROVE login' = login
  <2>1. PICK seen : Shared(Flush(LooksClosed(seen)), LooksClosed(seen))
    BY <1>3 DEF httpdDisconCb
  <2>2. LooksClosed(seen) \in SUBSET Slots
    BY DEF LooksClosed
  <2> QED
    BY <2>1, <2>2, FlushGives, SharedFacts DEF HttpInv
<1>4. ASSUME NEW c \in Conns, httpdSentCb(c) PROVE login' = login
  <2>1. PICK i \in FindConnData(c) : SentMore(c, i) \/ SentLast(c, i)
    BY <1>4 DEF httpdSentCb
  <2>2. c \in Alive /\ unsent[c] > 0
    BY <1>4 DEF httpdSentCb
  <2>3. CASE SentLast(c, i)
    BY <2>3 DEF SentLast
  <2>4. CASE SentMore(c, i)
    <3>1. PICK w : SentOn(c, i, w)
      BY <2>2, <2>4, SentMoreGives
    <3>2. i \in Slots /\ Continued(Context(i), req[c], w) /\ Shared(w, {i})
      BY <3>1 DEF SentOn
    <3>3. Ready(Context(i)) /\ Context(i).s = slot[i] /\ Context(i).login = login
      BY <3>2, ContextFacts DEF HttpInv
    <3>4. HandlerOK(Context(i).s, req[c])
      BY <2>1, <2>2, <3>3 DEF HttpInv, AllServed, Fits, Alive, Kept, ServesOK
    <3> DEFINE w0 == Context(i)
    <3>5. Ready(w0) /\ HandlerOK(w0.s, req[c]) /\ Continued(w0, req[c], w) /\ w0.login = login
      BY <3>2, <3>3, <3>4
    <3> HIDE DEF w0
    <3>6. w.login = w0.login
      BY <3>5, ContinuedFacts
    <3>7. login' = w.login
      BY <3>2, SharedFacts
    <3> QED
      BY <3>5, <3>6, <3>7
  <2> QED
    BY <2>1, <2>3, <2>4
<1>5. ASSUME NEW c \in Conns, httpdRecvCb(c) PROVE req[c] # NoRequest /\ req[c].auth = login
  <2>1. PICK i, len, w : Received(c, i, len, w)
    BY <1>5, ReceiveGives
  <2>2. /\ i \in FindConnData(c) /\ i \in Slots /\ c \in Alive /\ Shared(w, {i})
        /\ Progress(Context(i), req[c], w)
    BY <2>1, FindsFirst DEF Received, Feeding
  <2>3. req[c] # NoRequest
    BY <2>2, RequestsAssumption DEF HttpInv, AllServed, Fits, Alive, Kept, ServesOK
  <2>4. Context(i).login = login
    BY <2>2, ContextFacts DEF HttpInv
  <2> QED
    BY <2>2, <2>3, <2>4, SharedFacts DEF Progress
<1> QED
  BY <1>1, <1>2, <1>3, <1>4, <1>5 DEF Next

\* The first thing a client below /admin gets is a refusal exactly if its login is wrong.
LEMMA FirstAnswerStep ==
  ASSUME HttpInv, [Next]_vars, NEW c \in Conns, est[c] = "up", out[c] = <<>>,
         out'[c] # <<>>, req[c].url \in AdminUrls
  PROVE  Head(out'[c]) = <<"status", 401>> <=> req[c].auth # login
<1>1. \A d \in Conns : ~httpdConnectCb(d) /\ ~httpdDisconCb(d)
  BY DEF httpdConnectCb, httpdDisconCb, history
<1>2. ~wifiScanDoneCb /\ ~UNCHANGED vars
  BY DEF wifiScanDoneCb, vars, history
<1>3. \A E \in SUBSET Conns : ~Ended(E)
  BY DEF Ended
<1>4. \A d \in Conns : ~ClientCloses(d) /\ ~httpdReconCb(d)
  <2> SUFFICES ASSUME NEW d \in Conns, ClientCloses(d) \/ httpdReconCb(d) PROVE FALSE
    OBVIOUS
  <2>1. out'[d] = <<>> /\ (d # c => out'[c] = out[c])
    BY LossGives
  <2> QED
    BY <2>1
<1>5. ASSUME NEW d \in Conns, httpdSentCb(d) PROVE FALSE
  <2>1. PICK i \in FindConnData(d) : SentMore(d, i) \/ SentLast(d, i)
    BY <1>5 DEF httpdSentCb
  <2>2. d \in Alive /\ unsent[d] > 0
    BY <1>5 DEF httpdSentCb
  <2>3. ~SentLast(d, i)
    <3> SUFFICES ASSUME Ended({d}) PROVE FALSE
      BY DEF SentLast
    <3> QED
      BY <1>3
  <2>4. PICK w : SentOn(d, i, w)
    BY <2>1, <2>2, <2>3, SentMoreGives
  <2>5. /\ i \in FindConnData(d) /\ slot[i].cgi # "NULL" /\ out' = [out EXCEPT ![d] = @ \o w.sent]
    BY <2>4 DEF SentOn
  <2>6. d = c
    BY <2>5 DEF HttpInv, ConnTypes
  <2>7. AnswerOK(i, c)
    BY <2>5, <2>6 DEF HttpInv, AllServed, Fits
  <2> QED
    BY <2>5, <2>7 DEF AnswerOK
<1>6. ASSUME NEW d \in Conns, httpdRecvCb(d) PROVE Head(out'[c]) = <<"status", 401>> <=> req[c].auth # login
  <2>1. PICK i, len, w : Received(d, i, len, w)
    BY <1>6, ReceiveGives
  <2>2. /\ i \in Slots /\ out' = [out EXCEPT ![d] = @ \o w.sent]
        /\ Progress(Context(i), req[d], w)
    BY <2>1, FindsFirst DEF Received, Feeding
  <2>3. d = c
    BY <2>2 DEF HttpInv, ConnTypes
  <2>4. w.sent \in Seq(Item) /\ Context(i).login = login
    BY <2>2, ContextFacts DEF HttpInv, Progress, Ready, Ctx
  <2>5. out'[c] = w.sent
    <3>1. out'[c] = out[c] \o w.sent /\ out[c] \in Seq(Item)
      BY <2>2, <2>3 DEF HttpInv, ConnTypes
    <3> QED
      BY <2>4, <3>1
  <2> QED
    BY <2>2, <2>3, <2>4, <2>5 DEF Progress
<1> QED
  BY <1>1, <1>2, <1>4, <1>5, <1>6 DEF Next

\* For all numbers of clients, slots, files and requests: whose URL begins with /admin
\* is refused without the login that is valid when the request is processed, and is not
\* with it, and no request without it changes the login.
THEOREM AdminAlwaysByLogin == Spec => AdminOnlyByLogin
<1> DEFINE A == /\ login' # login => \E c \in Conns : req[c] # NoRequest /\ req[c].auth = login
                /\ \A c \in Conns :
                     est[c] = "up" /\ out[c] = <<>> /\ out'[c] # <<>> /\ req[c].url \in AdminUrls =>
                       (Head(out'[c]) = <<"status", 401>> <=> req[c].auth # login)
<1>1. Init => HttpInv
  BY HttpInit
<1>2. HttpInv /\ [Next]_vars => HttpInv'
  BY HttpNext
<1>3. HttpInv /\ [Next]_vars => [A]_vars
  BY LoginStep, FirstAnswerStep
<1> QED
  BY <1>1, <1>2, <1>3, PTL DEF Spec, AdminOnlyByLogin

-----------------------------------------------------------------------------
(* What was told is the beginning of an answer *)

\* A file as far as its first p pieces.
LEMMA FilePrefix ==
  ASSUME NEW url \in DOMAIN Files, NEW o \in Seq(Item), NEW p \in Nat, Len(o) = p + 1,
         o[1] = <<"status", 200>>, p <= (Files[url] + PieceLen - 1) \div PieceLen,
         \A i \in 1 .. p : o[i + 1] = <<"piece", Least({i * PieceLen, Files[url]})>>
  PROVE  IsPrefix(o, FileAnswer(url))
<1> DEFINE F == Files[url]
           n == (F + PieceLen - 1) \div PieceLen
           g == [k \in 1 .. n |-> <<"piece", Least({k * PieceLen, F})>>]
           x == <<"status", 200>>
           b == <<x>> \o g
<1>1. F \in Nat /\ PieceLen \in Nat \ {0}
  BY LengthsAssumption
<1>2. n \in Nat
  BY <1>1, PieceCount
<1>3. x \in Item
  BY Items DEF Codes
<1>4. p <= n /\ \A i \in 1 .. p : o[i + 1] = <<"piece", Least({i * PieceLen, F})>>
  OBVIOUS
<1> HIDE DEF n
<1>5. ASSUME NEW k \in 1 .. n PROVE <<"piece", Least({k * PieceLen, F})>> \in Item
  <2> DEFINE q == k * PieceLen
  <2>1. q \in Nat /\ q \in Int /\ F \in Int
    BY <1>1, <1>2
  <2> HIDE DEF q
  <2>2. Least({q, F}) \in Nat
    BY <1>1, <2>1, LeastOfTwo
  <2> QED
    BY <2>2, Items DEF q
<1>6. g \in Seq(Item) /\ Len(g) = n
  <2>1. g \in [1 .. n -> Item]
    BY <1>5
  <2> QED
    BY <1>2, <2>1
<1>7. \A k \in 1 .. n : g[k] = <<"piece", Least({k * PieceLen, F})>>
  OBVIOUS
<1> HIDE DEF g, F
<1>8. <<x>> \in Seq(Item) /\ Len(<<x>>) = 1 /\ <<x>>[1] = x
  <2> HIDE DEF x
  <2> QED
    BY <1>3
<1> HIDE DEF x
<1>9. b \in Seq(Item) /\ Len(b) = n + 1 /\ \A i \in 1 .. n + 1 : b[i] = IF i <= 1 THEN <<x>>[i] ELSE g[i - 1]
  <2> DEFINE h == <<x>>
  <2>1. h \in Seq(Item) /\ Len(h) = 1
    BY <1>8
  <2> HIDE DEF h
  <2>2. h \o g \in Seq(Item) /\ Len(h \o g) = n + 1
        /\ \A i \in 1 .. n + 1 : (h \o g)[i] = IF i <= 1 THEN h[i] ELSE g[i - 1]
    <3>1. /\ h \o g \in Seq(Item) /\ Len(h \o g) = Len(h) + Len(g)
          /\ \A i \in 1 .. Len(h) + Len(g) : (h \o g)[i] = IF i <= Len(h) THEN h[i] ELSE g[i - Len(h)]
      BY <1>6, <2>1, ConcatProperties, ZenonT(40)
    <3>2. Len(h) + Len(g) = n + 1
      BY <1>2, <1>6, <2>1
    <3> QED
      BY <2>1, <3>1, <3>2
  <2> QED
    BY <2>2 DEF h
<1> HIDE DEF b
<1>10. ASSUME NEW i \in 1 .. p + 1 PROVE o[i] = b[i]
  <2>1. i \in 1 .. n + 1
    BY <1>2, <1>4
  <2>2. CASE i = 1
    <3>1. b[1] = <<x>>[1] /\ o[1] = x
      BY <1>9, <2>1, <2>2 DEF x
    <3> QED
      BY <1>8, <2>2, <3>1
  <2>3. CASE i # 1
    <3>1. i - 1 \in 1 .. p /\ i - 1 \in 1 .. n /\ i - 1 + 1 = i
      BY <1>2, <1>4, <2>3
    <3>2. o[i] = <<"piece", Least({(i - 1) * PieceLen, F})>>
      BY <1>4, <3>1
    <3>3. b[i] = g[i - 1]
      BY <1>9, <2>1, <3>1
    <3> QED
      BY <1>7, <3>1, <3>2, <3>3
  <2> QED
    BY <2>2, <2>3
<1>11. IsPrefix(o, b)
  <2>1. Len(o) <= Len(b) /\ \A i \in 1 .. Len(o) : o[i] = b[i]
    BY <1>2, <1>4, <1>9, <1>10
  <2> QED
    BY <1>9, <2>1, PrefixBy
<1>12. FileAnswer(url) = b
  BY DEF FileAnswer, b, g, n, F, x
<1> QED
  BY <1>11, <1>12

\* The answers that a file and a listing are the beginning of.
LEMMA LongAnswers ==
  ASSUME NEW r, r.url \in Urls, Understood(r)
  PROVE  /\ FileName(r.url) \in DOMAIN Files => FileAnswer(FileName(r.url)) \in Answers(r)
         /\ r.url = "/admin/wifiscan.cgi" => Listings \subseteq Answers(r)
<1>1. FileName(r.url) \in DOMAIN Files =>
        r.url \in {"/index.html", "/admin/index.html", "//admin/index.html"}
  BY FilesAssumption DEF FileName, Urls, AdminUrls
<1>2. FileName(r.url) \in DOMAIN Files => Contents(r) = {FileAnswer(FileName(r.url))}
  BY <1>1 DEF Contents
<1>3. r.url = "/admin/wifiscan.cgi" => Contents(r) = Listings \cup {<<<<"status", 200>>, <<"busy">>>>}
  BY FormsAreNoFiles DEF Contents
<1> QED
  BY <1>2, <1>3 DEF Answers

\* The elements of the listing of n access points.
ListingItem(result, n, i) ==
  IF i = 1 THEN <<"status", 200>>
  ELSE IF i = 2 THEN <<"begin">>
  ELSE IF i <= n + 2 THEN <<"ap", result, i - 2>>
  ELSE <<"end", result, n>>

\* A listing as far as its elements go.
LEMMA ListingPrefix ==
  ASSUME NEW result \in {0, 1}, NEW n \in ApCounts \cup {0}, NEW o \in Seq(Item), Len(o) <= n + 3,
         \A i \in 1 .. Len(o) : o[i] = ListingItem(result, n, i)
  PROVE  \E a \in Listings : IsPrefix(o, a)
<1> DEFINE x == <<"status", 200>>
           y == <<"begin">>
           e == <<"end", result, n>>
           g == [i \in 1 .. n |-> <<"ap", result, i>>]
           b == <<x, y>> \o g
           a == b \o <<e>>
<1>1. n \in Nat
  BY CountsAreNat
<1>2. x \in Item /\ y \in Item /\ e \in Item /\ \A i \in 1 .. n : <<"ap", result, i>> \in Item
  <2>1. 200 \in Codes /\ "begin" \in Words /\ \A i \in 1 .. n : i \in Nat
    BY <1>1 DEF Codes, Words
  <2>2. x \in Item /\ y \in Item
    BY <2>1, Items, ZenonT(40)
  <2>3. e \in Item
    BY <1>1, Items, Zenon
  <2>4. \A i \in 1 .. n : <<"ap", result, i>> \in Item
    BY <2>1, Items, Zenon
  <2> QED
    BY <2>2, <2>3, <2>4
<1>3. g \in Seq(Item) /\ Len(g) = n /\ \A i \in 1 .. n : g[i] = <<"ap", result, i>>
  <2>1. g \in [1 .. n -> Item]
    BY <1>2
  <2> QED
    BY <1>1, <2>1
<1>4. a \in Listings
  <2> DEFINE L(s, k) == <<<<"status", 200>>, <<"begin">>>> \o [i \in 1 .. k |-> <<"ap", s, i>>] \o <<<<"end", s, k>>>>
  <2>1. a = L(result, n)
    OBVIOUS
  <2>2. Listings = {L(s, k) : s \in {0, 1}, k \in ApCounts \cup {0}}
    BY DEF Listings
  <2> HIDE DEF a, L
  <2> QED
    BY <2>1, <2>2
<1>5. \A i : ListingItem(result, n, i) =
        IF i = 1 THEN x ELSE IF i = 2 THEN y ELSE IF i <= n + 2 THEN <<"ap", result, i - 2>> ELSE e
  BY DEF ListingItem
<1> HIDE DEF x, y, e, g
<1>6. /\ <<x, y>> \in Seq(Item) /\ Len(<<x, y>>) = 2 /\ <<x, y>>[1] = x /\ <<x, y>>[2] = y
      /\ <<e>> \in Seq(Item) /\ Len(<<e>>) = 1 /\ <<e>>[1] = e
  BY <1>2
<1>7. b \in Seq(Item) /\ Len(b) = n + 2 /\ \A i \in 1 .. n + 2 : b[i] = IF i <= 2 THEN <<x, y>>[i] ELSE g[i - 2]
  <2> DEFINE h == <<x, y>>
  <2>1. h \in Seq(Item) /\ Len(h) = 2
    BY <1>6
  <2> HIDE DEF h
  <2>2. h \o g \in Seq(Item) /\ Len(h \o g) = n + 2
        /\ \A i \in 1 .. n + 2 : (h \o g)[i] = IF i <= 2 THEN h[i] ELSE g[i - 2]
    <3>1. /\ h \o g \in Seq(Item) /\ Len(h \o g) = Len(h) + Len(g)
          /\ \A i \in 1 .. Len(h) + Len(g) : (h \o g)[i] = IF i <= Len(h) THEN h[i] ELSE g[i - Len(h)]
      BY <1>3, <2>1, ConcatProperties
    <3>2. Len(h) + Len(g) = n + 2
      BY <1>1, <1>3, <2>1
    <3> QED
      BY <2>1, <3>1, <3>2
  <2> QED
    BY <2>2 DEF h
<1> HIDE DEF b
<1>8. a \in Seq(Item) /\ Len(a) = n + 3 /\ \A i \in 1 .. n + 3 : a[i] = IF i <= n + 2 THEN b[i] ELSE <<e>>[i - (n + 2)]
  <2> DEFINE h == <<e>>
  <2>1. h \in Seq(Item) /\ Len(h) = 1
    BY <1>6
  <2> HIDE DEF h
  <2>2. b \o h \in Seq(Item) /\ Len(b \o h) = n + 3
        /\ \A i \in 1 .. n + 3 : (b \o h)[i] = IF i <= n + 2 THEN b[i] ELSE h[i - (n + 2)]
    <3>1. /\ b \o h \in Seq(Item) /\ Len(b \o h) = Len(b) + Len(h)
          /\ \A i \in 1 .. Len(b) + Len(h) : (b \o h)[i] = IF i <= Len(b) THEN b[i] ELSE h[i - Len(b)]
      BY <1>7, <2>1, ConcatProperties
    <3>2. Len(b) + Len(h) = n + 3
      BY <1>1, <1>7, <2>1
    <3> QED
      BY <1>7, <2>1, <3>1, <3>2
  <2> QED
    BY <2>2 DEF h
<1> HIDE DEF a
<1>9. ASSUME NEW i \in 1 .. n + 3 PROVE a[i] = ListingItem(result, n, i)
  <2>1. CASE i = 1
    <3>1. a[i] = b[i] /\ b[i] = <<x, y>>[1]
      BY <1>1, <1>7, <1>8, <2>1
    <3> QED
      BY <1>5, <1>6, <2>1, <3>1
  <2>2. CASE i = 2
    <3>1. a[i] = b[i] /\ b[i] = <<x, y>>[2]
      BY <1>1, <1>7, <1>8, <2>2
    <3> QED
      BY <1>5, <1>6, <2>2, <3>1
  <2>3. CASE i > 2 /\ i <= n + 2
    <3>1. a[i] = b[i] /\ b[i] = g[i - 2] /\ i - 2 \in 1 .. n /\ i # 1 /\ i # 2
      BY <1>1, <1>7, <1>8, <2>3
    <3> QED
      BY <1>3, <1>5, <2>3, <3>1
  <2>4. CASE i > n + 2
    <3>1. i = n + 3 /\ i - (n + 2) = 1 /\ i # 1 /\ i # 2 /\ ~(i <= n + 2)
      BY <1>1, <2>4
    <3>2. a[i] = <<e>>[1]
      BY <1>8, <3>1
    <3> QED
      BY <1>5, <1>6, <3>1, <3>2
  <2> QED
    BY <1>1, <2>1, <2>2, <2>3, <2>4
<1>10. IsPrefix(o, a)
  <2>1. Len(o) <= Len(a) /\ \A i \in 1 .. Len(o) : o[i] = a[i]
    BY <1>1, <1>8, <1>9
  <2> QED
    BY <1>8, <2>1, PrefixBy
<1> QED
  BY <1>4, <1>10

\* A packet of one item.
LEMMA ItemAdded ==
  ASSUME NEW o \in Seq(Item), NEW x \in Item
  PROVE  /\ o \o <<x>> \in Seq(Item) /\ Len(o \o <<x>>) = Len(o) + 1
         /\ \A i \in 1 .. Len(o) : (o \o <<x>>)[i] = o[i]
         /\ (o \o <<x>>)[Len(o) + 1] = x
<1> DEFINE h == <<x>>
           oh == o \o h
<1>1. h \in Seq(Item) /\ Len(h) = 1 /\ h[1] = x
  OBVIOUS
<1> HIDE DEF h
<1>2. /\ oh \in Seq(Item) /\ Len(oh) = Len(o) + Len(h)
      /\ \A i \in 1 .. Len(o) + Len(h) : oh[i] = IF i <= Len(o) THEN o[i] ELSE h[i - Len(o)]
  BY <1>1, ConcatProperties
<1>3. Len(o) \in Nat /\ Len(o) + 1 - Len(o) = 1
  BY LenProperties
<1> HIDE DEF oh
<1>4. /\ oh \in Seq(Item) /\ Len(oh) = Len(o) + 1
      /\ \A i \in 1 .. Len(o) : oh[i] = o[i]
      /\ oh[Len(o) + 1] = x
  BY <1>1, <1>2, <1>3
<1> QED
  BY <1>4 DEF oh, h

\* A file goes on with the next piece.
LEMMA FileMore ==
  ASSUME NEW s, NEW t, NEW o \in Seq(Item), FileTold(s, o), t.cgiData = s.cgiData + PieceLen
  PROVE  FileTold(t, o \o <<<<"piece", s.cgiData - 1 + PieceLen>>>>)
<1>1. PICK m \in Nat :
        /\ s.cgiData = m * PieceLen + 1
        /\ Len(o) = m + 1 /\ o[1] = <<"status", 200>>
        /\ \A i \in 1 .. m : o[i + 1] = <<"piece", i * PieceLen>>
  BY DEF FileTold
<1> DEFINE p == m * PieceLen
           q == (m + 1) * PieceLen
           x == <<"piece", s.cgiData - 1 + PieceLen>>
           oo == o \o <<x>>
<1>2. PieceLen \in Nat /\ p \in Nat /\ q \in Nat /\ q = p + PieceLen
  BY LengthsAssumption
<1>3. s.cgiData = p + 1
  BY <1>1
<1> HIDE DEF p, q
<1>4. s.cgiData - 1 + PieceLen = q /\ t.cgiData = q + 1
  BY <1>2, <1>3
<1>5. x = <<"piece", q>> /\ x \in Item
  BY <1>2, <1>4, Items
<1> HIDE DEF x
<1>6. oo \in Seq(Item) /\ Len(oo) = m + 2 /\ (\A i \in 1 .. m + 1 : oo[i] = o[i]) /\ oo[m + 2] = x
  BY <1>1, <1>5, ItemAdded
<1> HIDE DEF oo
<1>7. oo[1] = <<"status", 200>>
  BY <1>1, <1>6
<1>8. ASSUME NEW i \in 1 .. m + 1 PROVE oo[i + 1] = <<"piece", i * PieceLen>>
  <2>1. CASE i = m + 1
    <3>1. oo[m + 2] = x /\ i + 1 = m + 2
      BY <1>6, <2>1
    <3> QED
      BY <1>5, <2>1, <3>1 DEF q
  <2>2. CASE i # m + 1
    <3>1. i \in 1 .. m /\ i + 1 \in 1 .. m + 1
      BY <2>2
    <3> QED
      BY <1>1, <1>6, <3>1
  <2> QED
    BY <2>1, <2>2
<1>9. FileTold(t, oo)
  <2>1. m + 1 \in Nat /\ t.cgiData = (m + 1) * PieceLen + 1 /\ Len(oo) = (m + 1) + 1
    BY <1>4, <1>6 DEF q
  <2> QED
    BY <1>7, <1>8, <2>1 DEF FileTold
<1> QED
  BY <1>9 DEF oo, x

\* What is sent of a file is the beginning of it, also when it ends.
LEMMA FileSoFar ==
  ASSUME NEW url \in DOMAIN Files, NEW s, NEW o \in Seq(Item), FileTold(s, o), s.cgiData - 1 <= Files[url]
  PROVE  /\ IsPrefix(o, FileAnswer(url))
         /\ s.cgiData - 1 < Files[url] /\ Files[url] < s.cgiData - 1 + PieceLen =>
              IsPrefix(o \o <<<<"piece", Files[url]>>>>, FileAnswer(url))
<1>1. PICK m \in Nat :
        /\ s.cgiData = m * PieceLen + 1
        /\ Len(o) = m + 1 /\ o[1] = <<"status", 200>>
        /\ \A i \in 1 .. m : o[i + 1] = <<"piece", i * PieceLen>>
  BY DEF FileTold
<1> DEFINE F == Files[url]
           p == m * PieceLen
           q == (m + 1) * PieceLen
           n == F + PieceLen - 1
<1>2. /\ PieceLen \in Nat \ {0} /\ p \in Nat /\ q \in Nat /\ q = p + PieceLen /\ F \in Nat /\ n \in Nat
  BY LengthsAssumption
<1>3. s.cgiData = p + 1
  BY <1>1
<1> HIDE DEF p, q, F
<1>4. p <= F
  BY <1>2, <1>3 DEF F
<1>5. ASSUME NEW i \in 1 .. m PROVE Least({i * PieceLen, F}) = i * PieceLen
  <2> DEFINE d == i * PieceLen
             e == (m - i) * PieceLen
  <2>1. d \in Int /\ e \in Nat /\ d + e = p
    BY <1>2 DEF p
  <2> HIDE DEF d, e
  <2>2. d <= F
    BY <1>2, <1>4, <2>1
  <2>3. Least({d, F}) = d
    BY <1>2, <2>1, <2>2, LeastOfTwo
  <2> QED
    BY <2>3 DEF d
<1>6. p <= n
  BY <1>2, <1>4
<1> HIDE DEF n
<1>7. m <= n \div PieceLen
  BY <1>2, <1>6, DivBound DEF p
<1>8. IsPrefix(o, FileAnswer(url))
  BY <1>1, <1>5, <1>7, FilePrefix DEF n, F
<1>9. ASSUME s.cgiData - 1 < Files[url], Files[url] < s.cgiData - 1 + PieceLen
      PROVE  IsPrefix(o \o <<<<"piece", Files[url]>>>>, FileAnswer(url))
  <2> DEFINE x == <<"piece", F>>
             oo == o \o <<x>>
  <2>1. p < F /\ F < q
    BY <1>2, <1>3, <1>9 DEF F
  <2>2. q <= n
    BY <1>2, <2>1 DEF n
  <2>3. m + 1 <= n \div PieceLen
    BY <1>2, <2>2, DivBound DEF q
  <2>4. Least({q, F}) = F
    BY <1>2, <2>1, LeastOfTwo
  <2>5. x \in Item
    BY <1>2, Items
  <2>6. oo \in Seq(Item) /\ Len(oo) = m + 2 /\ (\A i \in 1 .. m + 1 : oo[i] = o[i]) /\ oo[m + 2] = x
    <3> HIDE DEF x
    <3> QED
      BY <1>1, <2>5, ItemAdded
  <2>7. ASSUME NEW i \in 1 .. m + 1 PROVE oo[i + 1] = <<"piece", Least({i * PieceLen, F})>>
    <3> HIDE DEF oo
    <3>1. CASE i = m + 1
      <4>1. i + 1 = m + 2 /\ i * PieceLen = q
        BY <3>1 DEF q
      <4> QED
        BY <2>4, <2>6, <4>1
    <3>2. CASE i # m + 1
      <4>1. i \in 1 .. m /\ i + 1 \in 1 .. m + 1
        BY <3>2
      <4>2. Least({i * PieceLen, F}) = i * PieceLen
        BY <1>5, <4>1
      <4>3. oo[i + 1] = o[i + 1] /\ o[i + 1] = <<"piece", i * PieceLen>>
        BY <1>1, <2>6, <4>1
      <4> QED
        BY <4>2, <4>3
    <3> QED
      BY <3>1, <3>2
  <2>8. oo[1] = <<"status", 200>>
    <3> HIDE DEF oo
    <3> QED
      BY <1>1, <2>6
  <2> HIDE DEF oo, x
  <2>9. IsPrefix(oo, FileAnswer(url))
    <3>1. m + 1 \in Nat /\ Len(oo) = (m + 1) + 1 /\ m + 1 <= (Files[url] + PieceLen - 1) \div PieceLen
      BY <2>3, <2>6 DEF n, F
    <3>2. \A i \in 1 .. m + 1 : oo[i + 1] = <<"piece", Least({i * PieceLen, Files[url]})>>
      BY <2>7 DEF F
    <3> QED
      BY <2>6, <2>8, <3>1, <3>2, FilePrefix
  <2> QED
    BY <2>9 DEF oo, x, F
<1> QED
  BY <1>8, <1>9

\* A listing goes on with the next entry.
LEMMA ListMore ==
  ASSUME NEW s \in SlotRec, NEW t, NEW sc \in ScanRec, NEW o \in Seq(Item), ListTold(s, sc, o),
         s.cgiData >= 1, s.cgiData < sc.n, t.cgiData = s.cgiData + 1
  PROVE  ListTold(t, sc, o \o <<<<"ap", sc.result, s.cgiData>>>>)
<1> DEFINE p == s.cgiData
           x == <<"ap", sc.result, p>>
           oo == o \o <<x>>
<1>1. p \in Nat /\ sc.result \in {0, 1} /\ sc.n \in Nat
  BY CountsAreNat DEF SlotRec, ScanRec
<1>2. /\ ~sc.inProgress /\ Len(o) = p + 1 /\ o[1] = <<"status", 200>> /\ o[2] = <<"begin">>
      /\ \A i \in 1 .. p - 1 : o[i + 2] = <<"ap", sc.result, i>>
  BY DEF ListTold
<1>3. p >= 1 /\ p < sc.n /\ t.cgiData = p + 1
  OBVIOUS
<1>4. x \in Item
  BY <1>1, Items
<1> HIDE DEF p
<1>5. oo \in Seq(Item) /\ Len(oo) = p + 2 /\ (\A i \in 1 .. p + 1 : oo[i] = o[i]) /\ oo[p + 2] = x
  <2> HIDE DEF x
  <2> QED
    BY <1>1, <1>2, <1>4, ItemAdded
<1> HIDE DEF oo
<1>6. oo[1] = <<"status", 200>> /\ oo[2] = <<"begin">>
  BY <1>1, <1>2, <1>3, <1>5
<1>7. ASSUME NEW i \in 1 .. p PROVE oo[i + 2] = <<"ap", sc.result, i>>
  <2>1. CASE i = p
    BY <1>5, <2>1
  <2>2. CASE i # p
    <3>1. i \in 1 .. p - 1 /\ i + 2 \in 1 .. p + 1
      BY <1>1, <2>2
    <3> QED
      BY <1>2, <1>5, <3>1
  <2> QED
    BY <2>1, <2>2
<1>8. t.cgiData - 1 = p /\ Len(oo) = t.cgiData + 1
  BY <1>1, <1>3, <1>5
<1>9. ListTold(t, sc, oo)
  BY <1>2, <1>3, <1>6, <1>7, <1>8 DEF ListTold
<1> QED
  BY <1>9 DEF oo, x, p

\* The elements of a listing as far as it has come, with the next entry if there
\* is one, and its end.
LEMMA ListItems ==
  ASSUME NEW s \in SlotRec, NEW sc \in ScanRec, NEW o \in Seq(Item), ListTold(s, sc, o), s.cgiData >= 1
  PROVE  /\ Len(o) <= sc.n + 2
         /\ \A i \in 1 .. Len(o) : o[i] = ListingItem(sc.result, sc.n, i)
<1> DEFINE p == s.cgiData
           n == sc.n
<1>1. p \in Nat /\ n \in Nat
  BY CountsAreNat DEF SlotRec, ScanRec
<1>2. /\ Len(o) = p + 1 /\ o[1] = <<"status", 200>> /\ o[2] = <<"begin">>
      /\ \A i \in 1 .. p - 1 : o[i + 2] = <<"ap", sc.result, i>>
      /\ p = 1 \/ p - 1 < n
      /\ p >= 1
  BY DEF ListTold
<1> HIDE DEF p, n
<1>3. ASSUME NEW i \in 1 .. p + 1 PROVE o[i] = ListingItem(sc.result, n, i)
  <2>1. CASE i = 1
    BY <1>2, <2>1 DEF ListingItem
  <2>2. CASE i = 2
    BY <1>2, <2>2 DEF ListingItem
  <2>3. CASE i > 2
    <3>1. i - 2 \in 1 .. p - 1 /\ (i - 2) + 2 = i /\ i # 1 /\ i # 2 /\ i <= n + 2
      BY <1>1, <1>2, <2>3
    <3>2. o[i] = <<"ap", sc.result, i - 2>>
      BY <1>2, <3>1
    <3> QED
      BY <3>1, <3>2 DEF ListingItem
  <2> QED
    BY <1>1, <2>1, <2>2, <2>3
<1>4. Len(o) <= n + 2
  BY <1>1, <1>2
<1> QED
  BY <1>2, <1>3, <1>4 DEF n

\* One element more of a listing.
LEMMA ListItemAdded ==
  ASSUME NEW result \in {0, 1}, NEW n \in Nat, NEW o \in Seq(Item), NEW x \in Item,
         \A i \in 1 .. Len(o) : o[i] = ListingItem(result, n, i),
         x = ListingItem(result, n, Len(o) + 1)
  PROVE  /\ o \o <<x>> \in Seq(Item) /\ Len(o \o <<x>>) = Len(o) + 1
         /\ \A i \in 1 .. Len(o) + 1 : (o \o <<x>>)[i] = ListingItem(result, n, i)
<1> DEFINE oo == o \o <<x>>
<1>1. /\ oo \in Seq(Item) /\ Len(oo) = Len(o) + 1 /\ Len(o) \in Nat
      /\ (\A i \in 1 .. Len(o) : oo[i] = o[i]) /\ oo[Len(o) + 1] = x
  BY ItemAdded, LenProperties
<1> HIDE DEF oo
<1>2. ASSUME NEW i \in 1 .. Len(o) + 1 PROVE oo[i] = ListingItem(result, n, i)
  <2>1. CASE i = Len(o) + 1
    BY <1>1, <2>1
  <2>2. CASE i # Len(o) + 1
    <3>1. i \in 1 .. Len(o)
      BY <1>1, <2>2
    <3> QED
      BY <1>1, <3>1
  <2> QED
    BY <2>1, <2>2
<1> QED
  BY <1>1, <1>2 DEF oo

\* What is sent of a listing is the beginning of one.
LEMMA ListSoFar ==
  ASSUME NEW s \in SlotRec, NEW sc \in ScanRec, NEW o \in Seq(Item), ListTold(s, sc, o), s.cgiData >= 1
  PROVE  \E a \in Listings : IsPrefix(o, a)
<1>1. Len(o) \in Nat /\ sc.n \in Nat /\ sc.n \in ApCounts \cup {0} /\ sc.result \in {0, 1}
  BY CountsAreNat, LenProperties DEF ScanRec
<1>2. Len(o) <= sc.n + 3 /\ \A i \in 1 .. Len(o) : o[i] = ListingItem(sc.result, sc.n, i)
  BY <1>1, ListItems
<1> QED
  BY <1>1, <1>2, ListingPrefix

\* A listing ends with its last entry, if it has one, and how many it has.
LEMMA ListDone ==
  ASSUME NEW s \in SlotRec, NEW sc \in ScanRec, NEW o \in Seq(Item), ListTold(s, sc, o), s.cgiData >= 1,
         s.cgiData >= sc.n
  PROVE  \E a \in Listings :
           IsPrefix(o \o ((IF s.cgiData - 1 < sc.n THEN <<<<"ap", sc.result, s.cgiData>>>> ELSE <<>>)
                            \o <<<<"end", sc.result, sc.n>>>>), a)
<1> DEFINE p == s.cgiData
           n == sc.n
           k == sc.result
           x == <<"ap", k, p>>
           e == <<"end", k, n>>
           b == IF p - 1 < n THEN <<x>> ELSE <<>>
           u == o \o b
<1>1. p \in Nat /\ n \in Nat /\ n \in ApCounts \cup {0} /\ k \in {0, 1} /\ Len(o) \in Nat
  BY CountsAreNat, LenProperties DEF SlotRec, ScanRec
<1>2. /\ \A i \in 1 .. Len(o) : o[i] = ListingItem(k, n, i)
      /\ Len(o) = p + 1 /\ p >= 1 /\ p >= n /\ (p = 1 \/ p - 1 < n)
  BY ListItems DEF ListTold
<1>3. x \in Item /\ e \in Item
  BY <1>1, Items
<1>4. ListingItem(k, n, n + 3) = e /\ (p - 1 < n => ListingItem(k, n, p + 2) = x)
  <2> HIDE DEF p, n, k
  <2>1. n + 3 # 1 /\ n + 3 # 2 /\ ~(n + 3 <= n + 2)
    BY <1>1
  <2>2. ListingItem(k, n, n + 3) = <<"end", k, n>>
    BY <2>1 DEF ListingItem
  <2>3. ASSUME p - 1 < n PROVE ListingItem(k, n, p + 2) = <<"ap", k, p>>
    <3> DEFINE i == p + 2
    <3>1. i # 1 /\ i # 2 /\ i <= n + 2 /\ i - 2 = p
      BY <1>1, <1>2, <2>3
    <3> HIDE DEF i
    <3>2. ListingItem(k, n, i) = <<"ap", k, i - 2>>
      BY <3>1, Zenon DEF ListingItem
    <3> QED
      BY <3>1, <3>2, Zenon DEF i
  <2> QED
    BY <2>2, <2>3
<1> HIDE DEF x, e, p, n, k
<1>5. /\ u \in Seq(Item) /\ Len(u) = n + 2 /\ \A i \in 1 .. Len(u) : u[i] = ListingItem(k, n, i)
      /\ b \in Seq(Item)
  <2>1. CASE p - 1 < n
    <3>1. b = <<x>> /\ Len(o) + 1 = p + 2 /\ n + 2 = p + 2
      BY <1>1, <1>2, <2>1
    <3>2. /\ o \o <<x>> \in Seq(Item) /\ Len(o \o <<x>>) = Len(o) + 1
          /\ \A i \in 1 .. Len(o) + 1 : (o \o <<x>>)[i] = ListingItem(k, n, i)
      BY <1>1, <1>2, <1>3, <1>4, <2>1, <3>1, ListItemAdded
    <3>3. <<x>> \in Seq(Item)
      BY <1>3
    <3> HIDE DEF b
    <3> QED
      BY <3>1, <3>2, <3>3
  <2>2. CASE ~(p - 1 < n)
    <3>1. b = <<>> /\ p + 1 = n + 2
      BY <1>1, <1>2, <2>2
    <3>2. u = o
      BY <3>1
    <3> HIDE DEF u
    <3> QED
      BY <1>2, <3>1, <3>2
  <2> QED
    BY <2>1, <2>2
<1>6. o \o (b \o <<e>>) = u \o <<e>>
  <2>1. <<e>> \in Seq(Item) /\ b \in Seq(Item)
    BY <1>3, <1>5
  <2> DEFINE h == <<e>>
  <2> HIDE DEF b, h
  <2>2. o \o (b \o h) = (o \o b) \o h
    BY <2>1, ToldInTurn DEF h
  <2> QED
    BY <2>2 DEF h
<1> HIDE DEF u, b
<1> DEFINE v == u \o <<e>>
<1>7. v \in Seq(Item) /\ Len(v) = Len(u) + 1 /\ \A i \in 1 .. Len(u) + 1 : v[i] = ListingItem(k, n, i)
  <2>1. e = ListingItem(k, n, Len(u) + 1)
    <3>1. Len(u) + 1 = n + 3
      BY <1>1, <1>5
    <3> QED
      BY <1>4, <3>1
  <2> QED
    BY <1>1, <1>3, <1>5, <2>1, ListItemAdded
<1> HIDE DEF v
<1>8. \E a \in Listings : IsPrefix(v, a)
  <2>1. Len(v) <= n + 3 /\ \A i \in 1 .. Len(v) : v[i] = ListingItem(k, n, i)
    BY <1>1, <1>5, <1>7
  <2> QED
    BY <1>1, <1>7, <2>1, ListingPrefix
<1>9. \E a \in Listings : IsPrefix(o \o (b \o <<e>>), a)
  BY <1>6, <1>8 DEF v
<1> QED
  BY <1>9 DEF b, x, e, p, n, k

\* Which page an item belongs to, and which of its two items it is.
LEMMA HalfOf ==
  ASSUME NEW k \in Nat
  PROVE  /\ (k + 1) \div 2 \in Nat /\ k % 2 \in {0, 1}
         /\ k % 2 = 1 => k = 2 * ((k + 1) \div 2) - 1
         /\ k % 2 = 0 => k = 2 * ((k + 1) \div 2)
  OBVIOUS

\* The pages of a form so far are the beginning of an answer to it.
LEMMA FormSoFar ==
  ASSUME NEW r \in Requests, r.url = "/admin/form.cgi", Understood(r), NEW s, NEW k,
         NEW o \in Seq(Item), FormTold(r, s, k, o)
  PROVE  \E a \in Answers(r) : IsPrefix(o, a)
<1>1. PICK j \in 0 .. Pieces(r) :
        Len(o) = 2 * j /\ \A t \in 1 .. j : <<o[2 * t - 1], o[2 * t]>> \in FormPages
  BY DEF FormTold
<1> DEFINE P == Pieces(r)
           a == [t \in 1 .. P |-> IF t <= j THEN <<o[2 * t - 1], o[2 * t]>> ELSE Answer(200, "form")]
           f == [i \in 1 .. 2 * P |-> a[(i + 1) \div 2][2 - (i % 2)]]
<1>2. P \in Nat /\ j \in Nat /\ j <= P
  BY <1>1, PiecesType
<1> HIDE DEF P
<1>3. a \in [1 .. P -> FormPages]
  <2>1. \A t \in 1 .. P : (IF t <= j THEN <<o[2 * t - 1], o[2 * t]>> ELSE Answer(200, "form")) \in FormPages
    BY <1>1, <1>2 DEF FormPages
  <2> QED
    BY <2>1
<1>4. \A t \in 1 .. j : a[t] = <<o[2 * t - 1], o[2 * t]>>
  BY <1>2
<1> HIDE DEF a
<1>5. ASSUME NEW i \in 1 .. 2 * P
      PROVE  /\ (i + 1) \div 2 \in 1 .. P /\ i % 2 \in {0, 1}
             /\ i % 2 = 1 => i = 2 * ((i + 1) \div 2) - 1
             /\ i % 2 = 0 => i = 2 * ((i + 1) \div 2)
  <2>1. i \in Nat /\ i >= 1 /\ i <= 2 * P
    BY <1>2
  <2> DEFINE h == (i + 1) \div 2
  <2>2. /\ h \in Nat /\ i % 2 \in {0, 1}
        /\ i % 2 = 1 => i = 2 * h - 1
        /\ i % 2 = 0 => i = 2 * h
    BY <2>1, HalfOf
  <2> HIDE DEF h
  <2>3. h \in 1 .. P
    BY <1>2, <2>1, <2>2
  <2> QED
    BY <2>2, <2>3 DEF h
<1>6. ASSUME NEW i \in 1 .. 2 * P PROVE a[(i + 1) \div 2][2 - (i % 2)] \in Item
  <2> DEFINE h == (i + 1) \div 2
  <2>1. h \in 1 .. P /\ i % 2 \in {0, 1}
    BY <1>5
  <2> HIDE DEF h
  <2>2. a[h] \in FormPages
    BY <1>3, <2>1
  <2>3. a[h] \in Seq(Item) /\ Len(a[h]) = 2
    BY <2>2, FormPageFacts
  <2>4. 2 - (i % 2) \in 1 .. 2
    BY <2>1
  <2> QED
    BY <2>3, <2>4 DEF h
<1>7. f \in Seq(Item) /\ Len(f) = 2 * P /\ \A i \in 1 .. 2 * P : f[i] = a[(i + 1) \div 2][2 - (i % 2)]
  <2>1. f \in [1 .. 2 * P -> Item] /\ 2 * P \in Nat
    BY <1>2, <1>6
  <2>2. f \in Seq(Item) /\ Len(f) = 2 * P
    <3> HIDE DEF f
    <3> QED
      BY <2>1
  <2> QED
    BY <2>2
<1>8. f \in Answers(r)
  <2>1. f \in FormAnswers(r)
    BY <1>3, ZenonT(40) DEF FormAnswers, FormPages, f, P
  <2>2. Contents(r) = FormAnswers(r)
    BY FormsAreNoFiles DEF Contents
  <2> QED
    BY <2>1, <2>2 DEF Answers
<1> HIDE DEF f
<1>9. ASSUME NEW i \in 1 .. 2 * j PROVE o[i] = f[i]
  <2> DEFINE h == (i + 1) \div 2
             m == i % 2
  <2>1. i \in 1 .. 2 * P
    BY <1>2
  <2>2. /\ h \in 1 .. P /\ m \in {0, 1} /\ (m = 1 => i = 2 * h - 1) /\ (m = 0 => i = 2 * h)
        /\ f[i] = a[h][2 - m]
    BY <1>5, <1>7, <2>1
  <2> HIDE DEF h, m
  <2>3. h \in 1 .. j
    BY <1>2, <2>2
  <2>4. a[h] = <<o[2 * h - 1], o[2 * h]>>
    BY <1>4, <2>3
  <2>5. a[h][1] = o[2 * h - 1] /\ a[h][2] = o[2 * h]
    BY <2>4
  <2>6. CASE m = 1
    <3>1. 2 - m = 1
      BY <2>6
    <3> QED
      BY <2>2, <2>5, <2>6, <3>1
  <2>7. CASE m = 0
    <3>1. 2 - m = 2
      BY <2>7
    <3> QED
      BY <2>2, <2>5, <2>7, <3>1
  <2> QED
    BY <2>2, <2>6, <2>7
<1>10. IsPrefix(o, f)
  <2>1. Len(o) <= Len(f) /\ \A i \in 1 .. Len(o) : o[i] = f[i]
    BY <1>1, <1>2, <1>7, <1>9
  <2> QED
    BY <1>7, <2>1, PrefixBy
<1> QED
  BY <1>8, <1>10

\* What a handler that is called again adds to what was told.
LEMMA ContinuedTells ==
  ASSUME NEW r \in Requests, NEW w, Ready(w), w.sent = <<>>, HandlerOK(w.s, r), w.s.cgi # "NULL",
         NEW ww, Continued(w, r, ww), NEW k, NEW o \in Seq(Item), o # <<>>, Told(r, w.s, w.scan, k, o)
  PROVE  Told(r, ww.s, ww.scan, k, o \o ww.sent)
<1>1. /\ w.s \in SlotRec /\ w.scan \in ScanRec
      /\ w.s.cgi = "cgiEspFsHook" =>
           FileName(r.url) \in DOMAIN Files /\ r.url # "/admin/form.cgi" /\ w.s.cgiData - 1 <= Files[FileName(r.url)]
      /\ w.s.cgi = "cgiWiFiScan" => w.s.cgiData >= 1 /\ r.url = "/admin/wifiscan.cgi"
      /\ w.s.cgi \in {"cgiWiFiScan", "cgiEspFsHook"}
  BY FormsAreNoFiles DEF Ready, Ctx, HandlerOK
<1>2. r.url # "/admin/form.cgi"
  BY <1>1
<1>3. Understood(r) /\ ~(k < r.head + r.body) /\ OnceTold(r, w.s, w.scan, o)
  BY <1>2 DEF Told
<1>4. \A packet \in Seq(Item) : <<>> \o packet = packet
  OBVIOUS
<1> DEFINE s == w.s
           oo == o \o ww.sent
<1>5. \A packet \in Seq(Item) : Advanced(w, ww, packet) => oo = o \o packet
  BY <1>4 DEF Advanced
<1> HIDE DEF oo
<1>6. SUFFICES OnceTold(r, ww.s, ww.scan, oo)
  BY <1>2, <1>3 DEF Told, oo
<1>7. CASE PieceSent(w, r, ww)
  <2> DEFINE x == <<"piece", s.cgiData - 1 + PieceLen>>
  <2>1. FileTold(s, o) /\ ww.s.cgi = "cgiEspFsHook" /\ ww.s.cgiData = s.cgiData + PieceLen
    BY <1>3, <1>7 DEF OnceTold, PieceSent
  <2>2. FileTold(ww.s, o \o <<x>>)
    BY <2>1, FileMore
  <2>3. x \in Item
    <3>1. s.cgiData - 1 + PieceLen \in Nat
      BY <1>1, <1>7, LengthsAssumption DEF SlotRec, PieceSent, HandlerOK
    <3> QED
      BY <3>1, Items
  <2>4. Advanced(w, ww, <<x>>)
    BY <1>7 DEF PieceSent
  <2> HIDE DEF x
  <2>5. oo = o \o <<x>>
    <3>1. <<x>> \in Seq(Item)
      BY <2>3
    <3> DEFINE h == <<x>>
    <3> HIDE DEF h
    <3>2. oo = o \o h
      BY <1>5, <2>4, <3>1 DEF h
    <3> QED
      BY <3>2 DEF h
  <2> QED
    BY <2>1, <2>2, <2>5 DEF OnceTold
<1>8. CASE FileEnded(w, r, ww)
  <2> DEFINE F == Files[FileName(r.url)]
             x == <<"piece", F>>
             p == IF F = s.cgiData - 1 THEN <<>> ELSE <<x>>
  <2>1. /\ FileTold(s, o) /\ ww.s.cgi = "NULL" /\ FileName(r.url) \in DOMAIN Files /\ F \in Nat
        /\ s.cgiData - 1 <= F /\ F < s.cgiData - 1 + PieceLen /\ s.cgiData \in Nat
    BY <1>1, <1>3, <1>8, LengthsAssumption DEF OnceTold, FileEnded, SlotRec
  <2>2. Advanced(w, ww, p)
    BY <1>8 DEF FileEnded
  <2>3. IsPrefix(o, FileAnswer(FileName(r.url))) /\ (F # s.cgiData - 1 => IsPrefix(o \o <<x>>, FileAnswer(FileName(r.url))))
    BY <2>1, FileSoFar
  <2>4. x \in Item
    BY <2>1, Items
  <2> HIDE DEF x, F
  <2>5. p \in Seq(Item)
    BY <2>4
  <2>6. oo = o \o p
    BY <1>5, <2>2, <2>5
  <2>7. IsPrefix(oo, FileAnswer(FileName(r.url)))
    <3>1. CASE F = s.cgiData - 1
      <4>1. p = <<>>
        BY <3>1
      <4>2. o \o <<>> = o
        OBVIOUS
      <4> QED
        BY <2>3, <2>6, <4>1, <4>2
    <3>2. CASE F # s.cgiData - 1
      BY <2>3, <2>6, <3>2
    <3> QED
      BY <3>1, <3>2
  <2>8. FileAnswer(FileName(r.url)) \in Answers(r)
    BY <1>3, <2>1, RequestFacts, LongAnswers
  <2> QED
    BY <2>1, <2>7, <2>8 DEF OnceTold
<1>9. CASE EntrySent(w, ww)
  <2> DEFINE x == <<"ap", w.scan.result, s.cgiData>>
  <2>1. /\ ListTold(s, w.scan, o) /\ ww.s.cgi = "cgiWiFiScan" /\ ww.s.cgiData = s.cgiData + 1
        /\ s.cgiData >= 1 /\ s.cgiData < w.scan.n /\ ww.scan = w.scan /\ s.cgiData \in Nat
    BY <1>1, <1>3, <1>9 DEF OnceTold, EntrySent, SlotRec
  <2>2. ListTold(ww.s, w.scan, o \o <<x>>)
    BY <1>1, <2>1, ListMore
  <2>3. x \in Item
    BY <1>1, <2>1, Items DEF ScanRec
  <2>4. Advanced(w, ww, <<x>>)
    BY <1>9 DEF EntrySent
  <2> HIDE DEF x
  <2>5. oo = o \o <<x>>
    <3>1. <<x>> \in Seq(Item)
      BY <2>3
    <3> DEFINE h == <<x>>
    <3> HIDE DEF h
    <3>2. oo = o \o h
      BY <1>5, <2>4, <3>1 DEF h
    <3> QED
      BY <3>2 DEF h
  <2> QED
    BY <2>1, <2>2, <2>5 DEF OnceTold
<1>10. CASE ListingEnded(w, ww)
  <2> DEFINE x == <<"ap", w.scan.result, s.cgiData>>
             e == <<"end", w.scan.result, w.scan.n>>
             b == IF s.cgiData - 1 < w.scan.n THEN <<x>> ELSE <<>>
             p == b \o <<e>>
  <2>1. /\ ListTold(s, w.scan, o) /\ ww.s.cgi = "NULL" /\ r.url = "/admin/wifiscan.cgi"
        /\ s.cgiData >= 1 /\ s.cgiData >= w.scan.n /\ s.cgiData \in Nat
        /\ w.scan.n \in Nat /\ w.scan.result \in {0, 1}
    BY <1>1, <1>3, <1>10, CountsAreNat DEF OnceTold, ListingEnded, SlotRec, ScanRec
  <2>2. Advanced(w, ww, p)
    BY <1>10 DEF ListingEnded
  <2>3. \E a \in Listings : IsPrefix(o \o p, a)
    BY <1>1, <2>1, ListDone
  <2>4. x \in Item /\ e \in Item
    BY <2>1, Items
  <2> HIDE DEF x, e
  <2>5. b \in Seq(Item) /\ <<e>> \in Seq(Item)
    BY <2>4
  <2>6. p \in Seq(Item)
    <3> HIDE DEF b
    <3> QED
      BY <2>5, ConcatProperties
  <2> HIDE DEF p
  <2>7. oo = o \o p
    BY <1>5, <2>2, <2>6
  <2>8. Listings \subseteq Answers(r)
    BY <1>3, <2>1, RequestFacts, LongAnswers
  <2> QED
    BY <2>1, <2>3, <2>7, <2>8 DEF OnceTold
<1>11. CASE ListingBroken(w, ww)
  BY <1>3, <1>11 DEF ListingBroken, OnceTold, ListTold
<1> QED
  BY <1>7, <1>8, <1>9, <1>10, <1>11 DEF Continued

\* What was told is the beginning of an answer.
LEMMA ToldInOrder ==
  ASSUME NEW r \in Requests, NEW s \in SlotRec, HandlerOK(s, r), NEW sc \in ScanRec, NEW k,
         NEW o \in Seq(Item), o # <<>>, Told(r, s, sc, k, o)
  PROVE  \E a \in Answers(r) : IsPrefix(o, a)
<1>1. Understood(r)
  BY DEF Told
<1>2. CASE r.url = "/admin/form.cgi"
  BY <1>1, <1>2, FormSoFar DEF Told
<1>3. CASE r.url # "/admin/form.cgi"
  <2>1. OnceTold(r, s, sc, o)
    BY <1>3 DEF Told
  <2>2. CASE s.cgi = "NULL"
    BY <2>1, <2>2 DEF OnceTold
  <2>3. CASE s.cgi = "cgiEspFsHook"
    <3>1. FileTold(s, o) /\ FileName(r.url) \in DOMAIN Files /\ s.cgiData - 1 <= Files[FileName(r.url)]
      BY <2>1, <2>3 DEF OnceTold, HandlerOK
    <3> QED
      BY <1>1, <3>1, FileSoFar, RequestFacts, LongAnswers
  <2>4. CASE s.cgi = "cgiWiFiScan"
    <3>1. ListTold(s, sc, o) /\ r.url = "/admin/wifiscan.cgi" /\ s.cgiData >= 1
      BY <2>1, <2>4 DEF OnceTold, HandlerOK
    <3>2. PICK a \in Listings : IsPrefix(o, a)
      BY <3>1, ListSoFar
    <3> QED
      BY <1>1, <3>1, <3>2, RequestFacts, LongAnswers
  <2> QED
    BY <2>2, <2>3, <2>4 DEF HandlerOK
<1> QED
  BY <1>2, <1>3

-----------------------------------------------------------------------------
(* Responses in order *)

\* Every client whose listing was not disturbed knows what its slot stands for.
AllTold ==
  \A c \in Conns : \A i \in FindConnData(c) :
    est[c] = "up" /\ ~mixed[c] => Told(req[c], slot[i], scan, Units(c), out[c])

\* No connection that does not exist was told anything.
OrderInv == AllTold /\ \A c \in Conns : c \notin Alive => out[c] = <<>>

\* The scan result concerns listings only.
LEMMA ScanUntold ==
  ASSUME NEW r, NEW s, NEW sc, NEW k, NEW o, s.cgi # "cgiWiFiScan" \/ sc.inProgress,
         Told(r, s, sc, k, o)
  PROVE  \A sd : Told(r, s, sd, k, o)
<1>1. OnceTold(r, s, sc, o) => \A sd : OnceTold(r, s, sd, o)
  BY DEF OnceTold, ListTold
<1>2. CASE r.url = "/admin/form.cgi"
  BY <1>2 DEF Told
<1>3. CASE r.url # "/admin/form.cgi"
  BY <1>1, <1>3 DEF Told
<1> QED
  BY <1>2, <1>3

\* Who listens to a listing is known as one that another scan disturbs.
LEMMA OthersTold ==
  ASSUME HttpInv, AllTold, NEW w, NEW who, Shared(w, who), NEW d \in Conns,
         NEW j \in FindConnData(d), est[d] = "up", FindConnData(d) \cap who = {}, ~mixed'[d],
         slot'[j] = slot[j], req'[d] = req[d], left'[d] = left[d], out'[d] = out[d]
  PROVE  Told(req[d], slot[j], scan, Units(d), out[d])'
<1>1. mixed'[d] = (mixed[d] \/ (w.scan # scan /\ est[d] = "up" /\ InListing(d) /\ FindConnData(d) \cap who = {}))
  BY DEF Shared
<1>2. ~mixed[d] /\ (w.scan = scan \/ ~InListing(d))
  BY <1>1
<1>3. Told(req[d], slot[j], scan, Units(d), out[d])
  BY <1>2 DEF AllTold
<1>4. ServesOK(j, d) /\ j \in Slots
  BY FindsFirst DEF HttpInv, AllServed, Fits, Kept
<1>5. \A sd : sd = scan => Told(req[d], slot[j], sd, Units(d), out[d])
  BY <1>3
<1>6. CASE w.scan = scan
  <2>1. scan' = scan
    BY <1>6 DEF Shared
  <2> QED
    BY <1>3, <2>1 DEF Units
<1>7. CASE ~InListing(d)
  <2>1. slot[j].cgi # "cgiWiFiScan"
    <3> SUFFICES ASSUME slot[j].cgi = "cgiWiFiScan" PROVE FALSE
      OBVIOUS
    <3>1. slot[j].cgiData >= 1 /\ slot[j].cgiData \in Nat
      BY <1>4 DEF ServesOK, HandlerOK, HttpInv, SlotsOK, SlotRec
    <3> QED
      BY <1>7, <3>1 DEF InListing
  <2>2. \A sd : Told(req[d], slot[j], sd, Units(d), out[d])
    BY <1>3, <2>1, ScanUntold
  <2>3. Told(req[d], slot[j], scan', Units(d), out[d])
    BY <2>2
  <2> QED
    BY <2>3 DEF Units
<1> QED
  BY <1>2, <1>6, <1>7

\* In the beginning nobody was told anything.
LEMMA OrderInit == Init => OrderInv
<1> SUFFICES ASSUME Init PROVE OrderInv
  OBVIOUS
<1>1. (\A i \in Slots : conn[i] = NoConn) /\ \A c \in Conns : out[c] = <<>> /\ c # NoConn
  BY PoolAssumption DEF Init
<1> QED
  BY <1>1, FindsFirst DEF OrderInv, AllTold

\* Nothing happened to a client and its slot.
LEMMA StillTold ==
  ASSUME OrderInv, NEW d \in Conns, FindConnData(d)' = FindConnData(d),
         \A j \in FindConnData(d) : slot'[j] = slot[j], req'[d] = req[d], left'[d] = left[d],
         out'[d] = out[d], scan' = scan, est[d] = "up", ~mixed[d]
  PROVE  \A j \in FindConnData(d)' : Told(req[d], slot[j], scan, Units(d), out[d])'
<1> SUFFICES ASSUME NEW j \in FindConnData(d) PROVE Told(req[d], slot[j], scan, Units(d), out[d])'
  OBVIOUS
<1>1. Told(req[d], slot[j], scan, Units(d), out[d])
  BY DEF OrderInv, AllTold
<1> QED
  BY <1>1 DEF Units

\* AllTold, connection by connection.
LEMMA ToldOneByOne ==
  ASSUME \A d \in Conns : est'[d] = "up" /\ ~mixed'[d] =>
           \A j \in FindConnData(d)' : Told(req[d], slot[j], scan, Units(d), out[d])'
  PROVE  AllTold'
  BY DEF AllTold

\* A client that has been told nothing.
LEMMA NothingTold ==
  ASSUME NEW r \in Requests, NEW sc
  PROVE  Told(r, Unused, sc, 0, <<>>)
<1>1. Unused.cgi = "NULL" /\ Unused.received = 0 /\ Unused.buffLen = 0
  BY DEF Unused
<1>2. FormTold(r, Unused, 0, <<>>)
  <2>1. 0 \in 0 .. Pieces(r)
    BY PiecesType
  <2>2. Len(<<>>) = 2 * 0 /\ 0 = 0 * MaxPost + 0
    BY LengthsAssumption
  <2>3. \A t \in 1 .. 0 : FALSE
    OBVIOUS
  <2> QED
    BY <1>1, <2>1, <2>2, <2>3 DEF FormTold
<1>3. OnceTold(r, Unused, sc, <<>>)
  BY <1>1 DEF OnceTold
<1> QED
  BY <1>2, <1>3 DEF Told

\* A new connection has been told nothing, and its slot is unused.
LEMMA OrderConnect ==
  ASSUME HttpInv, OrderInv, NEW c \in Conns, httpdConnectCb(c)
  PROVE  OrderInv'
<1>1. est[c] \in {"free", "gone"} /\ UNCHANGED <<scan, out, mixed>>
  BY ConnectGives
<1>2. out[c] = <<>>
  BY <1>1 DEF OrderInv, Alive
<1>3. \A d \in Conns \ {c} : /\ est'[d] = est[d] /\ req'[d] = req[d] /\ left'[d] = left[d]
                             /\ FindConnData(d)' = FindConnData(d)
                             /\ \A j \in FindConnData(d) : slot'[j] = slot[j]
  <2>1. CASE PoolOverflow(c)
    BY <2>1 DEF PoolOverflow, HttpInv, PoolInv, ConnTypes, FindConnData
  <2>2. ASSUME NEW i, Taken(c, i), NEW d \in Conns \ {c}
        PROVE  /\ est'[d] = est[d] /\ req'[d] = req[d] /\ left'[d] = left[d]
               /\ FindConnData(d)' = FindConnData(d)
               /\ \A j \in FindConnData(d) : slot'[j] = slot[j]
    <3>1. /\ i \in Slots /\ conn[i] = NoConn /\ conn' = [conn EXCEPT ![i] = c]
          /\ slot' = [slot EXCEPT ![i] = Unused] /\ est'[d] = est[d]
      BY <2>2 DEF Taken, HttpInv, PoolInv
    <3>2. \A j \in Slots : conn'[j] = d <=> conn[j] = d
      BY <3>1, PoolAssumption DEF HttpInv, PoolInv
    <3>3. FindConnData(d)' = FindConnData(d)
      BY <3>2, FoundAsBefore
    <3>4. \A j \in FindConnData(d) : j \in Slots /\ j # i
      BY <3>1, FindsFirst, PoolAssumption
    <3>5. \A j \in FindConnData(d) : slot'[j] = slot[j]
      BY <3>1, <3>4 DEF HttpInv, SlotsOK
    <3>6. req'[d] = req[d] /\ left'[d] = left[d]
      <4>1. ContinuesRequest(c) => req'[d] = req[d] /\ left'[d] = left[d]
        BY DEF ContinuesRequest, HttpInv, ConnTypes
      <4> QED
        BY <2>2, <4>1 DEF Taken, HttpInv, ConnTypes
    <3> QED
      BY <3>1, <3>3, <3>5, <3>6
  <2> QED
    BY <2>1, <2>2, ConnectGives
<1>4. ASSUME est'[c] = "up"
      PROVE  \A j \in FindConnData(c)' : Told(req[c], slot[j], scan, Units(c), out[c])'
  <2>1. ~PoolOverflow(c)
    BY <1>4 DEF PoolOverflow, HttpInv, PoolInv
  <2>2. PICK i : Taken(c, i)
    BY <2>1, ConnectGives
  <2>3. /\ i \in Slots /\ conn[i] = NoConn /\ conn' = [conn EXCEPT ![i] = c]
        /\ slot' = [slot EXCEPT ![i] = Unused]
    BY <2>2 DEF Taken
  <2>4. est' # [est EXCEPT ![c] = "heir"]
    BY <1>4 DEF HttpInv, PoolInv
  <2>5. PICK r \in Requests : /\ req' = [req EXCEPT ![c] = r]
                              /\ left' = [left EXCEPT ![c] = r.head + r.body]
    BY <2>2, <2>4 DEF Taken
  <2>6. req'[c] = r /\ left'[c] = r.head + r.body
    BY <2>5 DEF HttpInv, ConnTypes
  <2>7. Units(c)' = 0
    BY <2>6, RequestFacts DEF Units
  <2>8. \A j \in FindConnData(c)' : slot'[j] = Unused
    <3>1. \A o \in FindConnData(c) : ~(o < i)
      BY <2>2, <2>4 DEF Taken
    <3> QED
      <4>1. \A j \in FindConnData(c)' : j = i
        BY <2>3, <3>1, TakesFirst DEF HttpInv, PoolInv
      <4>2. slot'[i] = Unused
        BY <2>3 DEF HttpInv, SlotsOK
      <4> QED
        BY <4>1, <4>2
  <2>9. Told(r, Unused, scan, 0, <<>>)
    BY NothingTold
  <2>10. scan' = scan /\ out'[c] = <<>>
    BY <1>1, <1>2
  <2> SUFFICES ASSUME NEW j \in FindConnData(c)' PROVE Told(req[c], slot[j], scan, Units(c), out[c])'
    OBVIOUS
  <2>11. slot'[j] = Unused
    BY <2>8
  <2> QED
    BY <2>6, <2>7, <2>9, <2>10, <2>11
<1>5. AllTold'
  <2>1. ASSUME NEW d \in Conns \ {c}, est'[d] = "up", ~mixed'[d]
        PROVE  \A j \in FindConnData(d)' : Told(req[d], slot[j], scan, Units(d), out[d])'
    <3>1. est[d] = "up" /\ ~mixed[d] /\ out'[d] = out[d] /\ scan' = scan
      BY <1>1, <1>3, <2>1
    <3> QED
      BY <1>3, <3>1, StillTold
  <2> QED
    BY <1>4, <2>1, ToldOneByOne
<1>6. ASSUME NEW d \in Conns, d \notin Alive' PROVE out'[d] = <<>>
  <2>1. d = c \/ d \notin Alive
    BY <1>3, <1>6 DEF Alive
  <2> QED
    BY <1>1, <1>2, <2>1 DEF OrderInv
<1> QED
  BY <1>5, <1>6 DEF OrderInv

\* Both callbacks that run the handler of a connection.
LEMMA OrderServed ==
  ASSUME HttpInv, OrderInv, NEW c \in Conns, NEW i \in FindConnData(c), c \in Alive, NEW w,
         slot' = [slot EXCEPT ![i] = w.s], out' = [out EXCEPT ![c] = @ \o w.sent],
         Shared(w, {i}), UNCHANGED <<conn, est, req>>, \A d \in Conns \ {c} : left'[d] = left[d],
         est[c] = "up" /\ ~mixed[c] => Told(req[c], w.s, w.scan, Units(c)', out[c] \o w.sent)
  PROVE  OrderInv'
<1>1. i \in Slots /\ slot \in [Slots -> SlotRec] /\ out \in [Conns -> Seq(Item)]
  BY FindsFirst DEF HttpInv, SlotsOK, ConnTypes
<1>2. \A d : FindConnData(d)' = FindConnData(d)
  BY DEF FindConnData
<1>3. ASSUME NEW d \in Conns, est'[d] = "up", ~mixed'[d], NEW j \in FindConnData(d)
      PROVE  Told(req[d], slot[j], scan, Units(d), out[d])'
  <2>0. est[d] = "up" /\ j \in Slots
    BY <1>3, FindsFirst
  <2>1. CASE d = c
    <3>1. j = i
      BY <2>1, FindsFirst
    <3>2. slot'[j] = w.s /\ out'[c] = out[c] \o w.sent /\ scan' = w.scan /\ req' = req
      BY <1>1, <3>1 DEF Shared
    <3>3. ~mixed[c]
      BY <1>3, <2>1 DEF Shared
    <3>4. Told(req[c], w.s, w.scan, Units(c)', out[c] \o w.sent)
      BY <2>0, <2>1, <3>3
    <3> QED
      BY <2>1, <3>2, <3>4
  <2>2. CASE d # c
    <3>1. i \notin FindConnData(d)
      BY <2>2, FindsFirst
    <3>2. j # i /\ slot'[j] = slot[j] /\ out'[d] = out[d] /\ req'[d] = req[d] /\ left'[d] = left[d]
      BY <1>1, <2>0, <2>2, <3>1
    <3>3. FindConnData(d) \cap {i} = {}
      BY <3>1
    <3> QED
      BY <1>3, <2>0, <3>2, <3>3, OthersTold DEF OrderInv
  <2> QED
    BY <2>1, <2>2
<1>4. AllTold'
  <2>1. ASSUME NEW d \in Conns, est'[d] = "up", ~mixed'[d]
        PROVE  \A j \in FindConnData(d)' : Told(req[d], slot[j], scan, Units(d), out[d])'
    BY <1>2, <1>3, <2>1
  <2> QED
    BY <2>1, ToldOneByOne
<1>5. ASSUME NEW d \in Conns, d \notin Alive' PROVE out'[d] = <<>>
  <2>1. d # c /\ d \notin Alive
    BY <1>5 DEF Alive
  <2> QED
    BY <1>1, <2>1 DEF OrderInv
<1> QED
  BY <1>4, <1>5 DEF OrderInv

\* The receive callback keeps what was told in step with the slot.
LEMMA OrderReceive ==
  ASSUME LongBodiesAreForms, HttpInv, OrderInv, NEW c \in Conns, httpdRecvCb(c)
  PROVE  OrderInv'
<1>1. PICK i, len, w : Received(c, i, len, w)
  BY ReceiveGives
<1>2. /\ i \in FindConnData(c) /\ i \in Slots /\ len \in 1 .. left[c] /\ c \in Alive
      /\ w = Feed(Context(i), req[c], Units(c) + 1, Units(c) + len)
      /\ left' = [left EXCEPT ![c] = @ - len] /\ slot' = [slot EXCEPT ![i] = w.s]
      /\ out' = [out EXCEPT ![c] = @ \o w.sent] /\ Shared(w, {i}) /\ UNCHANGED <<conn, est, req>>
  BY <1>1, FindsFirst DEF Received
<1>3. /\ ServesOK(i, c) /\ left[c] \in Nat /\ out[c] \in Seq(Item)
  BY <1>2 DEF HttpInv, AllServed, Fits, Alive, Kept, ConnTypes
<1> DEFINE r == req[c]
           w0 == Context(i)
           o == out[c]
           from == Units(c) + 1
           to == Units(c) + len
<1>4. r \in Requests /\ r.head \in Nat \ {0} /\ r.body \in Nat /\ left[c] <= r.head + r.body
  BY <1>3, RequestFacts DEF ServesOK
<1>5. /\ from \in Nat \ {0} /\ to \in Nat /\ from <= to /\ to <= r.head + r.body
      /\ from - 1 = Units(c) /\ Units(c) < r.head + r.body
  BY <1>2, <1>3, <1>4, SMTT(30) DEF Units
<1>6. Units(c)' = to
  <2>1. left'[c] = left[c] - len /\ req' = req
    BY <1>2 DEF HttpInv, ConnTypes
  <2> QED
    BY <1>2, <1>3, <1>4, <2>1 DEF Units
<1>7. Ready(w0) /\ w0.s = slot[i] /\ w0.sent = <<>> /\ w0.scan = scan
  BY <1>2, ContextFacts DEF HttpInv
<1> HIDE DEF w0, r, o, from, to
<1>8. ASSUME est[c] = "up", ~mixed[c] PROVE Told(r, w.s, w.scan, to, o \o w.sent)
  <2>1. Told(r, w0.s, w0.scan, from - 1, o)
    BY <1>2, <1>5, <1>7, <1>8 DEF OrderInv, AllTold, r, o
  <2>2. o \o w0.sent = o
    <3>1. o \o <<>> = o
      BY <1>3 DEF o
    <3> QED
      BY <1>7, <3>1
  <2>3. Feeding(w0, r, w0, from - 1)
    <3>1. FedOK(w0.s, r, from - 1) /\ HandlerOK(w0.s, r)
      BY <1>3, <1>5, <1>7 DEF ServesOK, r
    <3>2. from - 1 # r.head + r.body
      BY <1>5, <1>4
    <3> QED
      BY <1>7, <3>1, <3>2 DEF Feeding, Progress
  <2>4. Telling(w0, r, w0, from - 1, o)
    BY <1>3, <2>1, <2>2, <2>3 DEF Telling, o
  <2>5. Telling(w0, r, w, to, o)
    <3>1. w = Feed(w0, r, from, to)
      BY <1>2 DEF w0, r, from, to
    <3> QED
      BY <1>4, <1>5, <2>4, <3>1, FeedTells
  <2> QED
    BY <2>5 DEF Telling
<1>9. \A d \in Conns \ {c} : left'[d] = left[d]
  BY <1>2 DEF HttpInv, ConnTypes
<1>10. est[c] = "up" /\ ~mixed[c] => Told(req[c], w.s, w.scan, Units(c)', out[c] \o w.sent)
  BY <1>6, <1>8 DEF r, o
<1> QED
  BY <1>2, <1>9, <1>10, OrderServed

\* So does the sent callback that runs a handler again.
LEMMA OrderSentMore ==
  ASSUME HttpInv, OrderInv, NEW c \in Conns, c \in Alive, unsent[c] > 0, NEW i \in FindConnData(c),
         SentMore(c, i)
  PROVE  OrderInv'
<1>1. PICK w : SentOn(c, i, w)
  BY SentMoreGives
<1>2. /\ i \in Slots /\ slot[i].cgi # "NULL" /\ Continued(Context(i), req[c], w)
      /\ slot' = [slot EXCEPT ![i] = w.s] /\ out' = [out EXCEPT ![c] = @ \o w.sent]
      /\ Shared(w, {i}) /\ UNCHANGED <<conn, est, req, left>>
  BY <1>1 DEF SentOn
<1>3. ServesOK(i, c) /\ (est[c] = "up" => AnswerOK(i, c)) /\ out[c] \in Seq(Item)
  BY DEF HttpInv, AllServed, Fits, Alive, Kept, ConnTypes
<1> DEFINE w0 == Context(i)
<1>4. Ready(w0) /\ w0.s = slot[i] /\ w0.sent = <<>> /\ w0.scan = scan
  BY <1>2, ContextFacts DEF HttpInv
<1> HIDE DEF w0
<1>5. ASSUME est[c] = "up", ~mixed[c] PROVE Told(req[c], w.s, w.scan, Units(c), out[c] \o w.sent)
  <2>1. Told(req[c], w0.s, w0.scan, Units(c), out[c])
    BY <1>2, <1>4, <1>5 DEF OrderInv, AllTold
  <2>2. req[c] \in Requests /\ HandlerOK(w0.s, req[c]) /\ w0.s.cgi # "NULL" /\ out[c] # <<>>
    BY <1>2, <1>3, <1>4, <1>5 DEF ServesOK, AnswerOK
  <2>3. Continued(w0, req[c], w)
    BY <1>2 DEF w0
  <2> DEFINE o == out[c]
             r == req[c]
             k == Units(c)
  <2> HIDE DEF o, r, k
  <2>4. Told(r, w.s, w.scan, k, o \o w.sent)
    BY <1>3, <1>4, <2>1, <2>2, <2>3, ContinuedTells DEF o, r, k
  <2> QED
    BY <2>4 DEF o, r, k
<1>6. Units(c)' = Units(c)
  BY <1>2 DEF Units
<1>7. est[c] = "up" /\ ~mixed[c] => Told(req[c], w.s, w.scan, Units(c)', out[c] \o w.sent)
  BY <1>5, <1>6
<1>8. \A d \in Conns \ {c} : left'[d] = left[d]
  BY <1>2
<1> QED
  BY <1>2, <1>7, <1>8, OrderServed

\* A connection that is no longer up has been told nothing; the others go on.
LEMMA OrderEnded ==
  ASSUME HttpInv, OrderInv, NEW c \in Conns, est'[c] # "up", out'[c] = <<>>, UNCHANGED scan,
         \A d \in Conns \ {c} : /\ est'[d] = est[d] /\ FindConnData(d)' = FindConnData(d)
                                /\ \A j \in FindConnData(d) : slot'[j] = slot[j]
                                /\ req'[d] = req[d] /\ left'[d] = left[d] /\ out'[d] = out[d]
                                /\ mixed'[d] = mixed[d]
  PROVE  OrderInv'
<1>1. ASSUME NEW d \in Conns, est'[d] = "up", ~mixed'[d]
      PROVE  \A j \in FindConnData(d)' : Told(req[d], slot[j], scan, Units(d), out[d])'
  <2>1. d # c
    BY <1>1
  <2>2. /\ est'[d] = est[d] /\ FindConnData(d)' = FindConnData(d)
        /\ \A j \in FindConnData(d) : slot'[j] = slot[j]
        /\ req'[d] = req[d] /\ left'[d] = left[d] /\ out'[d] = out[d] /\ mixed'[d] = mixed[d]
    <3>1. d \in Conns \ {c}
      BY <2>1
    <3> QED
      BY <3>1
  <2>3. est[d] = "up" /\ ~mixed[d] /\ scan' = scan
    BY <1>1, <2>2
  <2> QED
    BY <2>2, <2>3, StillTold
<1>2. AllTold'
  BY <1>1, ToldOneByOne
<1>3. ASSUME NEW d \in Conns, d \notin Alive' PROVE out'[d] = <<>>
  <2>1. CASE d # c
    <3>1. d \in Conns \ {c}
      BY <2>1
    <3>2. est'[d] = est[d] /\ out'[d] = out[d]
      BY <3>1
    <3> QED
      BY <1>3, <3>2 DEF OrderInv, Alive
  <2> QED
    BY <2>1
<1> QED
  BY <1>2, <1>3 DEF OrderInv

\* The last sent callback of a connection.
LEMMA OrderSentLast ==
  ASSUME HttpInv, OrderInv, NEW c \in Conns, NEW i \in FindConnData(c), SentLast(c, i)
  PROVE  OrderInv'
<1>1. /\ i \in Slots /\ conn[i] = c /\ est' = [est EXCEPT ![c] = "closing"]
      /\ conn' = [conn EXCEPT ![i] = NoConn] /\ slot' = [slot EXCEPT ![i] = Unused]
      /\ Ended({c}) /\ UNCHANGED scan
  BY FindsFirst DEF SentLast
<1>2. est'[c] # "up" /\ \A d \in Conns \ {c} : est'[d] = est[d]
  BY <1>1 DEF HttpInv, PoolInv
<1>3. out'[c] = <<>> /\ \A d \in Conns \ {c} : /\ req'[d] = req[d] /\ left'[d] = left[d]
                                               /\ out'[d] = out[d] /\ mixed'[d] = mixed[d]
  BY <1>1 DEF Ended
<1>4. ASSUME NEW d \in Conns \ {c}
      PROVE  FindConnData(d)' = FindConnData(d) /\ \A j \in FindConnData(d) : slot'[j] = slot[j]
  <2>1. \A j \in Slots : conn'[j] = d <=> conn[j] = d
    BY <1>1, PoolAssumption DEF HttpInv, PoolInv
  <2>2. FindConnData(d)' = FindConnData(d)
    BY <2>1, FoundAsBefore
  <2>3. \A j \in FindConnData(d) : j \in Slots /\ j # i
    BY <1>1, FindsFirst
  <2> QED
    BY <1>1, <2>2, <2>3 DEF HttpInv, SlotsOK
<1> QED
  BY <1>1, <1>2, <1>3, <1>4, OrderEnded

\* The end of a connection that its client closed or that was reset.
LEMMA OrderLoss ==
  ASSUME HttpInv, OrderInv, NEW c \in Conns, ClientCloses(c) \/ httpdReconCb(c)
  PROVE  OrderInv'
<1>1. /\ UNCHANGED <<conn, slot, scan>> /\ out'[c] = <<>>
      /\ est' \in {[est EXCEPT ![c] = "closing"], [est EXCEPT ![c] = "gone"]}
      /\ \A d \in Conns \ {c} : /\ req'[d] = req[d] /\ left'[d] = left[d] /\ out'[d] = out[d]
                                /\ mixed'[d] = mixed[d]
  BY LossGives
<1>2. est'[c] # "up" /\ \A d \in Conns \ {c} : est'[d] = est[d]
  BY <1>1 DEF HttpInv, PoolInv
<1>3. \A d : FindConnData(d)' = FindConnData(d)
  BY <1>1 DEF FindConnData
<1> QED
  BY <1>1, <1>2, <1>3, OrderEnded

\* The disconnect callback: a listing it starts a scan for disturbs the others.
LEMMA OrderDiscon ==
  ASSUME HttpInv, OrderInv, NEW c \in Conns, httpdDisconCb(c)
  PROVE  OrderInv'
<1>1. PICK seen \in SUBSET {d \in Conns : est[d] = "gone"} :
        /\ conn' = [i \in Slots |-> IF i \in LooksClosed(seen) THEN NoConn ELSE conn[i]]
        /\ slot' = [i \in Slots |-> IF i \in LooksClosed(seen) THEN Unused ELSE slot[i]]
        /\ est' = [d \in Conns |-> IF d = c \/ d \in seen THEN "free" ELSE est[d]]
        /\ req' = [d \in Conns |-> IF d \in seen THEN NoRequest ELSE req[d]]
        /\ left' = [d \in Conns |-> IF d \in seen THEN 0 ELSE left[d]]
        /\ Shared(Flush(LooksClosed(seen)), LooksClosed(seen))
  BY DEF httpdDisconCb
<1> DEFINE dead == LooksClosed(seen)
           w == Flush(dead)
<1>2. est[c] = "closing" /\ UNCHANGED out
  BY DEF httpdDisconCb
<1>3. \A i \in dead : conn[i] # NoConn /\ est[conn[i]] # "up"
  BY <1>1 DEF LooksClosed
<1>4. Shared(w, dead) /\ \A i \in Slots : /\ conn'[i] = IF i \in dead THEN NoConn ELSE conn[i]
                                          /\ slot'[i] = IF i \in dead THEN Unused ELSE slot[i]
  BY <1>1
<1> HIDE DEF dead, w
<1>5. \A d \in Conns : est'[d] = IF d = c \/ d \in seen THEN "free" ELSE est[d]
  BY <1>1
<1>6. ASSUME NEW d \in Conns, est'[d] = "up", ~mixed'[d]
      PROVE  \A j \in FindConnData(d)' : Told(req[d], slot[j], scan, Units(d), out[d])'
  <2>1. est[d] = "up" /\ d \notin seen
    BY <1>5, <1>6
  <2>2. req'[d] = req[d] /\ left'[d] = left[d] /\ out'[d] = out[d]
    BY <1>1, <1>2, <2>1
  <2>3. \A j \in Slots : conn[j] = d => j \notin dead
    BY <1>3, <2>1
  <2>4. \A j \in Slots : conn'[j] = d <=> conn[j] = d
    BY <1>4, <2>3, PoolAssumption
  <2>5. FindConnData(d)' = FindConnData(d)
    BY <2>4, FoundAsBefore
  <2>6. FindConnData(d) \cap dead = {} /\ \A j \in FindConnData(d) : slot'[j] = slot[j]
    BY <1>4, <2>3, FindsFirst
  <2>7. ASSUME NEW j \in FindConnData(d) PROVE Told(req[d], slot[j], scan, Units(d), out[d])'
    BY <1>4, <1>6, <2>1, <2>2, <2>6, OthersTold DEF OrderInv
  <2> QED
    BY <2>5, <2>7
<1>7. AllTold'
  BY <1>6, ToldOneByOne
<1>8. ASSUME NEW d \in Conns, d \notin Alive' PROVE out'[d] = <<>>
  <2>1. d \notin Alive
    BY <1>1, <1>2, <1>5, <1>8 DEF Alive
  <2> QED
    BY <1>2, <2>1 DEF OrderInv
<1> QED
  BY <1>7, <1>8 DEF OrderInv

\* A scan that ends ends while no listing waits for its result.
LEMMA OrderScan ==
  ASSUME HttpInv, OrderInv, scan.inProgress \/ UNCHANGED scan,
         UNCHANGED <<conn, slot, est, req, left, out, mixed>>
  PROVE  OrderInv'
<1>1. \A d : FindConnData(d)' = FindConnData(d)
  BY DEF FindConnData
<1>2. ASSUME NEW d \in Conns, est[d] = "up", ~mixed[d], NEW j \in FindConnData(d)
      PROVE  Told(req[d], slot[j], scan, Units(d), out[d])'
  <2>1. Told(req[d], slot[j], scan, Units(d), out[d])
    BY <1>2 DEF OrderInv, AllTold
  <2>2. Told(req[d], slot[j], scan', Units(d), out[d])
    <3>1. CASE UNCHANGED scan
      BY <2>1, <3>1
    <3>2. CASE scan.inProgress
      BY <2>1, <3>2, ScanUntold
    <3> QED
      BY <3>1, <3>2
  <2> QED
    BY <2>2 DEF Units
<1>3. AllTold'
  <2>1. ASSUME NEW d \in Conns, est'[d] = "up", ~mixed'[d]
        PROVE  \A j \in FindConnData(d)' : Told(req[d], slot[j], scan, Units(d), out[d])'
    BY <1>1, <1>2, <2>1
  <2> QED
    BY <2>1, ToldOneByOne
<1> QED
  BY <1>3 DEF OrderInv, Alive

\* Every step keeps both invariants.
LEMMA OrderNext ==
  ASSUME LongBodiesAreForms, HttpInv, OrderInv, [Next]_vars
  PROVE  OrderInv'
<1>1. ASSUME NEW c \in Conns, httpdConnectCb(c) PROVE OrderInv'
  BY <1>1, OrderConnect
<1>2. ASSUME NEW c \in Conns, httpdRecvCb(c) PROVE OrderInv'
  BY <1>2, OrderReceive
<1>3. ASSUME NEW c \in Conns, httpdSentCb(c) PROVE OrderInv'
  <2>1. PICK i \in FindConnData(c) : SentMore(c, i) \/ SentLast(c, i)
    BY <1>3 DEF httpdSentCb
  <2>2. c \in Alive /\ unsent[c] > 0
    BY <1>3 DEF httpdSentCb
  <2> QED
    BY <2>1, <2>2, OrderSentMore, OrderSentLast
<1>4. ASSUME NEW c \in Conns, ClientCloses(c) \/ httpdReconCb(c) PROVE OrderInv'
  BY <1>4, OrderLoss
<1>5. ASSUME NEW c \in Conns, httpdDisconCb(c) PROVE OrderInv'
  BY <1>5, OrderDiscon
<1>6. CASE wifiScanDoneCb
  <2>1. scan.inProgress /\ UNCHANGED <<conn, slot, est, req, left, out, mixed>>
    BY <1>6 DEF wifiScanDoneCb, network, history
  <2> QED
    BY <2>1, OrderScan
<1>7. CASE UNCHANGED vars
  <2>1. UNCHANGED <<scan, conn, slot, est, req, left, out, mixed>>
    BY <1>7 DEF vars, network, history
  <2> QED
    BY <2>1, OrderScan
<1> QED
  BY <1>1, <1>2, <1>3, <1>4, <1>5, <1>6, <1>7 DEF Next

\* For all numbers of clients, slots, files and requests: whatever the other
\* connections do between a client's callbacks, it is sent the beginning of a right
\* answer to its request, unless somebody started a scan during its listing.
THEOREM ResponsesInOrder == LongBodiesAreForms => (Spec => []ResponseInOrder)
<1> SUFFICES ASSUME LongBodiesAreForms PROVE Spec => []ResponseInOrder
  OBVIOUS
<1>1. Init => HttpInv /\ OrderInv
  BY HttpInit, OrderInit
<1>2. (HttpInv /\ OrderInv) /\ [Next]_vars => (HttpInv /\ OrderInv)'
  BY HttpNext, OrderNext
<1>3. HttpInv /\ OrderInv => ResponseInOrder
  <2> SUFFICES ASSUME HttpInv, OrderInv, NEW c \in Conns, est[c] = "up", out[c] # <<>>, ~mixed[c]
               PROVE  \E a \in Answers(req[c]) : IsPrefix(out[c], a)
    BY DEF ResponseInOrder
  <2>1. PICK i : i \in FindConnData(c)
    BY FindsFirst DEF HttpInv, PoolInv, Kept
  <2>2. i \in Slots
    BY <2>1, FindsFirst
  <2>3. ServesOK(i, c) /\ Told(req[c], slot[i], scan, Units(c), out[c])
    BY <2>1 DEF HttpInv, AllServed, Fits, Kept, OrderInv, AllTold
  <2>4. /\ req[c] \in Requests /\ slot[i] \in SlotRec /\ HandlerOK(slot[i], req[c])
        /\ scan \in ScanRec /\ out[c] \in Seq(Item)
    BY <2>2, <2>3 DEF ServesOK, HttpInv, SlotsOK, StateOK, ConnTypes
  <2> DEFINE o == out[c]
             r == req[c]
             s == slot[i]
             k == Units(c)
  <2> HIDE DEF o, r, s, k
  <2>5. \E a \in Answers(r) : IsPrefix(o, a)
    BY <2>3, <2>4, ToldInOrder DEF o, r, s, k
  <2> QED
    BY <2>5 DEF o, r
<1> QED
  BY <1>1, <1>2, <1>3, PTL DEF Spec
=============================================================================
