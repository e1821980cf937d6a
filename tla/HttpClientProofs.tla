-------------------------- MODULE HttpClientProofs --------------------------
(***************************************************************************)
(* Proofs about HttpClient for any number of requests in parallel, all     *)
(* status codes, and every length of a response and of the buffer.         *)
(***************************************************************************)
EXTENDS HttpClient, TLAPS

\* A buffer that begins with the first segment and was not cut holds all that
\* arrived, in order.
WholeIsInOrder ==
  \A r \in Requests :
    ~cut[r] /\ buffer[r] # <<>> /\ buffer[r][1] = 1 =>
      Len(buffer[r]) = heard[r] /\ \A i \in 1 .. Len(buffer[r]) : buffer[r][i] = i

\* What the phase of a request says of its answer and of its memory.
Phases ==
  \A r \in Requests :
    /\ phase[r] # "done" => answer[r] = 0
    /\ answer[r] > 0 => ~cut[r] /\ buffer[r] # <<>> /\ buffer[r][1] = 1
    /\ phase[r] = "lookup" => "headers" \in owned[r]
    /\ buffer[r] # <<>> => heard[r] > 0

IInv == TypeOK /\ WholeIsInOrder /\ Phases /\ NothingLeft

LEMMA InitIInv == Init => IInv
<1> SUFFICES ASSUME Init PROVE IInv
  OBVIOUS
<1>1. TypeOK
  BY SegmentsAssumption DEF Init, TypeOK
<1>2. WholeIsInOrder /\ Phases /\ NothingLeft
  BY DEF Init, WholeIsInOrder, Phases, NothingLeft
<1> QED
  BY <1>1, <1>2 DEF IInv

\* A request that begins, or whose name was looked up.
LEMMA StartStep ==
  ASSUME IInv, NEW r \in Requests, http_post(r) \/ DnsCallback(r)
  PROVE  IInv'
<1>1. UNCHANGED <<buffer, cut, heard>>
  BY DEF http_post, DnsCallback
<1>2. phase[r] \in {"free", "lookup"} /\ answer[r] = 0 /\ ~cut'[r] = ~cut[r]
  BY <1>1 DEF IInv, Phases, http_post, DnsCallback
<1>3. PICK blocks \in SUBSET Blocks, p \in {"rejected", "connecting", "done", "lookup"} :
        /\ phase' = [phase EXCEPT ![r] = p]
        /\ owned' = [owned EXCEPT ![r] = blocks]
        /\ answer' = IF p = "done" THEN [answer EXCEPT ![r] = -1] ELSE answer
        /\ p \in {"lookup", "done"} => "headers" \in blocks
  <2> DEFINE first == {"req", "hostname", "path", "headers", "buffer"}
                        \cup (IF r \in Posts THEN {"post"} ELSE {})
  <2>1. owned \in [Requests -> SUBSET Blocks] /\ first \subseteq Blocks /\ "headers" \in first
    BY DEF IInv, TypeOK, Blocks
  <2>2. CASE DnsCallback(r)
    <3>1. "headers" \in owned[r] /\ owned[r] \subseteq Blocks
      BY <2>1, <2>2 DEF IInv, Phases, DnsCallback
    <3>2. CASE Connect(r, owned[r])
      <4>1. owned[r] \cup {"conn", "tcp"} \in SUBSET Blocks
        BY <3>1 DEF Blocks
      <4> QED
        BY <3>2, <4>1 DEF Connect, Goes
    <3>3. CASE LookupFails(r, owned[r])
      <4>1. owned[r] \ {"req"} \in SUBSET Blocks /\ "headers" \in owned[r] \ {"req"}
        BY <3>1
      <4> QED
        BY <3>3, <4>1 DEF LookupFails, Goes, Answers
    <3> QED
      BY <2>2, <3>2, <3>3 DEF DnsCallback
  <2>3. CASE http_post(r)
    <3>1. CASE Connect(r, first)
      <4>1. first \cup {"conn", "tcp"} \in SUBSET Blocks
        BY <2>1 DEF Blocks
      <4> QED
        BY <3>1, <4>1 DEF Connect, Goes
    <3>2. CASE LookupFails(r, first)
      <4>1. first \ {"req"} \in SUBSET Blocks /\ "headers" \in first \ {"req"}
        BY <2>1
      <4> QED
        BY <3>2, <4>1 DEF LookupFails, Goes, Answers
    <3>3. CASE Goes(r, "rejected") /\ UNCHANGED <<owned, answer>>
      <4>1. owned[r] \in SUBSET Blocks /\ owned = [owned EXCEPT ![r] = owned[r]]
        BY <2>1
      <4> QED
        BY <3>3, <4>1 DEF Goes
    <3>4. CASE Goes(r, "lookup") /\ owned' = [owned EXCEPT ![r] = first] /\ UNCHANGED answer
      BY <2>1, <3>4 DEF Goes
    <3> QED
      BY <2>3, <3>1, <3>2, <3>3, <3>4 DEF http_post
  <2> QED
    BY <2>2, <2>3
<1>4. TypeOK'
  BY <1>1, <1>3 DEF IInv, TypeOK
<1>5. WholeIsInOrder'
  BY <1>1 DEF IInv, WholeIsInOrder
<1>6. Phases'
  BY <1>1, <1>2, <1>3 DEF IInv, TypeOK, Phases
<1>7. NothingLeft'
  BY <1>3 DEF IInv, TypeOK, NothingLeft
<1> QED
  BY <1>4, <1>5, <1>6, <1>7 DEF IInv

LEMMA UpStep ==
  ASSUME IInv, NEW r \in Requests, connect_callback(r) \/ sent_callback(r)
  PROVE  IInv'
<1>1. UNCHANGED <<buffer, cut, heard, answer>>
  BY DEF connect_callback, sent_callback
<1>2. PICK p \in {"up", "closing"}, block \in Blocks :
        /\ phase[r] # "done"
        /\ phase' = [phase EXCEPT ![r] = p]
        /\ owned' = [owned EXCEPT ![r] = @ \ {block}]
  <2>1. CASE connect_callback(r)
    BY <2>1 DEF connect_callback, Goes, Blocks
  <2>2. CASE sent_callback(r)
    <3>1. phase' = [phase EXCEPT ![r] = phase[r]] /\ phase[r] \in {"up", "closing"}
      BY <2>2 DEF sent_callback, IInv, TypeOK
    <3> QED
      BY <2>2, <3>1 DEF sent_callback, Blocks
  <2> QED
    BY <2>1, <2>2
<1>3. TypeOK'
  BY <1>1, <1>2 DEF IInv, TypeOK
<1>4. WholeIsInOrder' /\ Phases'
  BY <1>1, <1>2 DEF IInv, TypeOK, WholeIsInOrder, Phases
<1>5. NothingLeft'
  BY <1>2 DEF IInv, TypeOK, NothingLeft
<1> QED
  BY <1>3, <1>4, <1>5 DEF IInv

\* A segment is appended, or dropped: then the response is cut, unless there is
\* nothing yet that could be.
LEMMA ReceiveStep ==
  ASSUME IInv, NEW r \in Requests, receive_callback(r)
  PROVE  IInv'
<1> USE SegmentsAssumption
<1>1. /\ phase[r] \in {"up", "closing"} /\ heard[r] < Segments
      /\ heard' = [heard EXCEPT ![r] = heard[r] + 1]
      /\ UNCHANGED <<owned, answer>>
  BY DEF receive_callback
<1>2. /\ heard[r] \in 0 .. Segments /\ buffer[r] \in Seq(1 .. Segments)
      /\ Len(buffer[r]) \in Nat /\ answer[r] = 0
      /\ heard'[r] = heard[r] + 1 /\ heard'[r] \in 1 .. Segments
  BY <1>1 DEF IInv, TypeOK, Phases
<1>3. CASE /\ Len(buffer[r]) < MaxSegments
           /\ buffer' = [buffer EXCEPT ![r] = Append(@, heard'[r])]
           /\ UNCHANGED <<phase, cut>>
  <2> DEFINE more == Append(buffer[r], heard'[r])
  <2>1. /\ more \in Seq(1 .. Segments) /\ Len(more) = Len(buffer[r]) + 1 /\ more # <<>>
        /\ \A i \in 1 .. Len(buffer[r]) : more[i] = buffer[r][i]
        /\ more[Len(buffer[r]) + 1] = heard[r] + 1
    BY <1>2
  <2>2. buffer' = [buffer EXCEPT ![r] = more] /\ buffer'[r] = more
    BY <1>3 DEF IInv, TypeOK
  <2> HIDE DEF more
  <2>3. TypeOK'
    BY <1>1, <1>2, <1>3, <2>1, <2>2 DEF IInv, TypeOK
  <2>4. ASSUME ~cut'[r], buffer'[r][1] = 1
        PROVE  Len(more) = heard'[r] /\ \A i \in 1 .. Len(more) : more[i] = i
    <3>1. CASE buffer[r] = <<>>
      BY <1>2, <2>1, <2>2, <2>4, <3>1
    <3>2. CASE buffer[r] # <<>>
      <4>1. Len(buffer[r]) > 0 /\ buffer[r][1] = 1 /\ ~cut[r]
        BY <1>2, <1>3, <2>1, <2>2, <2>4, <3>2
      <4>2. Len(buffer[r]) = heard[r] /\ \A i \in 1 .. Len(buffer[r]) : buffer[r][i] = i
        BY <3>2, <4>1 DEF IInv, WholeIsInOrder
      <4>3. Len(more) = heard'[r]
        BY <1>2, <2>1, <4>2
      <4>4. ASSUME NEW i \in 1 .. Len(more) PROVE more[i] = i
        <5>1. i \in 1 .. Len(buffer[r]) \/ i = Len(buffer[r]) + 1
          BY <1>2, <2>1
        <5> QED
          BY <2>1, <4>2, <5>1
      <4> QED
        BY <4>3, <4>4
    <3> QED
      BY <3>1, <3>2
  <2>5. WholeIsInOrder'
    BY <1>1, <1>3, <2>2, <2>4 DEF IInv, TypeOK, WholeIsInOrder
  <2>6. Phases'
    BY <1>1, <1>2, <1>3, <2>1, <2>2 DEF IInv, TypeOK, Phases
  <2>7. NothingLeft'
    BY <1>1, <1>3 DEF IInv, NothingLeft
  <2> QED
    BY <2>3, <2>5, <2>6, <2>7 DEF IInv
<1>4. CASE /\ cut' = [cut EXCEPT ![r] = buffer[r] # <<>>]
           /\ Goes(r, "closing")
           /\ UNCHANGED buffer
  <2>1. phase' = [phase EXCEPT ![r] = "closing"]
    BY <1>4 DEF Goes
  <2>2. cut' \in [Requests -> BOOLEAN]
    BY <1>4, Zenon DEF IInv, TypeOK
  <2>3. TypeOK'
    BY <1>1, <1>2, <1>4, <2>1, <2>2 DEF IInv, TypeOK
  <2>4. cut'[r] <=> buffer[r] # <<>>
    BY <1>4, Zenon DEF IInv, TypeOK
  <2>5. \A s \in Requests \ {r} : cut'[s] = cut[s]
    BY <1>4 DEF IInv, TypeOK
  <2>6. WholeIsInOrder'
    BY <1>1, <1>4, <2>4, <2>5 DEF IInv, TypeOK, WholeIsInOrder
  <2>7. Phases'
    BY <1>1, <1>2, <1>4, <2>1, <2>5 DEF IInv, TypeOK, Phases
  <2>8. NothingLeft'
    BY <1>1, <2>1 DEF IInv, TypeOK, NothingLeft
  <2> QED
    BY <2>3, <2>6, <2>7, <2>8 DEF IInv
<1> QED
  BY <1>3, <1>4 DEF receive_callback

\* The answer is a status only for a response that begins as one.
LEMMA EndStep ==
  ASSUME IInv, NEW r \in Requests, disconnect_callback(r)
  PROVE  IInv'
<1>1. /\ phase' = [phase EXCEPT ![r] = "done"]
      /\ owned' = [owned EXCEPT ![r] = @ \ {"buffer", "hostname", "path", "req", "conn", "tcp"}]
      /\ UNCHANGED <<buffer, cut, heard>>
  BY DEF disconnect_callback, Goes
<1>2. PICK s \in Statuses \cup {-1} :
        /\ answer' = [answer EXCEPT ![r] = s]
        /\ s > 0 => buffer[r] # <<>> /\ ~cut[r] /\ buffer[r][1] = 1
  BY DEF disconnect_callback, Answers
<1>3. TypeOK'
  BY <1>1, <1>2 DEF IInv, TypeOK
<1>4. WholeIsInOrder' /\ Phases'
  BY <1>1, <1>2 DEF IInv, TypeOK, WholeIsInOrder, Phases
<1>5. NothingLeft'
  <2>1. owned[r] \subseteq Blocks
    BY DEF IInv, TypeOK
  <2>2. owned'[r] \subseteq {"headers", "post"}
    BY <1>1, <2>1 DEF IInv, TypeOK, Blocks
  <2> QED
    BY <1>1, <2>2 DEF IInv, TypeOK, NothingLeft
<1> QED
  BY <1>3, <1>4, <1>5 DEF IInv

LEMMA Invariance == Spec => []IInv
<1>1. ASSUME IInv, UNCHANGED vars PROVE IInv'
  <2> USE <1>1 DEF vars
  <2>1. TypeOK'
    BY DEF IInv, TypeOK
  <2>2. WholeIsInOrder'
    BY DEF IInv, WholeIsInOrder
  <2>3. Phases' /\ NothingLeft'
    BY DEF IInv, Phases, NothingLeft
  <2> QED
    BY <2>1, <2>2, <2>3 DEF IInv
<1>2. IInv /\ [Next]_vars => IInv'
  BY <1>1, StartStep, UpStep, ReceiveStep, EndStep DEF Next
<1> QED
  BY <1>2, InitIInv, PTL DEF Spec

\* Every piece of a request keeps its type; the buffer stays within its limit.
THEOREM TypeCorrect == Spec => []TypeOK
  BY Invariance, PTL DEF IInv

\* No response with a hole reaches a caller, wherever memory ran out.
THEOREM NeverAHole == Spec => []AnswerHasNoHole
<1>1. IInv => AnswerHasNoHole
  BY DEF IInv, WholeIsInOrder, Phases, AnswerHasNoHole
<1> QED
  BY <1>1, Invariance, PTL

\* A request that got out in full frees all it allocated.
THEOREM NothingEverLeft == Spec => []NothingLeft
  BY Invariance, PTL DEF IInv

\* Every request is answered at most once, with a status only if the server said
\* so: the callbacks implement HttpRequests.
THEOREM RequestsImplemented == Spec => RefinesRequests
<1> DEFINE Open == {r \in Requests : phase[r] \in {"lookup", "connecting", "up", "closing"}}
<1>1. Init => Abstract!Init
  BY DEF Init, Abstract!Init
<1>2. IInv /\ [Next]_vars => [Abstract!Next]_<<Open, heard, answer>>
  <2>1. CASE UNCHANGED vars
    BY <2>1 DEF vars
  <2>2. ASSUME IInv, NEW r \in Requests, http_post(r)
        PROVE  [Abstract!Next]_<<Open, heard, answer>>
    <3>1. r \notin Open /\ answer[r] = 0 /\ UNCHANGED heard
      BY <2>2 DEF http_post, IInv, Phases
    <3>2. CASE Goes(r, "rejected") /\ UNCHANGED answer
      BY <2>2, <3>1, <3>2 DEF Goes, IInv, TypeOK, http_post
    <3>3. CASE UNCHANGED answer /\ \E p \in {"connecting", "lookup"} : Goes(r, p)
      <4>1. PICK p \in {"connecting", "lookup"} : phase' = [phase EXCEPT ![r] = p]
        BY <3>3 DEF Goes
      <4>2. Open' = Open \cup {r}
        BY <2>2, <4>1 DEF IInv, TypeOK
      <4> QED
        BY <3>1, <3>3, <4>2 DEF Abstract!Next, Abstract!Start
    <3>4. CASE Goes(r, "done") /\ Answers(r, -1)
      <4>1. Open' = Open
        BY <3>1, <3>4 DEF Goes, IInv, TypeOK
      <4> QED
        BY <3>1, <3>4, <4>1 DEF Answers, Abstract!Next, Abstract!StartFails
    <3> QED
      BY <2>2, <3>2, <3>3, <3>4 DEF http_post, Connect, LookupFails
  <2>3. ASSUME IInv, NEW r \in Requests, DnsCallback(r)
        PROVE  [Abstract!Next]_<<Open, heard, answer>>
    <3>1. r \in Open /\ UNCHANGED heard
      BY <2>3 DEF DnsCallback
    <3>2. CASE UNCHANGED answer /\ Goes(r, "connecting")
      BY <3>1, <3>2 DEF Goes, IInv, TypeOK
    <3>3. CASE Goes(r, "done") /\ Answers(r, -1)
      <4>1. Open' = Open \ {r}
        BY <2>3, <3>1, <3>3 DEF Goes, IInv, TypeOK
      <4> QED
        BY <3>1, <3>3, <4>1 DEF Answers, Abstract!Next, Abstract!Answer
    <3> QED
      BY <2>3, <3>2, <3>3 DEF DnsCallback, Connect, LookupFails
  <2>4. ASSUME IInv, NEW r \in Requests, connect_callback(r) \/ sent_callback(r)
        PROVE  UNCHANGED <<Open, heard, answer>>
    BY <2>4 DEF connect_callback, sent_callback, Goes, IInv, TypeOK
  <2>5. ASSUME IInv, NEW r \in Requests, receive_callback(r)
        PROVE  Abstract!Next
    <3>1. r \in Open /\ heard' = [heard EXCEPT ![r] = heard[r] + 1] /\ UNCHANGED answer
      BY <2>5 DEF receive_callback
    <3>2. Open' = Open
      BY <2>5 DEF receive_callback, Goes, IInv, TypeOK
    <3> QED
      BY <3>1, <3>2 DEF Abstract!Next, Abstract!Hear
  <2>6. ASSUME IInv, NEW r \in Requests, disconnect_callback(r)
        PROVE  Abstract!Next
    <3>1. r \in Open /\ UNCHANGED heard
      BY <2>6 DEF disconnect_callback
    <3>2. Open' = Open \ {r}
      BY <2>6 DEF disconnect_callback, Goes, IInv, TypeOK
    <3>3. \/ answer' = [answer EXCEPT ![r] = -1]
          \/ heard[r] > 0 /\ \E s \in Statuses : answer' = [answer EXCEPT ![r] = s]
      BY <2>6 DEF disconnect_callback, Answers, IInv, Phases
    <3> QED
      BY <3>1, <3>2, <3>3 DEF Abstract!Next, Abstract!Answer
  <2> QED
    BY <2>1, <2>2, <2>3, <2>4, <2>5, <2>6 DEF Next
<1> QED
  BY <1>1, <1>2, Invariance, PTL DEF Spec, RefinesRequests, Abstract!Spec
=============================================================================
