----------------------------- MODULE Http_proofs -----------------------------
(***************************************************************************)
(* The HTTP client and server over their connections: requests in flight   *)
(* are counted exactly, the server answers in step, and what send()        *)
(* returns answers its request, for any number of callers, connections,    *)
(* requests and redirects.  Then their messages: plain bodies, ranges and  *)
(* forms, for contents and pieces of any length.                           *)
(***************************************************************************)
EXTENDS Http, HttpMessages, SequenceLemmas, FiniteSetTheorems, SequenceTheorems, TLAPS

\* No caller has been given a connection that is in use, no handler has left a
\* body unread, and no 417 was written.
Clear(c) == spoiled[c] \cap {"overlap", "unread", "417"} = {}

\* The caller exchanges a request and its answer on the connection, or returns
\* that answer.
Busy == {"write", "body", "answer", "content", "drain", "failed", "handle", "after"}
Uses(k, c) == on[k] = c /\ (pc[k] \in Busy \/ (pc[k] = "exit" /\ ret[k]))

\* The connection's task has a request that it has not answered.
Working(c) == serving[c] \in {"expect", "routing", "respond"}

\* Nothing is left of an earlier exchange.
Quiet(c) == up[c] = <<>> /\ down[c] = <<>> /\ ~Working(c)

\* The server reads no more requests; nothing that it writes arrives any more.
Deafened(c) ==
  \/ serving[c] \in {"close", "over"}
  \/ serving[c] \in {"none", "line"} /\ serverEnd[c] = "closed"
Mute(c) ==
  clientEnd[c] # "open" \/ serverEnd[c] \in {"cancelled", "closed"} \/ serving[c] \in {"close", "over"}

\* The request is on its way to the server, or in its hands, and so is its body
\* unless that was read or lost.
H(r) == [t |-> "head", of |-> r]
B == [t |-> "body"]
UnderWay(c, r) ==
  IF Working(c)
  THEN req[c] = r /\ (up[c] = <<>> \/ (left[c] /\ up[c] = <<B>>))
  ELSE serving[c] \in {"none", "line"} /\ (up[c] = <<H(r)>> \/ (r.body /\ up[c] = <<H(r), B>>))

\* The same while the body has still to be written.
BodyAwaited(c, r) ==
  IF Working(c)
  THEN req[c] = r /\ left[c] /\ up[c] = <<>>
  ELSE serving[c] \in {"none", "line"} /\ up[c] = <<H(r)>>

Reaches(k) == IF pc[k] = "body" THEN BodyAwaited(on[k], cur[k]) ELSE UnderWay(on[k], cur[k])

\* The next answer to be read, behind n 100s, is to the request.
AnswerNext(d, id, n) ==
  /\ n = 1 => d # <<>> /\ d[1].t = "continue"
  /\ Len(d) > n /\ d[n + 1].t = "answer" /\ d[n + 1].id = id

\* The answer is not there yet, and the server works on it if it can; or it is
\* there, and says that the connection is to be closed or is all there is.
Unanswered(k) ==
  /\ \/ down[on[k]] = <<>>
     \/ /\ Len(down[on[k]]) = 1 /\ down[on[k]][1].t = "continue"
        /\ Mute(on[k]) \/ serving[on[k]] \in {"routing", "respond"}
  /\ Mute(on[k]) \/ Reaches(k)
NoContent(k, s) == cur[k].method = "HEAD" \/ s = "not modified"
IsAll(k, n) ==
  /\ pc[k] = "answer" /\ up[on[k]] = <<>> /\ ~Working(on[k])
  /\ IF NoContent(k, down[on[k]][n + 1].status) THEN Len(down[on[k]]) = n + 1
     ELSE \/ Len(down[on[k]]) = n + 2
          \/ Len(down[on[k]]) = n + 1 /\ Mute(on[k])
AnswerIsNext(k) ==
  \E n \in {0, 1} :
    /\ AnswerNext(down[on[k]], cur[k].id, n)
    /\ down[on[k]][n + 1].close \/ IsAll(k, n)

\* How far a caller is with its exchange on a clear connection.
ExchangeInv(k) ==
  /\ pc[k] # "drain"
  /\ pc[k] = "write" => Quiet(on[k])
  /\ pc[k] \in {"body", "answer"} => Unanswered(k) \/ AnswerIsNext(k)
  /\ pc[k] = "body" =>
       Error \in ToSet(answered[on[k]]) \/ Deafened(on[k]) \/ BodyAwaited(on[k], cur[k])
  /\ pc[k] \in {"content", "after", "handle"} \/ (pc[k] = "exit" /\ ret[k]) => got[k].id = cur[k].id
  /\ pc[k] = "content" =>
       \/ got[k].close
       \/ /\ up[on[k]] = <<>> /\ ~Working(on[k])
          /\ Len(down[on[k]]) = 1 \/ (down[on[k]] = <<>> /\ Mute(on[k]))
  /\ pc[k] = "after" => got[k].close \/ Quiet(on[k])
  /\ pc[k] = "exit" /\ ret[k] /\ socket_ = on[k] => Quiet(on[k])

\* The server has answered the requests of a clear connection up to the first
\* error, but for the one that is under way.
AskedOn(c) == IF Working(c) THEN req[c] ELSE up[c][1].of
AnsweredInStep(c) ==
  \A i \in DOMAIN answered[c] :
    IF answered[c][i] = Error THEN i = Len(answered[c])
    ELSE i \in DOMAIN sent[c] /\ answered[c][i] = sent[c][i]
NextInStep(c) ==
  \/ Deafened(c)
  \/ up[c] = <<>> /\ ~Working(c) /\ answered[c] = sent[c]
  \/ /\ up[c] = <<>> => Working(c)
     /\ UnderWay(c, AskedOn(c))
     /\ Append(answered[c], AskedOn(c).id) = sent[c]
Sole(c) == \A j, k \in Callers : Uses(j, c) /\ Uses(k, c) => j = k
ConnectionInv(c) ==
  /\ Sole(c)
  /\ AnsweredInStep(c)
  /\ Error \notin ToSet(answered[c]) => NextInStep(c)
  /\ \A k \in Callers : on[k] = c => ExchangeInv(k)
  /\ socket_ = c /\ ~InUse(c) => Quiet(c)

\* What holds of clear connections.
WireInv == \A c \in Conns : Clear(c) => ConnectionInv(c)

\* A connection that is not made yet.
Fresh(c) ==
  clientEnd[c] = "none" =>
    /\ up[c] = <<>> /\ down[c] = <<>> /\ sent[c] = <<>> /\ answered[c] = <<>>
    /\ serving[c] = "none" /\ socket_ # c /\ \A k \in Callers : on[k] # c

\* A task serves an accepted connection, and answers a request whose body it
\* has not read with an error.
ServingInv ==
  /\ \A c \in Conns : serving[c] # "none" => clientEnd[c] # "none" /\ serverEnd[c] # "none"
  /\ listen = "push" =>
       /\ accepted \in Conns /\ clientEnd[accepted] # "none"
       /\ serverEnd[accepted] # "none" /\ serving[accepted] = "none"
  /\ \A c \in Conns : serving[c] = "respond" /\ left[c] /\ Clear(c) => status[c] = "error"

\* Where a caller can be, with what.
CallerInv(k) ==
  /\ pc[k] = "idle" => depth[k] = 0 /\ on[k] = 0 /\ ~cur[k].stream
  /\ pc[k] # "idle" => cur[k] \in Requests
  /\ cur[k].stream =>
       /\ depth[k] = 0
       /\ pc[k] \in {"lock", "connect", "write", "body", "answer", "failed", "handle"}
       /\ pc[k] \in Busy => on[k] # socket_
  /\ pc[k] = "handle" => cur[k].stream
  /\ pc[k] = "body" => cur[k].body
  /\ pc[k] # "exit" => ~ret[k]
  /\ pc[k] \in Busy \/ ret[k] => on[k] # 0

MutexInv ==
  /\ socket_mutex_ = {k \in Callers : pc[k] = "connect"}
  /\ \A j, k \in socket_mutex_ : j = k

\* The inductive invariant.
ControlInv ==
  /\ TypeOK
  /\ \A c \in Conns : Fresh(c)
  /\ ServingInv
  /\ \A k \in Callers : CallerInv(k)
  /\ MutexInv
  /\ socket_requests_in_flight_ = Cardinality(InFlight)
IInv == ControlInv /\ WireInv

-----------------------------------------------------------------------------
(***************************************************************************)
(* Units in sequences, and types.                                          *)
(***************************************************************************)
\* Taking the first unit, and adding units at the end.
LEMMA UnitsSent ==
  ASSUME NEW S, NEW s \in Seq(S)
  PROVE  /\ Len(s) \in Nat /\ DOMAIN s = 1 .. Len(s)
         /\ s # <<>> => /\ Head(s) \in S /\ Head(s) = s[1] /\ Len(s) > 0
                       /\ Tail(s) \in Seq(S) /\ Len(Tail(s)) = Len(s) - 1
                       /\ \A i \in 1 .. Len(s) - 1 : Tail(s)[i] = s[i + 1]
         /\ \A e \in S : Append(s, e) \in Seq(S) /\ <<e>> \in Seq(S)
         /\ \A t \in Seq(S) : s \o t \in Seq(S)
  BY HeadTailProperties, AppendProperties, ConcatProperties, LenProperties, EmptySeq

\* The server's end of connections, and what was not read, are closed.
LEMMA Closes ==
  ASSUME TypeOK, NEW closed, NEW cancelled, ServerCloses(closed, cancelled)
  PROVE  /\ serverEnd' \in [Conns -> {"none", "open", "cancelled", "closed"}]
         /\ up' \in [Conns -> Seq(UpUnits)]
         /\ \A c \in Conns :
              /\ c \in closed => serverEnd'[c] = "closed" /\ up'[c] = <<>>
              /\ c \notin closed => up'[c] = up[c]
              /\ c \in cancelled \ closed => serverEnd'[c] = "cancelled"
              /\ c \notin closed \cup cancelled => serverEnd'[c] = serverEnd[c]
<1>1. <<>> \in Seq(UpUnits)
  BY EmptySeq
<1> QED
  BY <1>1 DEF ServerCloses, TypeOK, ConnectionsTypeOK

\* listen_async and stop() keep the types.
LEMMA ListenTypes ==
  ASSUME TypeOK, ServingInv, UNCHANGED clientVars, ListenAsync \/ Stop
  PROVE  TypeOK'
<1> USE DEF TypeOK, listenVars, servingVars, connectionVars
<1>1. ClientTypeOK'
  BY DEF clientVars, sharedVars, callerVars, ClientTypeOK
<1>2. CASE Bind
  BY <1>1, <1>2 DEF Bind, Listen, ConnectionsTypeOK, ServerTypeOK
<1>3. CASE Start \/ EnterLoop \/ AcceptThrows \/ ShutdownTasks
  BY <1>1, <1>3 DEF Start, EnterLoop, AcceptThrows, ShutdownTasks, Listen, ConnectionsTypeOK, ServerTypeOK
<1>4. CASE Accept
  <2>1. PICK c \in Backlog :
          /\ accepted' = c
          /\ IF listening = "open"
             THEN serverEnd' = [serverEnd EXCEPT ![c] = "open"] /\ UNCHANGED <<listening, up>>
             ELSE /\ listening' = "closed"
                  /\ serverEnd' = [d \in Conns |-> IF d = c THEN "open" ELSE IF d \in Backlog THEN "closed" ELSE serverEnd[d]]
                  /\ up' = [d \in Conns |-> IF d \in Backlog \ {c} THEN <<>> ELSE up[d]]
    BY <1>4 DEF Accept
  <2>2. <<>> \in Seq(UpUnits) /\ c \in Conns
    BY EmptySeq DEF Backlog
  <2>3. /\ serverEnd' \in [Conns -> {"none", "open", "cancelled", "closed"}]
        /\ up' \in [Conns -> Seq(UpUnits)]
        /\ listening' \in {"none", "open", "cancelled", "closed"}
    <3>1. CASE listening = "open"
      BY <2>1, <2>2, <3>1 DEF ConnectionsTypeOK
    <3>2. CASE listening # "open"
      BY <2>1, <2>2, <3>2 DEF ConnectionsTypeOK
    <3> QED
      BY <3>1, <3>2
  <2>4. UNCHANGED <<is_running_, clients_, late, servingVars, setup, clientEnd, down, sent, answered, spoiled>>
    BY <1>4 DEF Accept
  <2>5. ConnectionsTypeOK'
    BY <2>3, <2>4 DEF ConnectionsTypeOK
  <2>6. ServerTypeOK'
    BY <2>1, <2>2, <2>4 DEF ServerTypeOK
  <2> QED
    BY <1>1, <2>5, <2>6
<1>5. CASE PushClient
  <2>1. accepted \in Conns
    BY <1>5 DEF PushClient, Listen, ServingInv
  <2> QED
    BY <1>1, <1>5, <2>1 DEF PushClient, Listen, ConnectionsTypeOK, ServerTypeOK
<1>6. CASE StopExchange
  BY <1>1, <1>6 DEF StopExchange, ConnectionsTypeOK, ServerTypeOK
<1>7. CASE StopCloses
  <2>1. listening' \in {"cancelled", "closed"}
    BY <1>7 DEF StopCloses
  <2> QED
    BY <1>1, <1>7, <2>1, Closes DEF StopCloses, ConnectionsTypeOK, ServerTypeOK
<1>8. CASE StopCancels
  BY <1>1, <1>8, Closes DEF StopCancels, ConnectionsTypeOK, ServerTypeOK
<1> QED
  BY <1>2, <1>3, <1>4, <1>5, <1>6, <1>7, <1>8 DEF ListenAsync, Stop

\* What the server writes is lost, or is added to what the client has to read.
LEMMA Writes ==
  ASSUME TypeOK, NEW c \in Conns, NEW units \in Seq(DownUnits), ServerWrites(c, units)
  PROVE  /\ down' \in [Conns -> Seq(DownUnits)]
         /\ \A d \in Conns : d # c => down'[d] = down[d]
         /\ down'[c] = IF serverEnd[c] = "open" /\ clientEnd[c] = "open" THEN down[c] \o units ELSE down[c]
<1>1. down[c] \o units \in Seq(DownUnits)
  BY UnitsSent DEF TypeOK, ConnectionsTypeOK
<1> QED
  BY <1>1 DEF ServerWrites, TypeOK, ConnectionsTypeOK

\* What the server reads is the first unit that is there.
LEMMA Reads ==
  ASSUME TypeOK, NEW c \in Conns, ServerReads(c)
  PROVE  /\ up[c] # <<>> /\ Head(up[c]) \in UpUnits /\ serverEnd[c] \in {"open", "cancelled"}
         /\ up' \in [Conns -> Seq(UpUnits)]
         /\ serverEnd' \in [Conns -> {"none", "open", "cancelled", "closed"}]
         /\ \A d \in Conns : d # c => up'[d] = up[d] /\ serverEnd'[d] = serverEnd[d]
         /\ up'[c] = IF serverEnd[c] = "open" THEN Tail(up[c]) ELSE <<>>
         /\ serverEnd'[c] = IF serverEnd[c] = "open" THEN "open" ELSE "closed"
<1>1. up[c] \in Seq(UpUnits) /\ up[c] # <<>> /\ <<>> \in Seq(UpUnits)
  BY EmptySeq DEF TypeOK, ConnectionsTypeOK, ServerReads, ServerHas
<1>2. Head(up[c]) \in UpUnits /\ Tail(up[c]) \in Seq(UpUnits)
  BY <1>1, UnitsSent
<1> QED
  BY <1>1, <1>2 DEF TypeOK, ConnectionsTypeOK, ServerReads, ServerHas

\* What a task works on has the number of a request, or 0.
LEMMA RequestId == ASSUME TypeOK, NEW c \in Conns PROVE req[c].id \in Nat
<1>1. req[c] \in Requests \cup {NoRequest}
  BY DEF TypeOK, ServerTypeOK
<1>2. NoRequest.id = 0
  BY DEF NoRequest
<1>3. CASE req[c] \in Requests
  BY <1>3 DEF Requests
<1> QED
  BY <1>1, <1>2, <1>3

\* What the server writes of an answer.
LEMMA AnswerUnits ==
  ASSUME TypeOK, NEW c \in Conns
  PROVE  /\ AnswerHead(c) \in Answers /\ AnswerHead(c) \in DownUnits
         /\ <<AnswerHead(c)>> \in Seq(DownUnits) /\ AnswerContent(c) \in Seq(DownUnits)
         /\ <<AnswerHead(c)>> \o AnswerContent(c) \in Seq(DownUnits)
<1>1. req[c].id \in Nat /\ connection_closed[c] \in BOOLEAN
      /\ status[c] \in {"none", "ok", "moved", "not modified", "error"}
  BY RequestId DEF TypeOK, ServerTypeOK
<1>2. AnswerHead(c) \in Answers
  BY <1>1 DEF AnswerHead, Answers
<1>3. AnswerHead(c) \in DownUnits /\ [t |-> "content"] \in DownUnits
  BY <1>2 DEF DownUnits
<1>4. <<AnswerHead(c)>> \in Seq(DownUnits) /\ AnswerContent(c) \in Seq(DownUnits)
  BY <1>3, EmptySeq, UnitsSent DEF AnswerContent
<1> QED
  BY <1>2, <1>3, <1>4, UnitsSent

\* The tasks of the connections keep the types.
LEMMA RequestTypes ==
  ASSUME TypeOK, UNCHANGED clientVars, NEW c \in Conns, ProcessRequest(c)
  PROVE  TypeOK'
<1> USE DEF TypeOK, listenVars, connectionVars
<1>1. ClientTypeOK'
  BY DEF clientVars, sharedVars, callerVars, ClientTypeOK
<1>2. CASE ReadRequest(c)
  <2> DEFINE unit == Head(up[c])
  <2>1. /\ unit \in UpUnits /\ up' \in [Conns -> Seq(UpUnits)]
        /\ serverEnd' \in [Conns -> {"none", "open", "cancelled", "closed"}]
    BY <1>2, Reads DEF ReadRequest
  <2>2. unit.t = "head" => unit.of \in Requests /\ unit.of.body \in BOOLEAN /\ unit.of.close \in BOOLEAN
    BY <2>1 DEF UpUnits, Requests
  <2>3. /\ req' = [req EXCEPT ![c] = IF unit.t = "head" THEN unit.of ELSE NoRequest]
        /\ left' = [left EXCEPT ![c] = unit.t = "head" /\ unit.of.body]
        /\ connection_closed' = [connection_closed EXCEPT ![c] = unit.t = "head" /\ unit.of.close]
        /\ UNCHANGED <<listenVars, setup, listening, clientEnd, down, sent, answered, spoiled>>
    BY <1>2 DEF ReadRequest, IsRequestLine
  <2>4. /\ serving' \in [Conns -> {"none", "line", "expect", "routing", "respond", "close", "over"}]
        /\ status' \in [Conns -> {"none", "ok", "moved", "not modified", "error"}]
    BY <1>2 DEF ReadRequest, WillAnswer, Serve, ServerTypeOK
  <2> HIDE DEF unit
  <2>5. ServerTypeOK'
    BY <2>2, <2>3, <2>4 DEF ServerTypeOK
  <2> QED
    BY <1>1, <2>1, <2>3, <2>5 DEF ConnectionsTypeOK
<1>3. CASE NoRequestLine(c) \/ ExpectRefused(c) \/ ReadContentFails(c)
  BY <1>1, <1>3 DEF NoRequestLine, ExpectRefused, ReadContentFails, WillAnswer, Serve,
     ConnectionsTypeOK, ServerTypeOK
<1>4. CASE Expect(c)
  <2>1. PICK code \in {"continue", "417"} :
          /\ ServerWrites(c, <<[t |-> code, id |-> req[c].id]>>)
          /\ Spoil(c, {code} \ {"continue"})
    BY <1>4 DEF Expect
  <2>2. <<[t |-> code, id |-> req[c].id]>> \in Seq(DownUnits)
    <3>1. req[c].id \in Nat
      BY RequestId
    <3>2. [t |-> code, id |-> req[c].id] \in DownUnits
      BY <3>1 DEF DownUnits
    <3> QED
      BY <3>2, EmptySeq, UnitsSent
  <2>3. down' \in [Conns -> Seq(DownUnits)]
    BY <2>1, <2>2, Writes
  <2>4. spoiled' \in [Conns -> SUBSET {"overlap", "unread", "417", "short"}]
    BY <2>1 DEF Spoil, ConnectionsTypeOK
  <2> QED
    BY <1>1, <1>4, <2>3, <2>4 DEF Expect, Serve, ConnectionsTypeOK, ServerTypeOK
<1>5. CASE RouteUnread(c) \/ Dispatch(c)
  <2>1. PICK what \in {"ok", "moved", "not modified", "error"} : WillAnswer(c, "routing", what)
    BY <1>5 DEF RouteUnread, Dispatch, FileOutcomes, HandlerOutcomes
  <2>2. UNCHANGED <<listenVars, req, left, connection_closed, setup, listening, clientEnd, serverEnd,
                    up, down, sent, answered>>
    BY <1>5 DEF RouteUnread, Dispatch
  <2>3. spoiled' \in [Conns -> SUBSET {"overlap", "unread", "417", "short"}]
    <3>1. CASE Dispatch(c)
      BY <3>1 DEF Dispatch, ConnectionsTypeOK
    <3>2. CASE RouteUnread(c)
      <4>1. PICK new \in SUBSET {"unread"} : Spoil(c, new)
        BY <3>2 DEF RouteUnread
      <4> QED
        BY <4>1 DEF Spoil, ConnectionsTypeOK
    <3> QED
      BY <1>5, <3>1, <3>2
  <2> QED
    BY <1>1, <2>1, <2>2, <2>3 DEF WillAnswer, Serve, ConnectionsTypeOK, ServerTypeOK
<1>6. CASE ReadContent(c)
  BY <1>1, <1>6, Reads DEF ReadContent, ConnectionsTypeOK, ServerTypeOK
<1>7. CASE WriteResponse(c) \/ WriteResponseFails(c)
  <2>1. ServerTypeOK'
    BY <1>7 DEF WriteResponse, WriteResponseFails, Returned, Serve, ServerTypeOK
  <2>2. down' \in [Conns -> Seq(DownUnits)]
    BY <1>7, AnswerUnits, Writes DEF WriteResponse, WriteResponseFails
  <2>3. answered' \in [Conns -> Seq(Nat \cup {Error})]
    <3>1. <<req[c].id>> \in Seq(Nat \cup {Error}) /\ <<Error>> \in Seq(Nat \cup {Error})
      <4>1. req[c].id \in Nat \cup {Error} /\ Error \in Nat \cup {Error}
        BY RequestId
      <4> QED
        BY <4>1, EmptySeq, UnitsSent
    <3>2. answered[c] \o <<req[c].id>> \o (IF status[c] = "error" THEN <<Error>> ELSE <<>>)
            \in Seq(Nat \cup {Error})
      BY <3>1, EmptySeq, UnitsSent DEF ConnectionsTypeOK
    <3> QED
      BY <1>7, <3>2 DEF WriteResponse, WriteResponseFails, ConnectionsTypeOK
  <2> QED
    BY <1>1, <1>7, <2>1, <2>2, <2>3 DEF WriteResponse, WriteResponseFails, ConnectionsTypeOK
<1>8. CASE CloseConnection(c)
  BY <1>1, <1>8, Closes DEF CloseConnection, Serve, ConnectionsTypeOK, ServerTypeOK
<1> QED
  BY <1>2, <1>3, <1>4, <1>5, <1>6, <1>7, <1>8 DEF ProcessRequest

\* A request of the client, at its beginning or redirected.
LEMMA Begins ==
  ASSUME TypeOK, NEW k \in Callers, NEW request, Begin(k, request),
         request.method \in Methods, request.body \in BOOLEAN, request.expect \in BOOLEAN,
         request.stream \in BOOLEAN
  PROVE  /\ used' \in Nat /\ cur' \in [Callers -> Requests \cup {None}]
         /\ cur'[k] \in Requests /\ cur'[k].stream = request.stream
         /\ \A j \in Callers : j # k => cur'[j] = cur[j]
<1> DEFINE r == [id |-> used', method |-> request.method, body |-> request.body,
                 expect |-> request.expect, stream |-> request.stream,
                 close |-> ~request.stream /\ ~setup.keep_alive_]
<1>1. used' \in Nat /\ cur' = [cur EXCEPT ![k] = r]
  BY DEF Begin, TypeOK, ClientTypeOK
<1>2. r \in Requests
  BY <1>1 DEF Requests
<1>3. r.stream = request.stream
  OBVIOUS
<1> HIDE DEF r
<1> QED
  BY <1>1, <1>2, <1>3 DEF TypeOK, ClientTypeOK

\* A redirected request is a request, and no stream.
LEMMA Redirects ==
  ASSUME TypeOK, NEW k \in Callers, cur[k] \in Requests, Redirect(k)
  PROVE  /\ used' \in Nat /\ cur' \in [Callers -> Requests \cup {None}]
         /\ cur'[k] \in Requests /\ ~cur'[k].stream
         /\ \A j \in Callers : j # k => cur'[j] = cur[j]
<1> DEFINE same == [method |-> cur[k].method, body |-> cur[k].body, expect |-> cur[k].expect, stream |-> FALSE]
           get == [method |-> "GET", body |-> FALSE, expect |-> FALSE, stream |-> FALSE]
<1>1. PICK request \in {same, get} : Begin(k, request)
  BY Zenon DEF Redirect
<1>2. cur[k].method \in Methods /\ cur[k].body \in BOOLEAN /\ cur[k].expect \in BOOLEAN
  BY DEF Requests
<1>3. /\ request.method \in Methods /\ request.body \in BOOLEAN /\ request.expect \in BOOLEAN
      /\ request.stream = FALSE
  <2>1. CASE request = same
    BY <1>2, <2>1
  <2>2. CASE request = get
    BY <2>2 DEF Methods
  <2> QED
    BY <1>1, <2>1, <2>2
<1> QED
  BY <1>1, <1>3, Begins

\* What confuses a connection is not forgotten.
LEMMA Spoils ==
  ASSUME TypeOK, NEW c \in Conns, NEW what \in SUBSET {"overlap", "unread", "417", "short"},
         Spoil(c, what)
  PROVE  /\ spoiled' \in [Conns -> SUBSET {"overlap", "unread", "417", "short"}]
         /\ spoiled'[c] = spoiled[c] \cup what
         /\ \A d \in Conns : d # c => spoiled'[d] = spoiled[d]
<1>1. spoiled[c] \cup what \in SUBSET {"overlap", "unread", "417", "short"}
  BY DEF TypeOK, ConnectionsTypeOK
<1> QED
  BY <1>1 DEF Spoil, TypeOK, ConnectionsTypeOK

\* What a caller may do with its connection and the socket leaves types alone.
LEMMA CloseTypes ==
  ASSUME TypeOK, NEW c \in Conns \cup {0}, Shut(c)
  PROVE  clientEnd' \in [Conns -> {"none", "open", "closed"}]
  BY DEF Shut, TypeOK, ConnectionsTypeOK

\* A result is on its way to the caller: the caller's part of Return and Idle.
LEMMA ReturnTypes ==
  ASSUME TypeOK, NEW k \in Callers, NEW from, NEW value \in BOOLEAN,
         Return(k, from, value) \/ Idle(k, from)
  PROVE  /\ pc' \in [Callers -> {"idle", "lock", "connect", "take", "write", "body", "answer", "content",
                                "drain", "failed", "handle", "after", "exit", "crashed"}]
         /\ depth' \in [Callers -> 0 .. MaxRedirects] /\ on' \in [Callers -> Conns \cup {0}]
         /\ cur' \in [Callers -> Requests \cup {None}]
         /\ got' \in [Callers -> Answers] /\ ret' \in [Callers -> BOOLEAN]
<1>1. NoAnswer \in Answers
  BY DEF NoAnswer, Answers
<1>2. CASE Idle(k, from)
  BY <1>1, <1>2 DEF Idle, Goto, TypeOK, ClientTypeOK
<1>3. CASE Return(k, from, value) /\ ~Idle(k, from)
  <2>1. depth[k] > 0 /\ depth' = [depth EXCEPT ![k] = @ - 1] /\ depth[k] \in 0 .. MaxRedirects
    BY <1>3 DEF Return, TypeOK, ClientTypeOK
  <2>2. depth[k] - 1 \in 0 .. MaxRedirects
    BY <2>1, ClientAssumption
  <2> QED
    BY <1>3, <2>1, <2>2 DEF Return, Goto, TypeOK, ClientTypeOK
<1> QED
  BY <1>2, <1>3

\* A caller on its way to a connection keeps the types.
LEMMA SendTypes ==
  ASSUME ConnectionsAssumption, TypeOK, UNCHANGED serverVars, NEW k \in Callers,
         \/ Send(k) \/ Blocks(k) \/ Reuse(k) \/ Connect(k) \/ Connected(k)
         \/ ConnectFails(k) \/ Take(k)
  PROVE  TypeOK'
<1> USE DEF TypeOK, sharedVars, callerVars, connectionVars
<1>1. ServerTypeOK'
  BY DEF serverVars, listenVars, servingVars, ServerTypeOK
<1>2. CASE Send(k)
  <2>1. PICK request \in setup.requests : Begin(k, request)
    BY <1>2 DEF Send
  <2>2. request \in RequestType
    BY <2>1 DEF ConnectionsAssumption, ConnectionsTypeOK, SetupType
  <2>3. used' \in Nat /\ cur' \in [Callers -> Requests \cup {None}]
    BY <2>1, <2>2, Begins DEF RequestType
  <2> QED
    BY <1>1, <1>2, <2>3 DEF Send, Goto, ConnectionsTypeOK, ClientTypeOK
<1>3. CASE Blocks(k)
  BY <1>1, <1>3 DEF Blocks, ConnectionsTypeOK, ClientTypeOK
<1>4. CASE Reuse(k)
  <2>1. spoiled' \in [Conns -> SUBSET {"overlap", "unread", "417", "short"}]
    BY <1>4 DEF Reuse, Spoil, ConnectionsTypeOK
  <2>2. socket_should_be_closed_when_request_is_done_' \in BOOLEAN /\ blocked' \subseteq Callers
    BY <1>4 DEF Reuse, Forget, Locks, ClientTypeOK
  <2>3. /\ pc' \in [Callers -> {"idle", "lock", "connect", "take", "write", "body", "answer", "content",
                               "drain", "failed", "handle", "after", "exit", "crashed"}]
        /\ socket_' \in Conns \cup {0} /\ on' \in [Callers -> Conns \cup {0}]
    BY <1>4 DEF Reuse, Own, Goto, ClientTypeOK
  <2> QED
    BY <1>1, <1>4, <2>1, <2>2, <2>3 DEF Reuse, ConnectionsTypeOK, ClientTypeOK
<1>5. CASE Connect(k)
  <2>1. clientEnd' \in [Conns -> {"none", "open", "closed"}] /\ socket_' = 0
    BY <1>5, CloseTypes DEF Connect, CloseSocket, ClientTypeOK
  <2>2. socket_should_be_closed_when_request_is_done_' \in BOOLEAN /\ blocked' \subseteq Callers
    BY <1>5 DEF Connect, Forget, Locks, ClientTypeOK
  <2> QED
    BY <1>1, <1>5, <2>1, <2>2 DEF Connect, Goto, WireUnchanged, ConnectionsTypeOK, ClientTypeOK
<1>6. CASE Connected(k)
  <2>1. PICK c \in Conns : clientEnd' = [clientEnd EXCEPT ![c] = "open"] /\ Own(k, "connect", c)
    BY <1>6 DEF Connected
  <2>2. /\ pc' \in [Callers -> {"idle", "lock", "connect", "take", "write", "body", "answer", "content",
                               "drain", "failed", "handle", "after", "exit", "crashed"}]
        /\ socket_' \in Conns \cup {0} /\ on' \in [Callers -> Conns \cup {0}]
    BY <2>1 DEF Own, Goto, ClientTypeOK
  <2> QED
    BY <1>1, <1>6, <2>1, <2>2 DEF Connected, WireUnchanged, ConnectionsTypeOK, ClientTypeOK
<1>7. CASE ConnectFails(k)
  BY <1>1, <1>7, ReturnTypes DEF ConnectFails, ConnectionsTypeOK, ClientTypeOK
<1>8. CASE Take(k)
  <2>1. spoiled' \in [Conns -> SUBSET {"overlap", "unread", "417", "short"}]
    <3>1. CASE socket_ # 0 /\ InUse(socket_)
      BY <1>8, <3>1, Spoils DEF Take, ClientTypeOK
    <3> QED
      BY <1>8, <3>1 DEF Take, ConnectionsTypeOK
  <2> QED
    BY <1>1, <1>8, <2>1 DEF Take, Goto, ConnectionsTypeOK, ClientTypeOK
<1> QED
  BY <1>2, <1>3, <1>4, <1>5, <1>6, <1>7, <1>8

\* What a caller reads is the first unit that is there.
LEMMA ReadsAnswer ==
  ASSUME TypeOK, NEW c \in Conns, ClientReads(c)
  PROVE  /\ down[c] \in Seq(DownUnits) /\ down[c] # <<>> /\ Head(down[c]) \in DownUnits
         /\ down' \in [Conns -> Seq(DownUnits)]
         /\ down'[c] = Tail(down[c])
         /\ \A d \in Conns : d # c => down'[d] = down[d]
<1>1. down[c] \in Seq(DownUnits) /\ down[c] # <<>>
  BY DEF TypeOK, ConnectionsTypeOK, ClientReads, ClientHas
<1>2. Head(down[c]) \in DownUnits /\ Tail(down[c]) \in Seq(DownUnits)
  BY <1>1, UnitsSent
<1> QED
  BY <1>1, <1>2 DEF TypeOK, ConnectionsTypeOK, ClientReads

\* An exchange keeps the types.
LEMMA ExchangeTypes ==
  ASSUME TypeOK, UNCHANGED serverVars, NEW k \in Callers, on[k] \in Conns,
         cur[k] \in Requests,
         WriteRequest(k) \/ WriteBody(k) \/ ReadAnswer(k) \/ ReadAnswerContent(k) \/ ReadUntilEnd(k)
  PROVE  TypeOK'
<1> USE DEF TypeOK, sharedVars, callerVars, connectionVars
<1>1. ServerTypeOK'
  BY DEF serverVars, listenVars, servingVars, ServerTypeOK
<1>2. ASSUME NEW unit \in UpUnits, ClientWrites(on[k], unit) PROVE up' \in [Conns -> Seq(UpUnits)]
  <2>1. Append(up[on[k]], unit) \in Seq(UpUnits)
    BY UnitsSent DEF ConnectionsTypeOK
  <2> QED
    BY <1>2, <2>1 DEF ClientWrites, ConnectionsTypeOK
<1>3. CASE WriteRequest(k)
  <2>1. [t |-> "head", of |-> cur[k]] \in UpUnits
    BY DEF UpUnits
  <2>2. cur[k].id \in Nat
    BY DEF Requests
  <2>3. sent' \in [Conns -> Seq(Nat)]
    BY <1>3, <2>2, UnitsSent DEF WriteRequest, ConnectionsTypeOK
  <2>4. up' \in [Conns -> Seq(UpUnits)]
    BY <1>2, <1>3, <2>1 DEF WriteRequest
  <2> QED
    BY <1>1, <1>3, <2>3, <2>4 DEF WriteRequest, Goto, ConnectionsTypeOK, ClientTypeOK
<1>4. CASE WriteBody(k)
  <2>1. [t |-> "body"] \in UpUnits
    BY DEF UpUnits
  <2>2. up' \in [Conns -> Seq(UpUnits)]
    BY <1>2, <1>4, <2>1 DEF WriteBody, ConnectionsTypeOK
  <2>3. spoiled' \in [Conns -> SUBSET {"overlap", "unread", "417", "short"}]
    BY <1>4, Spoils DEF WriteBody, ConnectionsTypeOK
  <2> QED
    BY <1>1, <1>4, <2>2, <2>3 DEF WriteBody, Goto, ConnectionsTypeOK, ClientTypeOK
<1>5. CASE ReadAnswer(k)
  <2> DEFINE unit == Head(down[on[k]])
  <2>1. unit \in DownUnits /\ down' \in [Conns -> Seq(DownUnits)]
    BY <1>5, ReadsAnswer DEF ReadAnswer
  <2>2. got' \in {got, [got EXCEPT ![k] = IF unit.t = "answer" THEN unit
                                 ELSE [NoAnswer EXCEPT !.id = unit.id, !.status = "error"]]}
        /\ (got' # got => unit.t \in {"answer", "417"})
    BY <1>5 DEF ReadAnswer
  <2>3. PICK to : Goto(k, "answer", to) /\ to \in {"answer", "failed", "handle", "after", "drain", "content"}
    BY <1>5 DEF ReadAnswer
  <2>4. UNCHANGED <<serverVars, sharedVars, blocked, stopped, used, depth, cur, on, ret, setup, listening,
                    clientEnd, serverEnd, up, sent, answered, spoiled>>
    BY <1>5 DEF ReadAnswer
  <2> HIDE DEF unit
  <2>5. got' \in [Callers -> Answers]
    <3>1. unit.t = "answer" => unit \in Answers
      BY <2>1 DEF DownUnits
    <3>2. unit.t = "417" => [NoAnswer EXCEPT !.id = unit.id, !.status = "error"] \in Answers
      <4>1. unit.t = "417" => unit.id \in Nat
        BY <2>1 DEF DownUnits, Answers
      <4> QED
        BY <4>1 DEF NoAnswer, Answers
    <3> QED
      BY <2>2, <3>1, <3>2 DEF ClientTypeOK
  <2> QED
    BY <1>1, <2>1, <2>3, <2>4, <2>5 DEF Goto, ConnectionsTypeOK, ClientTypeOK
<1>6. CASE ReadAnswerContent(k)
  BY <1>1, <1>6, ReadsAnswer DEF ReadAnswerContent, Goto, ConnectionsTypeOK, ClientTypeOK
<1>7. CASE ReadUntilEnd(k)
  <2>1. down' \in [Conns -> Seq(DownUnits)]
    BY <1>7, ReadsAnswer DEF ReadUntilEnd, ConnectionsTypeOK
  <2> QED
    BY <1>1, <1>7, <2>1 DEF ReadUntilEnd, Goto, ConnectionsTypeOK, ClientTypeOK
<1> QED
  BY <1>3, <1>4, <1>5, <1>6, <1>7

\* The end of an exchange and of send_ keeps the types.
LEMMA FinishTypes ==
  ASSUME TypeOK, UNCHANGED serverVars, NEW k \in Callers, pc[k] = "after" => cur[k] \in Requests,
         \/ RequestFails(k) \/ DropHandle(k) \/ Answered(k) \/ Redirect(k) \/ NotRedirected(k)
         \/ Exit(k)
  PROVE  TypeOK'
<1> USE DEF TypeOK, sharedVars, callerVars, connectionVars
<1>1. ServerTypeOK'
  BY DEF serverVars, listenVars, servingVars, ServerTypeOK
<1>2. socket_ \in Conns \cup {0} /\ on[k] \in Conns \cup {0}
  BY DEF ClientTypeOK
<1>3. CASE RequestFails(k)
  <2>1. CASE cur[k].stream
    BY <1>1, <1>2, <1>3, <2>1, ReturnTypes, CloseTypes
       DEF RequestFails, WireUnchanged, ConnectionsTypeOK, ClientTypeOK
  <2>2. CASE ~cur[k].stream
    BY <1>1, <1>3, <2>2 DEF RequestFails, Goto, WireUnchanged, ConnectionsTypeOK, ClientTypeOK
  <2> QED
    BY <2>1, <2>2
<1>4. CASE DropHandle(k)
  BY <1>1, <1>2, <1>4, ReturnTypes, CloseTypes
     DEF DropHandle, WireUnchanged, ConnectionsTypeOK, ClientTypeOK
<1>5. ASSUME CloseAfterAnswer(k)
      PROVE  /\ clientEnd' \in [Conns -> {"none", "open", "closed"}]
             /\ socket_' \in Conns \cup {0} /\ blocked' \subseteq Callers
  BY <1>2, <1>5, CloseTypes DEF CloseAfterAnswer, CloseSocket, Locks, ConnectionsTypeOK, ClientTypeOK
<1>6. CASE Answered(k)
  BY <1>1, <1>5, <1>6 DEF Answered, Goto, WireUnchanged, ConnectionsTypeOK, ClientTypeOK
<1>7. CASE Redirect(k)
  <2>2. cur[k] \in Requests
    BY <1>7 DEF Redirect, Goto
  <2>4. used' \in Nat /\ cur' \in [Callers -> Requests \cup {None}]
    BY <1>7, <2>2, Redirects
  <2>5. depth' \in [Callers -> 0 .. MaxRedirects]
    BY <1>7, ClientAssumption DEF Redirect, ClientTypeOK
  <2> QED
    BY <1>1, <1>5, <1>7, <2>4, <2>5 DEF Redirect, Goto, WireUnchanged, ConnectionsTypeOK, ClientTypeOK
<1>8. CASE NotRedirected(k)
  <2>1. got' \in [Callers -> Answers] /\ ret' \in [Callers -> BOOLEAN]
    <3>1. [got[k] EXCEPT !.status = "elsewhere"] \in Answers
      BY DEF ClientTypeOK, Answers
    <3> QED
      BY <1>8, <3>1 DEF NotRedirected, ClientTypeOK
  <2> QED
    BY <1>1, <1>5, <1>8, <2>1 DEF NotRedirected, Goto, WireUnchanged, ConnectionsTypeOK, ClientTypeOK
<1>9. CASE Exit(k)
  <2>1. clientEnd' \in [Conns -> {"none", "open", "closed"}] /\ socket_' \in Conns \cup {0}
    BY <1>2, <1>9, CloseTypes DEF Exit, CloseSocket, ConnectionsTypeOK, ClientTypeOK
  <2>2. blocked' \subseteq Callers /\ ret[k] \in BOOLEAN
    BY <1>9 DEF Exit, Locks, ClientTypeOK
  <2>3. Return(k, "exit", ret[k])
    BY <1>9 DEF Exit
  <2>4. /\ pc' \in [Callers -> {"idle", "lock", "connect", "take", "write", "body", "answer", "content",
                               "drain", "failed", "handle", "after", "exit", "crashed"}]
        /\ depth' \in [Callers -> 0 .. MaxRedirects] /\ on' \in [Callers -> Conns \cup {0}]
        /\ cur' \in [Callers -> Requests \cup {None}]
        /\ got' \in [Callers -> Answers] /\ ret' \in [Callers -> BOOLEAN]
    BY <2>2, <2>3, ReturnTypes
  <2>5. ConnectionsTypeOK'
    BY <1>9, <2>1 DEF Exit, WireUnchanged, ConnectionsTypeOK
  <2>6. ClientTypeOK'
    BY <1>9, <2>1, <2>2, <2>4 DEF Exit, ClientTypeOK
  <2> QED
    BY <1>1, <2>5, <2>6
<1> QED
  BY <1>3, <1>4, <1>6, <1>7, <1>8, <1>9

\* stop() keeps the types.
LEMMA StopTypes ==
  ASSUME TypeOK, UNCHANGED serverVars, StopClient
  PROVE  TypeOK'
<1> USE DEF TypeOK, sharedVars, callerVars
<1>1. ServerTypeOK' /\ socket_ \in Conns \cup {0}
  BY DEF serverVars, listenVars, servingVars, ServerTypeOK, ClientTypeOK
<1>2. clientEnd' \in [Conns -> {"none", "open", "closed"}] /\ socket_' \in Conns \cup {0}
  BY <1>1, CloseTypes DEF StopClient, CloseSocket, ConnectionsTypeOK, ClientTypeOK
<1>3. socket_should_be_closed_when_request_is_done_' \in BOOLEAN
  BY DEF StopClient, ClientTypeOK
<1> QED
  BY <1>1, <1>2, <1>3 DEF StopClient, WireUnchanged, ConnectionsTypeOK, ClientTypeOK

-----------------------------------------------------------------------------
(***************************************************************************)
(* The control of both sides.                                              *)
(***************************************************************************)
\* What the server does leaves callers, the mutex and the count alone.
LEMMA ServerFrame ==
  ASSUME ControlInv, UNCHANGED clientVars
  PROVE  /\ \A k \in Callers : CallerInv(k)'
         /\ MutexInv' /\ socket_requests_in_flight_' = Cardinality(InFlight')
<1> USE DEF clientVars, sharedVars, callerVars
<1>1. InFlight' = InFlight
  BY DEF InFlight, Activations
<1> QED
  BY <1>1 DEF ControlInv, CallerInv, Busy, MutexInv

\* listen_async and stop() serve accepted connections.
LEMMA ListenControl ==
  ASSUME ControlInv, UNCHANGED clientVars, ListenAsync \/ Stop
  PROVE  ControlInv'
<1> USE DEF listenVars, servingVars, connectionVars
<1>1. TypeOK /\ ServingInv /\ \A c \in Conns : Fresh(c)
  BY DEF ControlInv
<1>2. TypeOK'
  BY <1>1, ListenTypes
<1>3. UNCHANGED <<socket_, on, clientEnd, down, sent, answered, spoiled, req, left, status>>
  BY DEF clientVars, sharedVars, callerVars, ListenAsync, Stop, Bind, Start, EnterLoop, Accept, AcceptThrows,
     PushClient, ShutdownTasks, StopExchange, StopCloses, StopCancels
<1>4. \A c \in Conns : /\ up'[c] \in {up[c], <<>>}
                       /\ serverEnd[c] # "none" => serverEnd'[c] # "none"
  <2>1. CASE Accept
    BY <1>1, <2>1 DEF Accept, Backlog, TypeOK, ConnectionsTypeOK
  <2>2. CASE StopCloses \/ StopCancels
    BY <1>1, <2>2, Closes DEF StopCloses, StopCancels
  <2> QED
    BY <2>1, <2>2 DEF ListenAsync, Stop, Bind, Start, EnterLoop, AcceptThrows, PushClient, ShutdownTasks, StopExchange
<1>5. CASE PushClient
  <2>1. accepted \in Conns /\ listen' # "push" /\ serving' = [serving EXCEPT ![accepted] = "line"]
    BY <1>1, <1>5 DEF PushClient, Listen, ServingInv
  <2>2. ServingInv'
    BY <1>1, <1>3, <1>4, <1>5, <2>1 DEF PushClient, Listen, ServingInv, TypeOK, ServerTypeOK, Clear
  <2>3. \A c \in Conns : Fresh(c)'
    <3>1. \A c \in Conns : serving'[c] = IF c = accepted THEN "line" ELSE serving[c]
      BY <1>1, <2>1 DEF TypeOK, ServerTypeOK
    <3>2. clientEnd[accepted] # "none" /\ UNCHANGED connectionVars
      BY <1>1, <1>5 DEF PushClient, Listen, ServingInv
    <3> QED
      BY <1>1, <1>3, <3>1, <3>2 DEF Fresh, connectionVars
  <2> QED
    BY <1>2, <2>2, <2>3, ServerFrame DEF ControlInv
<1>6. CASE ~PushClient
  <2>1. UNCHANGED serving
    BY <1>6 DEF ListenAsync, Stop, Bind, Start, EnterLoop, Accept, AcceptThrows, ShutdownTasks, StopExchange,
       StopCloses, StopCancels
  <2>2. \A c \in Conns : Fresh(c)'
    BY <1>1, <1>3, <1>4, <2>1 DEF Fresh
  <2>3. CASE Accept
    <3>1. PICK c \in Backlog : accepted' = c /\ serverEnd'[c] = "open"
      BY <1>1, <2>3 DEF Accept, Backlog, TypeOK, ConnectionsTypeOK
    <3>2. c \in Conns /\ clientEnd[c] # "none" /\ serving[c] = "none"
      BY <1>1, <3>1 DEF Backlog, ServingInv
    <3>3. ServingInv'
      BY <1>1, <1>3, <1>4, <2>1, <3>1, <3>2 DEF ServingInv, Clear
    <3> QED
      BY <1>2, <2>2, <3>3, ServerFrame DEF ControlInv
  <2>4. CASE ~Accept
    <3>1. listen' = "push" => listen = "push" /\ accepted' = accepted
      BY <1>6, <2>4 DEF ListenAsync, Stop, Bind, Start, EnterLoop, AcceptThrows, ShutdownTasks, StopExchange,
         StopCloses, StopCancels, Listen
    <3>2. ServingInv'
      BY <1>1, <1>3, <1>4, <2>1, <3>1 DEF ServingInv, Clear
    <3> QED
      BY <1>2, <2>2, <3>2, ServerFrame DEF ControlInv
  <2> QED
    BY <2>3, <2>4
<1> QED
  BY <1>5, <1>6

\* The task of a connection concerns that connection.
LEMMA ProcessRequestFrame ==
  ASSUME TypeOK, NEW c \in Conns, ProcessRequest(c)
  PROVE  /\ serving[c] # "none" /\ serving'[c] # "none"
         /\ UNCHANGED <<listenVars, setup, listening, clientEnd, sent>>
         /\ serverEnd'[c] \in {serverEnd[c], "closed"}
         /\ spoiled[c] \subseteq spoiled'[c]
         /\ \A d \in Conns \ {c} :
              /\ serverEnd'[d] = serverEnd[d] /\ up'[d] = up[d] /\ down'[d] = down[d]
              /\ answered'[d] = answered[d] /\ spoiled'[d] = spoiled[d]
              /\ serving'[d] = serving[d] /\ req'[d] = req[d] /\ left'[d] = left[d]
              /\ status'[d] = status[d] /\ connection_closed'[d] = connection_closed[d]
<1>1. /\ serving[c] # "none" /\ serving'[c] # "none"
      /\ \A d \in Conns \ {c} :
           /\ serving'[d] = serving[d] /\ req'[d] = req[d] /\ left'[d] = left[d]
           /\ status'[d] = status[d] /\ connection_closed'[d] = connection_closed[d]
  <2> USE DEF TypeOK, ServerTypeOK, WillAnswer, Serve
  <2>1. CASE ReadRequest(c)
    BY <2>1 DEF ReadRequest
  <2>2. CASE NoRequestLine(c) \/ ExpectRefused(c) \/ ReadContentFails(c) \/ Dispatch(c)
    BY <2>2 DEF NoRequestLine, ExpectRefused, ReadContentFails, Dispatch
  <2>3. CASE Expect(c) \/ RouteUnread(c) \/ ReadContent(c) \/ CloseConnection(c)
    BY <2>3 DEF Expect, RouteUnread, ReadContent, CloseConnection
  <2>4. CASE WriteResponse(c) \/ WriteResponseFails(c)
    BY <2>4 DEF WriteResponse, WriteResponseFails, Returned
  <2> QED
    BY <2>1, <2>2, <2>3, <2>4 DEF ProcessRequest
<1>2. UNCHANGED <<listenVars, setup, listening, clientEnd, sent>>
  BY DEF ProcessRequest, ReadRequest, NoRequestLine, Expect, ExpectRefused, RouteUnread, ReadContent,
     ReadContentFails, Dispatch, WriteResponse, WriteResponseFails, CloseConnection, connectionVars
<1>3. /\ serverEnd'[c] \in {serverEnd[c], "closed"}
      /\ \A d \in Conns \ {c} : serverEnd'[d] = serverEnd[d] /\ up'[d] = up[d]
  <2>1. CASE ReadRequest(c) \/ ReadContent(c)
    BY <2>1, Reads DEF ReadRequest, ReadContent, TypeOK, ConnectionsTypeOK
  <2>2. CASE CloseConnection(c)
    BY <2>2, Closes DEF CloseConnection
  <2> QED
    BY <2>1, <2>2 DEF ProcessRequest, NoRequestLine, Expect, ExpectRefused, RouteUnread,
     ReadContentFails, Dispatch, WriteResponse, WriteResponseFails, connectionVars
<1>4. \A d \in Conns \ {c} : down'[d] = down[d] /\ answered'[d] = answered[d]
  <2>1. CASE Expect(c) \/ WriteResponse(c) \/ WriteResponseFails(c)
    BY <2>1 DEF Expect, WriteResponse, WriteResponseFails, ServerWrites, TypeOK, ConnectionsTypeOK
  <2> QED
    BY <2>1 DEF ProcessRequest, ReadRequest, NoRequestLine, ExpectRefused, RouteUnread, ReadContent,
     ReadContentFails, Dispatch, CloseConnection, connectionVars
<1>5. spoiled[c] \subseteq spoiled'[c] /\ \A d \in Conns \ {c} : spoiled'[d] = spoiled[d]
  <2>1. CASE Expect(c)
    <3>1. PICK code \in {"continue", "417"} : Spoil(c, {code} \ {"continue"})
      BY <2>1 DEF Expect
    <3> QED
      BY <3>1, Spoils
  <2>2. CASE RouteUnread(c)
    <3>1. PICK what \in {{}, {"unread"}} : Spoil(c, what)
      BY <2>2 DEF RouteUnread
    <3> QED
      BY <3>1, Spoils
  <2> QED
    BY <2>1, <2>2 DEF ProcessRequest, ReadRequest, NoRequestLine, ExpectRefused, ReadContent,
     ReadContentFails, Dispatch, WriteResponse, WriteResponseFails, CloseConnection, connectionVars
<1> QED
  BY <1>1, <1>2, <1>3, <1>4, <1>5

\* The tasks of the connections keep the control.
LEMMA RequestControl ==
  ASSUME ControlInv, UNCHANGED clientVars, NEW c \in Conns, ProcessRequest(c)
  PROVE  ControlInv'
<1>1. TypeOK /\ ServingInv /\ \A d \in Conns : Fresh(d)
  BY DEF ControlInv
<1>2. TypeOK'
  BY <1>1, RequestTypes
<1>3. /\ serving[c] # "none" /\ serving'[c] # "none"
      /\ UNCHANGED <<listen, accepted, clientEnd, sent>>
      /\ serverEnd'[c] \in {serverEnd[c], "closed"}
      /\ \A d \in Conns \ {c} :
           /\ serverEnd'[d] = serverEnd[d] /\ up'[d] = up[d] /\ down'[d] = down[d]
           /\ answered'[d] = answered[d] /\ spoiled'[d] = spoiled[d]
           /\ serving'[d] = serving[d] /\ left'[d] = left[d] /\ status'[d] = status[d]
  BY <1>1, ProcessRequestFrame DEF listenVars
<1>4. serving'[c] = "respond" /\ left'[c] /\ Clear(c)' => status'[c] = "error"
  <2> USE DEF TypeOK, listenVars, connectionVars, ServerTypeOK, ConnectionsTypeOK
  <2>1. CASE ReadRequest(c)
    BY <1>1, <2>1 DEF ReadRequest, WillAnswer, Serve
  <2>2. CASE NoRequestLine(c) \/ ExpectRefused(c) \/ ReadContentFails(c) \/ Dispatch(c)
    BY <1>1, <2>2 DEF NoRequestLine, ExpectRefused, ReadContentFails, Dispatch, WillAnswer, Serve
  <2>3. CASE Expect(c)
    BY <1>1, <2>3 DEF Expect, Serve
  <2>4. CASE RouteUnread(c)
    <3>1. PICK what \in {"ok", "error"} :
            WillAnswer(c, "routing", what) /\ Spoil(c, IF what = "ok" THEN {"unread"} ELSE {})
      BY <2>4 DEF RouteUnread
    <3> QED
      BY <1>1, <3>1 DEF WillAnswer, Spoil, Clear
  <2>5. CASE ReadContent(c)
    BY <1>1, <2>5 DEF ReadContent
  <2>6. CASE WriteResponse(c) \/ WriteResponseFails(c)
    BY <1>1, <2>6 DEF WriteResponse, WriteResponseFails, Returned, Serve
  <2>7. CASE CloseConnection(c)
    BY <1>1, <2>7 DEF CloseConnection, Serve
  <2> QED
    BY <2>1, <2>2, <2>3, <2>4, <2>5, <2>6, <2>7 DEF ProcessRequest
<1>5. ServingInv'
  BY <1>1, <1>3, <1>4 DEF ServingInv, Clear
<1>6. \A d \in Conns : Fresh(d)'
  BY <1>1, <1>3 DEF Fresh, ServingInv, clientVars, sharedVars, callerVars
<1> QED
  BY <1>2, <1>5, <1>6, ServerFrame DEF ControlInv

\* A step of a caller leaves the other callers alone, and what is on
\* connections that are not made.
Alone(k) ==
  /\ \A j \in Callers \ {k} :
       /\ pc'[j] = pc[j] /\ depth'[j] = depth[j] /\ cur'[j] = cur[j]
       /\ on'[j] = on[j] /\ got'[j] = got[j] /\ ret'[j] = ret[j]
  /\ socket_' \in {0, socket_} \/ (socket_' \in Conns /\ clientEnd[socket_'] = "none")
  /\ \A c \in Conns :
       /\ clientEnd'[c] = "none" =>
            /\ clientEnd[c] = "none" /\ socket_' # c /\ on'[k] # c
            /\ up'[c] = up[c] /\ down'[c] = down[c] /\ sent'[c] = sent[c] /\ answered'[c] = answered[c]
       /\ clientEnd[c] # "none" => clientEnd'[c] # "none"
       /\ spoiled[c] \subseteq spoiled'[c]
  /\ UNCHANGED serverEnd

\* Finitely many requests are in flight.
LEMMA FiniteInFlight == ASSUME ClientAssumption PROVE IsFiniteSet(InFlight) /\ Cardinality(InFlight) \in Nat
<1>1. IsFiniteSet(1 .. MaxRedirects + 1)
  BY ClientAssumption, FS_Interval
<1>2. IsFiniteSet(Callers \X (1 .. MaxRedirects + 1))
  BY <1>1, ClientAssumption, FS_Product
<1> QED
  BY <1>2, FS_Subset, FS_CardinalityType DEF InFlight

\* The count follows the activations of the caller that makes a step.
LEMMA Counted ==
  ASSUME ClientAssumption, TypeOK, TypeOK', NEW k \in Callers, Alone(k),
         NEW n \in {-1, 0, 1}, Activations(k)' = Activations(k) + n,
         socket_requests_in_flight_ = Cardinality(InFlight),
         socket_requests_in_flight_' = socket_requests_in_flight_ + n
  PROVE  socket_requests_in_flight_' = Cardinality(InFlight')
<1>1. \A j \in Callers : Activations(j) \in Nat /\ Activations(j) <= MaxRedirects + 1
  BY ClientAssumption DEF TypeOK, ClientTypeOK, Activations
<1>2. Activations(k)' \in Nat /\ Activations(k)' <= MaxRedirects + 1
  BY ClientAssumption DEF TypeOK, ClientTypeOK, Activations
<1>3. \A j \in Callers \ {k} : Activations(j)' = Activations(j)
  BY DEF Alone, Activations
<1>4. IsFiniteSet(InFlight) /\ Cardinality(InFlight) \in Nat
  BY FiniteInFlight
<1>5. \A a \in Callers \X (1 .. MaxRedirects + 1) :
        /\ a \in InFlight <=> a[2] <= Activations(a[1])
        /\ a \in InFlight' <=> a[2] <= Activations(a[1])'
  BY DEF InFlight
<1>6. InFlight \subseteq Callers \X (1 .. MaxRedirects + 1) /\ InFlight' \subseteq Callers \X (1 .. MaxRedirects + 1)
  BY DEF InFlight
<1>7. CASE n = 0
  <2>1. ASSUME NEW a \in Callers \X (1 .. MaxRedirects + 1) PROVE a \in InFlight' <=> a \in InFlight
    <3>1. Activations(a[1])' = Activations(a[1])
      BY <1>1, <1>3, <1>7
    <3> QED
      BY <1>5, <3>1
  <2>2. InFlight' = InFlight
    BY <1>6, <2>1
  <2> QED
    BY <1>4, <1>7, <2>2
<1>8. CASE n = 1
  <2> DEFINE new == <<k, Activations(k) + 1>>
  <2>1. new \in Callers \X (1 .. MaxRedirects + 1) /\ new \notin InFlight
    BY <1>1, <1>2, <1>5, <1>8
  <2>2. InFlight' = InFlight \cup {new}
    <3>1. ASSUME NEW a \in Callers \X (1 .. MaxRedirects + 1)
          PROVE  a \in InFlight' <=> a \in InFlight \/ a = new
      <4>1. CASE a[1] = k
        BY <1>1, <1>2, <1>5, <1>8, <4>1
      <4>2. CASE a[1] # k
        BY <1>3, <1>5, <4>2
      <4> QED
        BY <4>1, <4>2
    <3> HIDE DEF new
    <3> QED
      BY <1>6, <2>1, <3>1
  <2> HIDE DEF new
  <2> QED
    BY <1>4, <1>8, <2>1, <2>2, FS_AddElement
<1>9. CASE n = -1
  <2> DEFINE old == <<k, Activations(k)>>
  <2>1. old \in Callers \X (1 .. MaxRedirects + 1) /\ old \in InFlight
    BY <1>1, <1>2, <1>5, <1>9
  <2>2. InFlight' = InFlight \ {old}
    <3>1. ASSUME NEW a \in Callers \X (1 .. MaxRedirects + 1)
          PROVE  a \in InFlight' <=> a \in InFlight /\ a # old
      <4>1. CASE a[1] = k
        BY <1>1, <1>2, <1>5, <1>9, <4>1
      <4>2. CASE a[1] # k
        BY <1>3, <1>5, <4>2
      <4> QED
        BY <4>1, <4>2
    <3> HIDE DEF old
    <3> QED
      BY <1>6, <2>1, <3>1
  <2> HIDE DEF old
  <2>3. Cardinality(InFlight') = Cardinality(InFlight) - 1
    BY <1>4, <2>1, <2>2, FS_RemoveElement
  <2> QED
    BY <1>4, <1>9, <2>3
<1> QED
  BY <1>7, <1>8, <1>9

\* A caller that keeps what concerns itself keeps the control.
LEMMA CallerControl ==
  ASSUME ClientAssumption, ControlInv, TypeOK', UNCHANGED serverVars, NEW k \in Callers, Alone(k),
         NEW n \in {-1, 0, 1}, Activations(k)' = Activations(k) + n,
         socket_requests_in_flight_' = socket_requests_in_flight_ + n,
         CallerInv(k)', MutexInv'
  PROVE  ControlInv'
<1> USE DEF serverVars, listenVars, servingVars
<1>1. TypeOK /\ ServingInv /\ \A c \in Conns : Fresh(c)
  BY DEF ControlInv
<1>2. \A c \in Conns : Fresh(c)'
  BY <1>1 DEF Fresh, Alone
<1>3. ServingInv'
  BY <1>1 DEF ServingInv, Alone, Clear
<1>4. ASSUME NEW j \in Callers \ {k} PROVE CallerInv(j)'
  <2>1. CallerInv(j) /\ on[j] \in Conns \cup {0}
    BY <1>1 DEF ControlInv, TypeOK, ClientTypeOK
  <2>2. /\ pc'[j] = pc[j] /\ depth'[j] = depth[j] /\ cur'[j] = cur[j]
        /\ on'[j] = on[j] /\ ret'[j] = ret[j]
    BY DEF Alone
  <2>3. pc[j] \in Busy /\ on[j] # socket_ => on[j] # socket_'
    BY <1>1, <2>1 DEF Alone, Fresh, CallerInv
  <2> QED
    BY <2>1, <2>2, <2>3 DEF CallerInv
<1>5. socket_requests_in_flight_' = Cardinality(InFlight')
  BY <1>1, Counted DEF ControlInv
<1> QED
  BY <1>2, <1>3, <1>4, <1>5 DEF ControlInv

\* What a step of a caller starts from.
LEMMA CallerFacts ==
  ASSUME ClientAssumption, ControlInv, NEW k \in Callers
  PROVE  /\ TypeOK /\ MutexInv /\ CallerInv(k) /\ \A c \in Conns : Fresh(c)
         /\ depth[k] \in 0 .. MaxRedirects /\ on[k] \in Conns \cup {0} /\ socket_ \in Conns \cup {0}
         /\ cur[k].stream \in BOOLEAN /\ ret[k] \in BOOLEAN
         /\ socket_requests_in_flight_ \in Nat /\ Activations(k) \in Nat
<1>1. /\ TypeOK /\ MutexInv /\ CallerInv(k) /\ \A c \in Conns : Fresh(c)
      /\ socket_requests_in_flight_ = Cardinality(InFlight)
  BY DEF ControlInv
<1>2. /\ depth[k] \in 0 .. MaxRedirects /\ on[k] \in Conns \cup {0} /\ socket_ \in Conns \cup {0}
      /\ cur[k] \in Requests \cup {None} /\ ret[k] \in BOOLEAN
  BY <1>1 DEF TypeOK, ClientTypeOK
<1>3. None.stream = FALSE
  BY DEF None
<1>4. cur[k] \in Requests => cur[k].stream \in BOOLEAN
  BY DEF Requests
<1>5. cur[k].stream \in BOOLEAN
  BY <1>2, <1>3, <1>4
<1>6. Activations(k) \in Nat
  BY <1>2, ClientAssumption DEF Activations
<1> QED
  BY <1>1, <1>2, <1>5, <1>6, FiniteInFlight

\* Only one caller connects.
LEMMA Connecting ==
  ASSUME MutexInv, NEW k \in Callers, pc[k] = "connect" \/ socket_mutex_ = {}
  PROVE  \A j \in Callers : pc[j] = "connect" => j = k
<1>1. \A j \in Callers : pc[j] = "connect" <=> j \in socket_mutex_
  BY DEF MutexInv
<1> QED
  BY <1>1 DEF MutexInv

\* A caller on its way to a connection keeps the control.
LEMMA SendControl ==
  ASSUME ConnectionsAssumption, ClientAssumption, ControlInv, UNCHANGED serverVars, NEW k \in Callers,
         \/ Send(k) \/ Blocks(k) \/ Reuse(k) \/ Connect(k) \/ Connected(k)
         \/ ConnectFails(k) \/ Take(k)
  PROVE  ControlInv'
<1> USE DEF sharedVars, callerVars, connectionVars
<1>1. /\ TypeOK /\ MutexInv /\ CallerInv(k) /\ \A c \in Conns : Fresh(c)
      /\ depth[k] \in 0 .. MaxRedirects /\ on[k] \in Conns \cup {0} /\ socket_ \in Conns \cup {0}
      /\ cur[k].stream \in BOOLEAN /\ ret[k] \in BOOLEAN
      /\ socket_requests_in_flight_ \in Nat /\ Activations(k) \in Nat
  BY CallerFacts
<1>2. TypeOK'
  BY <1>1, SendTypes
<1>3. 0 \notin Conns
  BY DEF Conns
<1> USE DEF TypeOK, ClientTypeOK, ConnectionsTypeOK, Goto
<1>4. CASE Send(k)
  <2>1. PICK request \in setup.requests : Begin(k, request)
    BY <1>4 DEF Send
  <2>2. request \in RequestType
    BY <1>1, <2>1 DEF ConnectionsAssumption, SetupType
  <2>3. /\ cur'[k] \in Requests /\ cur'[k].stream = request.stream
        /\ \A j \in Callers : j # k => cur'[j] = cur[j]
    BY <1>1, <2>1, <2>2, Begins DEF RequestType
  <2>4. Alone(k)
    BY <1>1, <1>4, <2>3 DEF Send, Alone, Fresh, CallerInv
  <2>5. CallerInv(k)'
    BY <1>1, <1>4, <2>3 DEF Send, CallerInv, Busy
  <2>6. Activations(k)' = Activations(k) + 0 /\ socket_requests_in_flight_' = socket_requests_in_flight_ + 0
    BY <1>1, <1>4, <2>3 DEF Send, Activations
  <2>7. MutexInv'
    BY <1>1, <1>4 DEF Send, MutexInv
  <2> QED
    BY <1>2, <2>4, <2>5, <2>6, <2>7, CallerControl
<1>5. CASE Blocks(k)
  <2>4. Alone(k)
    BY <1>1, <1>3, <1>5 DEF Blocks, Alone, Fresh
  <2>5. CallerInv(k)'
    BY <1>1, <1>5 DEF Blocks, CallerInv
  <2>6. Activations(k)' = Activations(k) + 0 /\ socket_requests_in_flight_' = socket_requests_in_flight_ + 0
    BY <1>1, <1>5 DEF Blocks, Activations
  <2>7. MutexInv'
    BY <1>1, <1>5 DEF Blocks, MutexInv
  <2> QED
    BY <1>2, <2>4, <2>5, <2>6, <2>7, CallerControl
<1>6. CASE Reuse(k) \/ Connected(k)
  <2>1. PICK c \in Conns, from \in {"lock", "connect"} :
          /\ Own(k, from, c)
          /\ (c = socket_ /\ clientEnd[c] # "none") \/ clientEnd[c] = "none"
          /\ \A d \in Conns : clientEnd'[d] = IF d = c THEN "open" ELSE clientEnd[d]
    BY <1>1, <1>6 DEF Reuse, Connected, IsSocketAlive
  <2>2. UNCHANGED <<depth, cur, got, ret, used, serverEnd, up, down, sent, answered>>
    BY <1>6 DEF Reuse, Connected, WireUnchanged
  <2>3. \A d \in Conns : spoiled[d] \subseteq spoiled'[d]
    <3>1. CASE Reuse(k)
      BY <1>1, <3>1, Spoils DEF Reuse
    <3> QED
      BY <1>6, <3>1 DEF Connected, WireUnchanged
  <2>4. Alone(k)
    <3>1. /\ \A j \in Callers \ {k} : pc'[j] = pc[j] /\ on'[j] = on[j]
          /\ on'[k] \in {on[k], c} /\ socket_' \in {0, c}
      BY <1>1, <2>1 DEF Own
    <3>2. \A d \in Conns : clientEnd'[d] = "none" => clientEnd[d] = "none" /\ d # c
      BY <2>1
    <3> QED
      BY <1>1, <1>3, <2>1, <2>2, <2>3, <3>1, <3>2 DEF Alone, Fresh
  <2>5. CallerInv(k)'
    BY <1>1, <1>3, <2>1, <2>2 DEF Own, CallerInv, Busy
  <2>6. MutexInv'
    <3>1. socket_mutex_' = {} /\ (socket_mutex_ = {} \/ pc[k] = "connect")
      BY <1>1, <1>6 DEF Reuse, Connected, Own, Locks
    <3>2. \A j \in Callers : pc'[j] # "connect"
      <4>1. pc'[k] # "connect" /\ \A j \in Callers \ {k} : pc'[j] = pc[j]
        BY <1>1, <2>1 DEF Own
      <4>2. \A j \in Callers : pc[j] = "connect" => j = k
        <5>1. MutexInv /\ (pc[k] = "connect" \/ socket_mutex_ = {})
          BY <1>1, <3>1
        <5> QED
          BY <5>1, Connecting
      <4> QED
        BY <4>1, <4>2
    <3> QED
      BY <3>1, <3>2 DEF MutexInv
  <2>7. CASE cur[k].stream
    <3>1. Activations(k)' = Activations(k) + 0 /\ socket_requests_in_flight_' = socket_requests_in_flight_ + 0
      BY <1>1, <2>1, <2>2, <2>7 DEF Own, Activations
    <3> QED
      BY <1>2, <2>4, <2>5, <2>6, <3>1, CallerControl
  <2>8. CASE ~cur[k].stream
    <3>1. Activations(k)' = Activations(k) + 1 /\ socket_requests_in_flight_' = socket_requests_in_flight_ + 1
      BY <1>1, <2>1, <2>2, <2>8 DEF Own, Activations
    <3> QED
      BY <1>2, <2>4, <2>5, <2>6, <3>1, CallerControl
  <2> QED
    BY <1>1, <2>7, <2>8
<1>7. CASE Connect(k)
  <2>1. Alone(k)
    BY <1>1, <1>3, <1>7 DEF Connect, CloseSocket, Shut, WireUnchanged, Alone, Fresh
  <2>2. CallerInv(k)'
    BY <1>1, <1>7 DEF Connect, CloseSocket, CallerInv, Busy
  <2>3. Activations(k)' = Activations(k) + 0 /\ socket_requests_in_flight_' = socket_requests_in_flight_ + 0
    BY <1>1, <1>7 DEF Connect, Activations
  <2>4. MutexInv'
    BY <1>1, <1>7 DEF Connect, Locks, MutexInv
  <2> QED
    BY <1>2, <2>1, <2>2, <2>3, <2>4, CallerControl
<1>8. CASE ConnectFails(k)
  <2>1. /\ Return(k, "connect", FALSE) /\ socket_mutex_' = {}
        /\ UNCHANGED <<socket_, socket_requests_in_flight_, connectionVars>>
    BY <1>8 DEF ConnectFails
  <2>2. Alone(k)
    BY <1>1, <1>3, <2>1 DEF Return, Idle, Alone, Fresh
  <2>3. CallerInv(k)'
    BY <1>1, <2>1 DEF Return, Idle, CallerInv, Busy, None
  <2>4. Activations(k)' = Activations(k) + 0 /\ socket_requests_in_flight_' = socket_requests_in_flight_ + 0
    BY <1>1, <2>1 DEF Return, Idle, Activations, CallerInv, None
  <2>5. MutexInv'
    <3>1. pc[k] = "connect" /\ pc'[k] # "connect" /\ \A j \in Callers \ {k} : pc'[j] = pc[j]
      BY <1>1, <2>1 DEF Return, Idle
    <3>2. \A j \in Callers : pc'[j] # "connect"
      <4>1. MutexInv /\ pc[k] = "connect"
        BY <1>1, <3>1
      <4>2. \A j \in Callers : pc[j] = "connect" => j = k
        BY <4>1, Connecting
      <4> QED
        BY <3>1, <4>2
    <3> QED
      BY <2>1, <3>2 DEF MutexInv
  <2> QED
    BY <1>2, <2>2, <2>3, <2>4, <2>5, CallerControl
<1>9. CASE Take(k)
  <2>1. \A d \in Conns : spoiled[d] \subseteq spoiled'[d]
    BY <1>1, <1>9, Spoils DEF Take
  <2>2. Alone(k)
    BY <1>1, <1>3, <1>9, <2>1 DEF Take, Alone, Fresh
  <2>3. CallerInv(k)'
    BY <1>1, <1>9 DEF Take, CallerInv, Busy
  <2>4. Activations(k)' = Activations(k) + 0 /\ socket_requests_in_flight_' = socket_requests_in_flight_ + 0
    BY <1>1, <1>9 DEF Take, Activations
  <2>5. MutexInv'
    BY <1>1, <1>9 DEF Take, MutexInv
  <2> QED
    BY <1>2, <2>2, <2>3, <2>4, <2>5, CallerControl
<1> QED
  BY <1>4, <1>5, <1>6, <1>7, <1>8, <1>9

\* An exchange keeps the control.
LEMMA ExchangeControl ==
  ASSUME ClientAssumption, ControlInv, UNCHANGED serverVars, NEW k \in Callers,
         WriteRequest(k) \/ WriteBody(k) \/ ReadAnswer(k) \/ ReadAnswerContent(k) \/ ReadUntilEnd(k)
  PROVE  ControlInv'
<1> USE DEF sharedVars, callerVars
<1>1. /\ TypeOK /\ MutexInv /\ CallerInv(k) /\ \A c \in Conns : Fresh(c)
      /\ depth[k] \in 0 .. MaxRedirects /\ on[k] \in Conns \cup {0} /\ socket_ \in Conns \cup {0}
      /\ cur[k].stream \in BOOLEAN /\ ret[k] \in BOOLEAN
      /\ socket_requests_in_flight_ \in Nat /\ Activations(k) \in Nat
  BY CallerFacts
<1>2. PICK from \in {"write", "body", "answer", "content", "drain"},
           to \in {"body", "answer", "failed", "handle", "after", "drain", "content"} :
        /\ Goto(k, from, to)
        /\ to = "handle" => cur[k].stream
        /\ to \in {"drain", "content", "after"} => ~cur[k].stream
        /\ to = "body" => cur[k].body
  <2>1. CASE WriteRequest(k) \/ WriteBody(k)
    BY <2>1 DEF WriteRequest, WriteBody
  <2>2. CASE ReadAnswer(k)
    BY <2>2 DEF ReadAnswer, Goto
  <2>3. CASE ReadAnswerContent(k) \/ ReadUntilEnd(k)
    BY <1>1, <2>3 DEF ReadAnswerContent, ReadUntilEnd, Goto, CallerInv
  <2> QED
    BY <2>1, <2>2, <2>3
<1>3. on[k] \in Conns /\ cur[k] \in Requests
  BY <1>1, <1>2 DEF Goto, CallerInv, Busy
<1>4. TypeOK'
  BY <1>1, <1>3, ExchangeTypes
<1>5. UNCHANGED <<sharedVars, depth, cur, on, ret, clientEnd, serverEnd>>
  BY DEF WriteRequest, WriteBody, ReadAnswer, ReadAnswerContent, ReadUntilEnd
<1>6. \A j \in Callers \ {k} : pc'[j] = pc[j] /\ got'[j] = got[j]
  BY <1>1, <1>2 DEF WriteRequest, WriteBody, ReadAnswer, ReadAnswerContent, ReadUntilEnd, Goto,
     TypeOK, ClientTypeOK
<1>7. \A c \in Conns \ {on[k]} :
        up'[c] = up[c] /\ down'[c] = down[c] /\ sent'[c] = sent[c] /\ answered'[c] = answered[c]
  BY <1>1, <1>3 DEF WriteRequest, WriteBody, ReadAnswer, ReadAnswerContent, ReadUntilEnd, ClientWrites,
     ClientReads, TypeOK, ConnectionsTypeOK
<1>8. \A c \in Conns : spoiled[c] \subseteq spoiled'[c]
  <2>1. CASE WriteBody(k)
    BY <1>1, <1>3, <2>1, Spoils DEF WriteBody
  <2> QED
    BY <2>1 DEF WriteRequest, ReadAnswer, ReadAnswerContent, ReadUntilEnd
<1>9. Alone(k)
  BY <1>1, <1>3, <1>5, <1>6, <1>7, <1>8 DEF Alone, Fresh
<1>10. CallerInv(k)'
  BY <1>1, <1>2, <1>3, <1>5 DEF Goto, CallerInv, Busy, TypeOK, ClientTypeOK
<1>11. Activations(k)' = Activations(k) + 0 /\ socket_requests_in_flight_' = socket_requests_in_flight_ + 0
  BY <1>1, <1>2, <1>5 DEF Goto, Activations, TypeOK, ClientTypeOK
<1>12. MutexInv'
  BY <1>1, <1>2, <1>5 DEF Goto, MutexInv, TypeOK, ClientTypeOK
<1> QED
  BY <1>4, <1>9, <1>10, <1>11, <1>12, CallerControl

\* The end of an exchange and of send_ keeps the control.
LEMMA FinishControl ==
  ASSUME ClientAssumption, ControlInv, UNCHANGED serverVars, NEW k \in Callers,
         \/ RequestFails(k) \/ DropHandle(k) \/ Answered(k) \/ Redirect(k) \/ NotRedirected(k)
         \/ Exit(k)
  PROVE  ControlInv'
<1> USE DEF sharedVars, callerVars, connectionVars
<1>1. /\ TypeOK /\ MutexInv /\ CallerInv(k) /\ \A c \in Conns : Fresh(c)
      /\ depth[k] \in 0 .. MaxRedirects /\ on[k] \in Conns \cup {0} /\ socket_ \in Conns \cup {0}
      /\ cur[k].stream \in BOOLEAN /\ ret[k] \in BOOLEAN
      /\ socket_requests_in_flight_ \in Nat /\ Activations(k) \in Nat
  BY CallerFacts
<1>2. TypeOK' /\ 0 \notin Conns
  BY <1>1, FinishTypes DEF CallerInv, Conns
<1>3. /\ serverEnd' = serverEnd /\ up' = up /\ down' = down /\ sent' = sent /\ answered' = answered
      /\ spoiled' = spoiled
      /\ socket_mutex_' = socket_mutex_
      /\ socket_' \in {0, socket_}
  BY DEF RequestFails, DropHandle, Answered, Redirect, NotRedirected, Exit, WireUnchanged,
     CloseAfterAnswer, CloseSocket
<1>4. \A c \in Conns : /\ clientEnd'[c] = "none" => clientEnd[c] = "none"
                       /\ clientEnd[c] # "none" => clientEnd'[c] # "none"
  <2>1. clientEnd' = clientEnd \/ \E c \in Conns \cup {0} : Shut(c)
    BY <1>1 DEF RequestFails, DropHandle, Answered, Redirect, NotRedirected, Exit,
       CloseAfterAnswer, CloseSocket
  <2> QED
    BY <1>1, <2>1 DEF Shut, TypeOK, ConnectionsTypeOK
<1> USE DEF TypeOK, ClientTypeOK, Goto
<1>5. CASE RequestFails(k) \/ DropHandle(k)
  <2>1. /\ UNCHANGED <<socket_, socket_requests_in_flight_>>
        /\ \/ cur[k].stream /\ Idle(k, pc[k])
           \/ pc' = [pc EXCEPT ![k] = "exit"] /\ ~cur[k].stream /\ UNCHANGED <<depth, cur, on, got, ret>>
        /\ pc[k] \in {"write", "body", "answer", "content", "failed", "handle"}
    BY <1>1, <1>5 DEF RequestFails, Failing, DropHandle, Idle, CallerInv
  <2>2. Alone(k)
    <3>1. \A j \in Callers \ {k} : /\ pc'[j] = pc[j] /\ depth'[j] = depth[j] /\ cur'[j] = cur[j]
                                  /\ on'[j] = on[j] /\ got'[j] = got[j] /\ ret'[j] = ret[j]
      BY <1>1, <2>1 DEF Idle
    <3>2. on'[k] \in {0, on[k]}
      BY <1>1, <2>1 DEF Idle
    <3>3. \A c \in Conns : clientEnd'[c] = "none" =>
             clientEnd[c] = "none" /\ socket_' # c /\ on'[k] # c
      BY <1>1, <1>2, <1>3, <1>4, <3>2 DEF Fresh
    <3> QED
      BY <1>3, <1>4, <3>1, <3>3 DEF Alone
  <2>3. CallerInv(k)'
    BY <1>1, <1>2, <1>3, <2>1 DEF Idle, CallerInv, Busy, None
  <2>4. Activations(k)' = Activations(k) + 0 /\ socket_requests_in_flight_' = socket_requests_in_flight_ + 0
    BY <1>1, <2>1 DEF Idle, Activations, None
  <2>5. MutexInv'
    BY <1>1, <1>3, <2>1 DEF Idle, MutexInv
  <2> QED
    BY <1>2, <2>2, <2>3, <2>4, <2>5, CallerControl
<1>6. CASE Answered(k) \/ NotRedirected(k)
  <2>1. /\ pc[k] = "after" /\ pc' = [pc EXCEPT ![k] = "exit"]
        /\ UNCHANGED <<socket_requests_in_flight_, depth, cur, on>>
    BY <1>6 DEF Answered, NotRedirected
  <2>2. \A j \in Callers \ {k} : got'[j] = got[j] /\ ret'[j] = ret[j]
    BY <1>1, <1>6 DEF Answered, NotRedirected
  <2>3. Alone(k)
    BY <1>1, <1>2, <1>3, <1>4, <2>1, <2>2 DEF Alone, Fresh
  <2>4. CallerInv(k)'
    BY <1>1, <1>2, <1>3, <2>1 DEF CallerInv, Busy
  <2>5. Activations(k)' = Activations(k) + 0 /\ socket_requests_in_flight_' = socket_requests_in_flight_ + 0
    BY <1>1, <2>1 DEF Activations
  <2>6. MutexInv'
    BY <1>1, <1>3, <2>1 DEF MutexInv
  <2> QED
    BY <1>2, <2>3, <2>4, <2>5, <2>6, CallerControl
<1>7. CASE Redirect(k)
  <2>1. /\ pc[k] = "after" /\ pc' = [pc EXCEPT ![k] = "lock"]
        /\ depth' = [depth EXCEPT ![k] = @ + 1] /\ used < MaxRequests /\ used' = used + 1
        /\ UNCHANGED <<socket_requests_in_flight_, on, got, ret>>
    BY <1>7 DEF Redirect, Begin
  <2>2. cur[k] \in Requests
    BY <1>1, <2>1 DEF CallerInv
  <2>3. cur'[k] \in Requests /\ ~cur'[k].stream /\ \A j \in Callers : j # k => cur'[j] = cur[j]
    BY <1>1, <1>7, <2>2, Redirects
  <2>4. Alone(k)
    <3>1. \A j \in Callers \ {k} : pc'[j] = pc[j] /\ depth'[j] = depth[j]
      BY <1>1, <2>1
    <3> QED
      BY <1>1, <1>2, <1>3, <1>4, <2>1, <2>3, <3>1 DEF Alone, Fresh
  <2>5. CallerInv(k)'
    BY <1>1, <1>2, <1>3, <2>1, <2>3 DEF CallerInv, Busy
  <2>6. Activations(k)' = Activations(k) + 0 /\ socket_requests_in_flight_' = socket_requests_in_flight_ + 0
    BY <1>1, <2>1, <2>3 DEF Activations, CallerInv
  <2>7. MutexInv'
    BY <1>1, <1>3, <2>1 DEF MutexInv
  <2> QED
    BY <1>2, <2>4, <2>5, <2>6, <2>7, CallerControl
<1>8. CASE Exit(k)
  <2>1. Return(k, "exit", ret[k]) /\ socket_requests_in_flight_' = socket_requests_in_flight_ + -1
    BY <1>1, <1>8 DEF Exit
  <2>2. pc[k] = "exit" /\ ~cur[k].stream
    BY <1>1, <2>1 DEF Return, Idle, CallerInv
  <2>3. Alone(k)
    BY <1>1, <1>2, <1>3, <1>4, <2>1 DEF Return, Idle, Alone, Fresh
  <2>4. CallerInv(k)'
    BY <1>1, <1>2, <1>3, <2>1, <2>2 DEF Return, Idle, CallerInv, Busy, None
  <2>5. Activations(k)' = Activations(k) + -1
    BY <1>1, <2>1, <2>2 DEF Return, Idle, Activations, None
  <2>6. MutexInv'
    BY <1>1, <1>3, <2>1 DEF Return, Idle, MutexInv
  <2> QED
    BY <1>2, <2>1, <2>3, <2>4, <2>5, <2>6, CallerControl
<1> QED
  BY <1>5, <1>6, <1>7, <1>8

\* stop() keeps the control.
LEMMA StopControl ==
  ASSUME ClientAssumption, ControlInv, UNCHANGED serverVars, StopClient
  PROVE  ControlInv'
<1> USE DEF serverVars, listenVars, servingVars, callerVars
<1>1. /\ TypeOK /\ MutexInv /\ ServingInv /\ \A c \in Conns : Fresh(c)
      /\ \A k \in Callers : CallerInv(k)
      /\ socket_ \in Conns \cup {0} /\ socket_requests_in_flight_ = Cardinality(InFlight)
  BY DEF ControlInv, TypeOK, ClientTypeOK
<1>2. TypeOK' /\ 0 \notin Conns
  BY <1>1, StopTypes DEF Conns
<1>3. /\ UNCHANGED <<serverEnd, up, down, sent, answered, spoiled>>
      /\ UNCHANGED <<socket_mutex_, socket_requests_in_flight_, callerVars>>
      /\ socket_' \in {0, socket_}
  BY DEF StopClient, WireUnchanged, CloseSocket
<1>4. \A c \in Conns : /\ clientEnd'[c] = "none" => clientEnd[c] = "none"
                       /\ clientEnd[c] # "none" => clientEnd'[c] # "none"
  <2>1. \E c \in Conns \cup {0} : Shut(c)
    BY <1>1 DEF StopClient, CloseSocket
  <2> QED
    BY <1>1, <2>1 DEF Shut, TypeOK, ConnectionsTypeOK
<1>5. \A c \in Conns : Fresh(c)'
  BY <1>1, <1>2, <1>3, <1>4 DEF Fresh
<1>6. ServingInv'
  BY <1>1, <1>3, <1>4 DEF ServingInv, Clear
<1>7. \A k \in Callers : CallerInv(k)'
  BY <1>1, <1>2, <1>3 DEF CallerInv, Busy
<1>8. MutexInv' /\ socket_requests_in_flight_' = Cardinality(InFlight')
  <2>1. InFlight' = InFlight
    BY <1>3 DEF InFlight, Activations
  <2> QED
    BY <1>1, <1>3, <2>1 DEF MutexInv
<1> QED
  BY <1>2, <1>5, <1>6, <1>7, <1>8 DEF ControlInv

\* It all begins so.
LEMMA InitControl ==
  ASSUME ConnectionsAssumption, ClientAssumption, Init
  PROVE  ControlInv
<1> USE DEF Init, ConnectionsInit, ServerInit, ClientInit
<1>1. ConnectionsTypeOK
  <2>1. <<>> \in Seq(UpUnits) /\ <<>> \in Seq(DownUnits) /\ <<>> \in Seq(Nat) /\ <<>> \in Seq(Nat \cup {Error})
    BY EmptySeq
  <2> QED
    BY <2>1 DEF ConnectionsTypeOK
<1>2. ServerTypeOK
  BY DEF ServerTypeOK
<1>3. ClientTypeOK
  <2>1. NoAnswer \in Answers
    BY DEF NoAnswer, Answers
  <2> QED
    <3>1. depth \in [Callers -> 0 .. MaxRedirects]
      BY ClientAssumption
    <3>2. cur \in [Callers -> Requests \cup {None}] /\ got \in [Callers -> Answers]
      BY <2>1
    <3> QED
      BY <3>1, <3>2 DEF ClientTypeOK
<1>4. 0 \notin Conns
  BY DEF Conns
<1>5. \A c \in Conns : Fresh(c)
  BY <1>4 DEF Fresh
<1>6. ServingInv
  BY DEF ServingInv
<1>7. \A k \in Callers : CallerInv(k)
  BY DEF CallerInv, Busy, None
<1>8. MutexInv
  BY DEF MutexInv
<1>9. InFlight = {}
  BY ClientAssumption DEF InFlight, Activations
<1> QED
  BY <1>1, <1>2, <1>3, <1>5, <1>6, <1>7, <1>8, <1>9, FS_EmptySet DEF ControlInv, TypeOK

\* Every step keeps it.
LEMMA NextControl ==
  ASSUME ConnectionsAssumption, ClientAssumption, ControlInv, [Next]_vars
  PROVE  ControlInv'
<1>1. CASE UNCHANGED vars
  <2> USE <1>1 DEF vars, connectionVars, serverVars, listenVars, servingVars
  <2>1. TypeOK' /\ ServingInv' /\ \A c \in Conns : Fresh(c)'
    BY DEF ControlInv, TypeOK, ConnectionsTypeOK, ServerTypeOK, ClientTypeOK, ServingInv, Fresh, Clear,
       clientVars, sharedVars, callerVars
  <2> QED
    BY <2>1, ServerFrame DEF ControlInv
<1>2. CASE ServerStep(ListenAsync) \/ ServerStep(Stop)
  BY <1>2, ListenControl DEF ServerStep
<1>3. ASSUME NEW c \in Conns, ServerStep(ProcessRequest(c)) PROVE ControlInv'
  BY <1>3, RequestControl DEF ServerStep
<1>4. ASSUME NEW k \in Callers, ClientStep(Send(k) \/ Continues(k) \/ DropHandle(k)) PROVE ControlInv'
  BY <1>4, SendControl, ExchangeControl, FinishControl DEF ClientStep, Continues
<1>5. CASE ClientStep(StopClient)
  BY <1>5, StopControl DEF ClientStep
<1> QED
  BY <1>1, <1>2, <1>3, <1>4, <1>5 DEF Next

-----------------------------------------------------------------------------
(***************************************************************************)
(* What is on the connections.                                             *)
(***************************************************************************)
\* A connection is accepted, served, shut down or closed: what was written and
\* not read is lost, or stays.
Ends(c) ==
  /\ down'[c] = down[c] /\ sent'[c] = sent[c] /\ answered'[c] = answered[c]
  /\ req'[c] = req[c] /\ left'[c] = left[c]
  /\ spoiled[c] \subseteq spoiled'[c]
  /\ clientEnd'[c] \in {clientEnd[c], "closed"}
  /\ serverEnd[c] \in {"cancelled", "closed"} => serverEnd'[c] \in {serverEnd[c], "closed"}
  /\ up'[c] = up[c] \/ (up'[c] = <<>> /\ serverEnd'[c] = "closed")
  /\ \/ serving'[c] = serving[c]
     \/ serving[c] = "none" /\ serving'[c] = "line"
     \/ ~Working(c) /\ serving'[c] \in {"close", "over"}

\* That keeps quiet connections quiet, and answers in step.
LEMMA EndsFrame ==
  ASSUME TypeOK, NEW c \in Conns, Ends(c)
  PROVE  /\ Quiet(c) => Quiet(c)'
         /\ Mute(c) => Mute(c)'
         /\ Deafened(c) => Deafened(c)'
         /\ Working(c)' <=> Working(c)
         /\ \A r : UnderWay(c, r) => UnderWay(c, r)' \/ (Mute(c)' /\ Deafened(c)')
         /\ \A r : BodyAwaited(c, r) => BodyAwaited(c, r)' \/ (Mute(c)' /\ Deafened(c)')
<1>1. serving[c] \in {"none", "line", "expect", "routing", "respond", "close", "over"}
  BY DEF TypeOK, ServerTypeOK
<1>2. Working(c)' <=> Working(c)
  BY <1>1 DEF Ends, Working
<1>3. (Quiet(c) => Quiet(c)') /\ (Mute(c) => Mute(c)') /\ (Deafened(c) => Deafened(c)')
  BY <1>1, <1>2 DEF Ends, Quiet, Mute, Deafened, Working
<1>4. ASSUME NEW r, UnderWay(c, r) PROVE UnderWay(c, r)' \/ (Mute(c)' /\ Deafened(c)')
  BY <1>1, <1>2, <1>4 DEF Ends, UnderWay, Mute, Deafened, Working, H, B
<1>5. ASSUME NEW r, BodyAwaited(c, r) PROVE BodyAwaited(c, r)' \/ (Mute(c)' /\ Deafened(c)')
  BY <1>1, <1>2, <1>5 DEF Ends, BodyAwaited, Mute, Deafened, Working, H
<1> QED
  BY <1>2, <1>3, <1>4, <1>5

\* A caller that does not move.
Stays(k) ==
  /\ pc'[k] = pc[k] /\ cur'[k] = cur[k] /\ on'[k] = on[k] /\ got'[k] = got[k] /\ ret'[k] = ret[k]

\* A caller's exchange when the server ends its connection.
LEMMA EndsExchange ==
  ASSUME TypeOK, NEW c \in Conns, Ends(c), NEW k \in Callers, Stays(k), on[k] = c,
         ExchangeInv(k), socket_' = c => socket_ = c
  PROVE  ExchangeInv(k)'
<1>1. /\ Quiet(c) => Quiet(c)'
      /\ Mute(c) => Mute(c)'
      /\ Deafened(c) => Deafened(c)'
      /\ Working(c)' <=> Working(c)
  BY EndsFrame
<1>2. /\ UnderWay(c, cur[k]) => UnderWay(c, cur[k])' \/ (Mute(c)' /\ Deafened(c)')
      /\ BodyAwaited(c, cur[k]) => BodyAwaited(c, cur[k])' \/ (Mute(c)' /\ Deafened(c)')
  <2>1. cur'[k] = cur[k]
    BY DEF Stays
  <2> QED
    BY <2>1, EndsFrame
<1>3. /\ on'[k] = c /\ pc'[k] = pc[k] /\ cur'[k] = cur[k] /\ got'[k] = got[k] /\ ret'[k] = ret[k]
      /\ down'[c] = down[c] /\ answered'[c] = answered[c]
      /\ up[c] = <<>> => up'[c] = <<>>
  BY DEF Stays, Ends
<1>4. Unanswered(k) => Unanswered(k)'
  BY <1>1, <1>2, <1>3 DEF Unanswered, Reaches, Ends, Working
<1>5. AnswerIsNext(k) => AnswerIsNext(k)'
  BY <1>1, <1>3 DEF AnswerIsNext, IsAll, NoContent
<1> QED
  BY <1>1, <1>2, <1>3, <1>4, <1>5 DEF ExchangeInv

\* What was written and not read may be lost: no other exchange is disturbed.
LEMMA EndsInv ==
  ASSUME TypeOK, NEW c \in Conns, Ends(c), ConnectionInv(c), Sole(c)',
         \A k \in Callers : on'[k] = c => Stays(k) \/ ExchangeInv(k)',
         socket_' = c => socket_ = c,
         socket_' = c /\ ~InUse(c)' => Quiet(c)
  PROVE  ConnectionInv(c)'
<1>1. AnsweredInStep(c)'
  BY DEF ConnectionInv, AnsweredInStep, Ends
<1>2. NextInStep(c) => NextInStep(c)'
  <2>1. CASE Deafened(c) \/ (up[c] = <<>> /\ ~Working(c) /\ answered[c] = sent[c])
    BY <2>1, EndsFrame DEF NextInStep, Ends
  <2>2. CASE /\ up[c] = <<>> => Working(c)
             /\ UnderWay(c, AskedOn(c)) /\ Append(answered[c], AskedOn(c).id) = sent[c]
    <3>1. PICK r : r = AskedOn(c)
      OBVIOUS
    <3>2. UnderWay(c, r)' \/ Deafened(c)'
      BY <2>2, <3>1, EndsFrame
    <3>3. UnderWay(c, r)' => AskedOn(c)' = r /\ (up'[c] = <<>> => Working(c)')
      BY DEF UnderWay, AskedOn, H
    <3>4. UnderWay(c, r)' => UnderWay(c, AskedOn(c))'
      BY <3>3
    <3>5. UnderWay(c, r)' => Append(answered'[c], AskedOn(c)'.id) = sent'[c]
      BY <2>2, <3>1, <3>3 DEF Ends
    <3> QED
      BY <3>2, <3>3, <3>4, <3>5 DEF NextInStep
  <2> QED
    BY <2>1, <2>2 DEF NextInStep
<1>3. ASSUME NEW k \in Callers, on'[k] = c PROVE ExchangeInv(k)'
  BY <1>3, EndsExchange DEF ConnectionInv, Stays
<1> QED
  BY <1>1, <1>2, <1>3, EndsFrame DEF ConnectionInv, Ends

\* The server loses what was written to it, and disturbs nothing.
LEMMA ServerEnds ==
  ASSUME TypeOK, UNCHANGED clientVars, NEW c \in Conns, Ends(c), ConnectionInv(c)
  PROVE  ConnectionInv(c)'
<1> USE DEF clientVars, sharedVars, callerVars
<1>1. Sole(c)' /\ (InUse(c)' <=> InUse(c))
  BY DEF ConnectionInv, Sole, Uses, InUse, Busy
<1>2. \A k \in Callers : Stays(k)
  BY DEF Stays
<1> QED
  BY <1>1, <1>2, EndsInv DEF ConnectionInv

\* listen_async and stop() disturb nothing.
LEMMA ListenWire ==
  ASSUME IInv, UNCHANGED clientVars, ListenAsync \/ Stop
  PROVE  WireInv'
<1> USE DEF listenVars, servingVars, connectionVars
<1>1. TypeOK /\ ServingInv
  BY DEF IInv, ControlInv
<1>2. UNCHANGED <<clientEnd, down, sent, answered, spoiled, req, left>>
  BY DEF ListenAsync, Stop, Bind, Start, EnterLoop, Accept, AcceptThrows,
     PushClient, ShutdownTasks, StopExchange, StopCloses, StopCancels
<1>3. ASSUME NEW c \in Conns
      PROVE  /\ serverEnd[c] \in {"cancelled", "closed"} => serverEnd'[c] \in {serverEnd[c], "closed"}
             /\ up'[c] = up[c] \/ (up'[c] = <<>> /\ serverEnd'[c] = "closed")
  <2>1. CASE Accept
    BY <1>1, <2>1 DEF Accept, Backlog, TypeOK, ConnectionsTypeOK
  <2>2. CASE StopCloses
    <3>1. PICK closed : ServerCloses(closed, {})
      BY <2>2 DEF StopCloses
    <3> QED
      BY <1>1, <3>1, Closes
  <2>3. CASE StopCancels
    <3>1. PICK pending : /\ \A d \in pending : serverEnd[d] = "open"
                         /\ ServerCloses(clients_ \ pending, pending)
      BY <2>3 DEF StopCancels
    <3> QED
      BY <1>1, <3>1, Closes
  <2> QED
    BY <2>1, <2>2, <2>3
       DEF ListenAsync, Stop, Bind, Start, EnterLoop, AcceptThrows, PushClient, ShutdownTasks, StopExchange
<1>4. ASSUME NEW c \in Conns
      PROVE  serving'[c] = serving[c] \/ (serving[c] = "none" /\ serving'[c] = "line")
  <2>1. CASE PushClient
    BY <1>1, <2>1 DEF PushClient, Listen, ServingInv, TypeOK, ServerTypeOK
  <2> QED
    BY <2>1 DEF ListenAsync, Stop, Bind, Start, EnterLoop, Accept, AcceptThrows, ShutdownTasks, StopExchange,
       StopCloses, StopCancels
<1>5. \A c \in Conns : Ends(c)
  BY <1>2, <1>3, <1>4 DEF Ends
<1> QED
  BY <1>1, <1>2, <1>5, ServerEnds DEF IInv, WireInv, Clear

\* A task leaves the other connections alone, and may end its own.
LEMMA ElsewhereWire ==
  ASSUME IInv, UNCHANGED clientVars, NEW c \in Conns, ProcessRequest(c),
         Clear(c)' => ConnectionInv(c)'
  PROVE  WireInv'
<1>1. TypeOK
  BY DEF IInv, ControlInv
<1>2. ASSUME NEW d \in Conns \ {c} PROVE Ends(d) /\ spoiled'[d] = spoiled[d]
  BY <1>1, ProcessRequestFrame DEF Ends
<1> QED
  BY <1>1, <1>2, ServerEnds DEF IInv, WireInv, Clear

\* The wire when the server closes a connection.
LEMMA CloseWire ==
  ASSUME IInv, UNCHANGED clientVars, NEW c \in Conns, NoRequestLine(c) \/ CloseConnection(c)
  PROVE  WireInv'
<1>1. TypeOK
  BY DEF IInv, ControlInv
<1>2. Ends(c) /\ spoiled' = spoiled
  <2>1. CASE NoRequestLine(c)
    BY <1>1, <2>1 DEF NoRequestLine, Serve, Working, Ends, connectionVars, TypeOK, ServerTypeOK
  <2>2. CASE CloseConnection(c)
    <3>1. serverEnd'[c] = "closed" /\ up'[c] = <<>>
      BY <1>1, <2>2, Closes DEF CloseConnection
    <3>2. serving[c] = "close" /\ serving'[c] = "over"
      BY <1>1, <2>2 DEF CloseConnection, Serve, TypeOK, ServerTypeOK
    <3> QED
      BY <2>2, <3>1, <3>2 DEF CloseConnection, Working, Ends
  <2> QED
    BY <2>1, <2>2
<1> QED
  BY <1>1, <1>2, ServerEnds, ElsewhereWire DEF IInv, WireInv, Clear, ProcessRequest

\* What is written to a connection comes behind what is there.
LEMMA AnswerStays ==
  ASSUME NEW d \in Seq(DownUnits), NEW e \in Seq(DownUnits), NEW id, NEW n \in {0, 1}, AnswerNext(d, id, n)
  PROVE  AnswerNext(d \o e, id, n) /\ (d \o e)[n + 1] = d[n + 1]
<1>1. Len(d) \in Nat /\ Len(e) \in Nat /\ Len(d \o e) = Len(d) + Len(e)
      /\ \A i \in 1 .. Len(d) : (d \o e)[i] = d[i]
  BY ConcatProperties, LenProperties
<1>2. (d \o e)[n + 1] = d[n + 1] /\ (d # <<>> => d \o e # <<>> /\ (d \o e)[1] = d[1])
  BY <1>1, EmptySeq DEF AnswerNext
<1> QED
  BY <1>1, <1>2 DEF AnswerNext

\* The exchange of a caller goes on while the server works on its request.
LEMMA WorkExchange ==
  ASSUME TypeOK, UNCHANGED clientVars, NEW c \in Conns, NEW k \in Callers, on[k] = c, ExchangeInv(k),
         Working(c) \/ up[c] # <<>>, ~Deafened(c),
         NEW units \in Seq(DownUnits), down'[c] = down[c] \o units,
         Error \in ToSet(answered[c]) => Error \in ToSet(answered'[c]),
         pc[k] \in {"body", "answer"} /\ Unanswered(k) => Unanswered(k)' \/ AnswerIsNext(k)',
         pc[k] = "body" /\ BodyAwaited(c, cur[k]) =>
           Error \in ToSet(answered'[c]) \/ Deafened(c)' \/ BodyAwaited(c, cur[k])'
  PROVE  ExchangeInv(k)'
<1>1. UNCHANGED <<pc, on, cur, got, ret, socket_>>
  BY DEF clientVars, sharedVars, callerVars
<1>2. ~Quiet(c)
  BY DEF Quiet
<1>3. AnswerIsNext(k) => AnswerIsNext(k)'
  <2>1. ASSUME AnswerIsNext(k) PROVE AnswerIsNext(k)'
    <3>1. PICK n \in {0, 1} : AnswerNext(down[c], cur[k].id, n) /\ down[c][n + 1].close
      BY <2>1 DEF AnswerIsNext, IsAll
    <3>2. down[c] \in Seq(DownUnits)
      BY DEF TypeOK, ConnectionsTypeOK
    <3>3. AnswerNext(down[c] \o units, cur[k].id, n) /\ (down[c] \o units)[n + 1] = down[c][n + 1]
      <4>1. down[c] \in Seq(DownUnits) /\ AnswerNext(down[c], cur[k].id, n)
        BY <3>1, <3>2
      <4> QED
        BY <4>1, AnswerStays, Zenon
    <3> QED
      BY <1>1, <3>1, <3>3 DEF AnswerIsNext
  <2> QED
    BY <2>1
<1>4. pc[k] \in {"body", "answer"} => Unanswered(k)' \/ AnswerIsNext(k)'
  BY <1>3 DEF ExchangeInv
<1>5. pc[k] = "body" => Error \in ToSet(answered'[c]) \/ Deafened(c)' \/ BodyAwaited(c, cur[k])'
  BY DEF ExchangeInv
<1> QED
  BY <1>1, <1>2, <1>4, <1>5 DEF ExchangeInv

\* So does a connection.
LEMMA WorkInv ==
  ASSUME IInv, UNCHANGED clientVars, NEW c \in Conns, ProcessRequest(c),
         Working(c) \/ up[c] # <<>>, ~Deafened(c),
         Clear(c)' =>
           /\ AnsweredInStep(c)'
           /\ Error \notin ToSet(answered'[c]) => NextInStep(c)'
           /\ \A k \in Callers : on[k] = c => ExchangeInv(k)'
  PROVE  WireInv'
<1> USE DEF clientVars, sharedVars, callerVars
<1>1. ASSUME Clear(c)' PROVE ConnectionInv(c)'
  <2>1. ConnectionInv(c)
    BY <1>1, ProcessRequestFrame DEF IInv, ControlInv, WireInv, Clear
  <2>2. Sole(c)' /\ (InUse(c)' <=> InUse(c))
    BY <2>1 DEF ConnectionInv, Sole, Uses, InUse, Busy
  <2>3. ~(socket_ = c /\ ~InUse(c))
    BY <2>1 DEF ConnectionInv, Quiet
  <2> QED
    BY <1>1, <2>2, <2>3 DEF ConnectionInv
<1> QED
  BY <1>1, ElsewhereWire

\* A task that works on a request goes on to do so.
LEMMA WorksWire ==
  ASSUME IInv, UNCHANGED clientVars, NEW c \in Conns,
         Expect(c) \/ ExpectRefused(c) \/ RouteUnread(c) \/ ReadContentFails(c) \/ Dispatch(c)
  PROVE  WireInv'
<1>1. TypeOK
  BY DEF IInv, ControlInv
<1>2. Working(c) /\ serving'[c] \in {"routing", "respond"}
  BY <1>1 DEF Expect, ExpectRefused, RouteUnread, ReadContentFails, Dispatch, WillAnswer, Serve, Working,
     TypeOK, ServerTypeOK
<1>3. /\ UNCHANGED <<up, clientEnd, serverEnd, answered, sent, req, left>>
      /\ ~Expect(c) => down' = down
  BY DEF Expect, ExpectRefused, RouteUnread, ReadContentFails, Dispatch, connectionVars
<1>4. ~Deafened(c) /\ Working(c)' /\ (Mute(c) => Mute(c)')
  BY <1>2, <1>3 DEF Deafened, Mute, Working
<1>5. ASSUME Clear(c)'
      PROVE  \E units \in Seq(DownUnits) :
               /\ down'[c] = down[c] \o units
               /\ units # <<>> => /\ serving[c] = "expect" /\ serving'[c] = "routing" /\ ~Mute(c)
                                  /\ Len(units) = 1 /\ units[1].t = "continue"
  <2>1. down[c] \in Seq(DownUnits) /\ <<>> \in Seq(DownUnits) /\ down[c] \o <<>> = down[c]
    BY <1>1, EmptySeq, ConcatEmptySeq DEF TypeOK, ConnectionsTypeOK
  <2>2. CASE Expect(c)
    <3>1. PICK code \in {"continue", "417"} :
            /\ ServerWrites(c, <<[t |-> code, id |-> req[c].id]>>)
            /\ Spoil(c, {code} \ {"continue"})
      BY <2>2 DEF Expect
    <3>2. code = "continue"
      BY <1>1, <1>5, <3>1, Spoils DEF Clear
    <3> DEFINE unit == [t |-> code, id |-> req[c].id]
    <3>3. unit \in DownUnits /\ unit.t = "continue"
      BY <1>1, <3>2, RequestId DEF DownUnits
    <3> HIDE DEF unit
    <3>4. <<unit>> \in Seq(DownUnits) /\ Len(<<unit>>) = 1 /\ <<unit>>[1] = unit
      BY <2>1, <3>3, UnitsSent
    <3>5. serving[c] = "expect" /\ serving'[c] = "routing"
      BY <1>1, <2>2 DEF Expect, Serve, TypeOK, ServerTypeOK
    <3>6. ServerWrites(c, <<unit>>)
      BY <3>1 DEF unit
    <3>7. CASE serverEnd[c] = "open" /\ clientEnd[c] = "open"
      <4>1. down'[c] = down[c] \o <<unit>> /\ ~Mute(c)
        BY <1>1, <3>4, <3>5, <3>6, <3>7, Writes DEF Mute
      <4> QED
        BY <3>3, <3>4, <3>5, <4>1
    <3>8. CASE ~(serverEnd[c] = "open" /\ clientEnd[c] = "open")
      BY <1>1, <2>1, <3>4, <3>6, <3>8, Writes
    <3> QED
      BY <3>7, <3>8
  <2> QED
    BY <1>3, <2>1, <2>2
<1>6. ASSUME Clear(c)', NEW k \in Callers, on[k] = c PROVE ExchangeInv(k)'
  <2>1. PICK units \in Seq(DownUnits) :
               /\ down'[c] = down[c] \o units
               /\ units # <<>> => /\ serving[c] = "expect" /\ serving'[c] = "routing" /\ ~Mute(c)
                                  /\ Len(units) = 1 /\ units[1].t = "continue"
    BY <1>5, <1>6
  <2>2. ExchangeInv(k) /\ down[c] \in Seq(DownUnits)
    BY <1>1, <1>6, ProcessRequestFrame DEF IInv, WireInv, ConnectionInv, Clear, ProcessRequest, TypeOK, ConnectionsTypeOK
  <2>3. BodyAwaited(c, cur[k]) => BodyAwaited(c, cur[k])'
    BY <1>2, <1>3, <1>4 DEF BodyAwaited, clientVars, callerVars
  <2>4. ASSUME Unanswered(k) PROVE Unanswered(k)'
    <3>1. Reaches(k) => Reaches(k)'
      BY <1>2, <1>3, <1>4, <1>6, <2>3 DEF Reaches, UnderWay, clientVars, callerVars
    <3>2. Mute(c)' \/ Reaches(k)'
      BY <1>4, <1>6, <2>4, <3>1 DEF Unanswered
    <3>3. CASE units = <<>>
      <4>1. down'[c] = down[c]
        BY <2>1, <2>2, <3>3, ConcatEmptySeq
      <4> QED
        BY <1>2, <1>4, <1>6, <2>4, <3>2, <4>1 DEF Unanswered, clientVars, callerVars
    <3>4. CASE units # <<>>
      <4>1. down[c] = <<>>
        BY <1>6, <2>1, <2>4, <3>4 DEF Unanswered
      <4>2. down'[c] = units
        BY <2>1, <4>1, ConcatEmptySeq
      <4> QED
        BY <1>6, <2>1, <3>2, <3>4, <4>2 DEF Unanswered, clientVars, callerVars
    <3> QED
      BY <3>3, <3>4
  <2> QED
    BY <1>1, <1>2, <1>3, <1>4, <1>6, <2>1, <2>2, <2>3, <2>4, WorkExchange
<1>7. ASSUME Clear(c)' PROVE AnsweredInStep(c)' /\ (Error \notin ToSet(answered'[c]) => NextInStep(c)')
  <2>1. ConnectionInv(c)
    BY <1>1, <1>7, ProcessRequestFrame DEF IInv, WireInv, Clear, ProcessRequest
  <2>2. NextInStep(c) => NextInStep(c)'
    BY <1>2, <1>3, <1>4 DEF NextInStep, UnderWay, AskedOn
  <2> QED
    BY <1>3, <2>1, <2>2 DEF ConnectionInv, AnsweredInStep
<1> QED
  BY <1>2, <1>4, <1>6, <1>7, WorkInv DEF ProcessRequest

\* A task reads a request: the user's, if the connection is clear.
LEMMA ReadRequestWire ==
  ASSUME IInv, UNCHANGED clientVars, NEW c \in Conns, ReadRequest(c)
  PROVE  WireInv'
<1>1. TypeOK /\ \A k \in Callers : CallerInv(k)
  BY DEF IInv, ControlInv
<1>2. /\ up[c] # <<>> /\ up[c] \in Seq(UpUnits) /\ Head(up[c]) = up[c][1]
      /\ serverEnd[c] \in {"open", "cancelled"} /\ serverEnd'[c] \in {serverEnd[c], "closed"}
      /\ up'[c] = Tail(up[c]) \/ (up'[c] = <<>> /\ serverEnd[c] = "cancelled")
  <2>1. up[c] \in Seq(UpUnits)
    BY <1>1 DEF TypeOK, ConnectionsTypeOK
  <2>2. ServerReads(c)
    BY DEF ReadRequest
  <2>3. up[c] # <<>> /\ Head(up[c]) = up[c][1]
    BY <1>1, <2>1, <2>2, Reads, UnitsSent
  <2> QED
    BY <1>1, <2>1, <2>2, <2>3, Reads
<1>3. UNCHANGED <<clientEnd, down, sent, answered, spoiled>>
  BY DEF ReadRequest
<1>4. serving[c] = "line" /\ serving'[c] \in {"expect", "routing", "respond"}
  BY <1>1 DEF ReadRequest, WillAnswer, Serve, TypeOK, ServerTypeOK
<1>5. ~Deafened(c) /\ ~Working(c) /\ Working(c)' /\ (Mute(c) => Mute(c)')
  BY <1>2, <1>3, <1>4 DEF Deafened, Mute, Working
<1>6. ASSUME NEW r, up[c][1] = H(r) PROVE req'[c] = r /\ (left'[c] <=> r.body)
  <2>1. H(r).t = "head" /\ H(r).of = r
    BY DEF H
  <2> QED
    BY <1>1, <1>2, <1>6, <2>1 DEF ReadRequest, IsRequestLine, TypeOK, ServerTypeOK
<1>7. ASSUME NEW r
      PROVE  /\ <<H(r)>>[1] = H(r) /\ Tail(<<H(r)>>) = <<>>
             /\ <<H(r), B>>[1] = H(r) /\ Tail(<<H(r), B>>) = <<B>>
             /\ H(r).of = r
  BY DEF H, B
<1>8. ASSUME NEW r, UnderWay(c, r) PROVE UnderWay(c, r)'
  <2>1. up[c] = <<H(r)>> \/ (r.body /\ up[c] = <<H(r), B>>)
    BY <1>5, <1>8 DEF UnderWay
  <2>2. req'[c] = r /\ (left'[c] <=> r.body)
    BY <1>6, <1>7, <2>1
  <2>3. up'[c] = <<>> \/ (r.body /\ up'[c] = <<B>>)
    <3>1. CASE up[c] = <<H(r)>>
      BY <1>2, <1>7, <3>1
    <3>2. CASE r.body /\ up[c] = <<H(r), B>>
      <4>1. Tail(up[c]) = <<B>>
        BY <1>7, <3>2
      <4> QED
        BY <1>2, <3>2, <4>1
    <3> QED
      BY <2>1, <3>1, <3>2
  <2> QED
    BY <1>5, <2>2, <2>3 DEF UnderWay
<1>9. ASSUME NEW r, r.body, BodyAwaited(c, r) PROVE BodyAwaited(c, r)'
  <2>1. up[c] = <<H(r)>>
    BY <1>5, <1>9 DEF BodyAwaited
  <2>2. req'[c] = r /\ left'[c] /\ up'[c] = <<>>
    BY <1>2, <1>6, <1>7, <1>9, <2>1
  <2> QED
    BY <1>5, <2>2 DEF BodyAwaited
<1>10. ASSUME Clear(c)', NEW k \in Callers, on[k] = c PROVE ExchangeInv(k)'
  <2> USE DEF clientVars, callerVars
  <2>1. ExchangeInv(k) /\ down'[c] = down[c] \o <<>> /\ <<>> \in Seq(DownUnits)
    BY <1>1, <1>3, <1>10, EmptySeq, ConcatEmptySeq
       DEF IInv, WireInv, ConnectionInv, Clear, TypeOK, ConnectionsTypeOK
  <2>2. pc[k] = "body" => cur[k].body
    BY <1>1 DEF CallerInv
  <2>3. BodyAwaited(c, cur[k]) /\ pc[k] = "body" => BodyAwaited(c, cur[k])'
    BY <1>9, <2>2
  <2>4. UnderWay(c, cur[k]) => UnderWay(c, cur[k])'
    BY <1>8
  <2>5. Unanswered(k) => Unanswered(k)'
    BY <1>3, <1>4, <1>5, <1>10, <2>3, <2>4 DEF Unanswered, Reaches
  <2> HIDE DEF clientVars, callerVars
  <2> QED
    BY <1>1, <1>2, <1>3, <1>5, <1>10, <2>1, <2>3, <2>5, WorkExchange
<1>11. ASSUME Clear(c)' PROVE AnsweredInStep(c)' /\ (Error \notin ToSet(answered'[c]) => NextInStep(c)')
  <2>1. ConnectionInv(c)
    BY <1>3, <1>11 DEF IInv, WireInv, Clear
  <2>2. NextInStep(c) => NextInStep(c)'
    <3>1. ASSUME NextInStep(c) PROVE NextInStep(c)'
      <4>1. PICK r : r = up[c][1].of /\ UnderWay(c, r) /\ Append(answered[c], r.id) = sent[c]
        BY <1>2, <1>5, <3>1 DEF NextInStep, AskedOn
      <4>2. UnderWay(c, r)'
        BY <1>8, <4>1
      <4>3. AskedOn(c)' = r
        BY <1>5, <4>2 DEF AskedOn, UnderWay
      <4> QED
        BY <1>3, <1>5, <4>1, <4>2, <4>3 DEF NextInStep
    <3> QED
      BY <3>1
  <2> QED
    BY <1>3, <2>1, <2>2 DEF ConnectionInv, AnsweredInStep
<1> QED
  BY <1>2, <1>5, <1>10, <1>11, WorkInv DEF ProcessRequest

\* A task reads the body of its request.
LEMMA ReadContentWire ==
  ASSUME IInv, UNCHANGED clientVars, NEW c \in Conns, ReadContent(c)
  PROVE  WireInv'
<1>1. TypeOK
  BY DEF IInv, ControlInv
<1>2. /\ up[c] # <<>> /\ serverEnd'[c] \in {serverEnd[c], "closed"}
      /\ up'[c] = Tail(up[c]) \/ up'[c] = <<>>
  BY <1>1, Reads DEF ReadContent
<1>3. UNCHANGED <<clientEnd, down, sent, answered, spoiled, serving, req>> /\ serving[c] = "routing"
  BY DEF ReadContent
<1>4. ~Deafened(c) /\ Working(c) /\ Working(c)' /\ (Mute(c) => Mute(c)')
  BY <1>2, <1>3 DEF Deafened, Mute, Working
<1>5. Tail(<<B>>) = <<>>
  BY DEF B
<1>6. ASSUME NEW r, UnderWay(c, r) PROVE UnderWay(c, r)'
  BY <1>2, <1>3, <1>4, <1>5, <1>6 DEF UnderWay
<1>7. \A r : ~BodyAwaited(c, r)
  BY <1>2, <1>4 DEF BodyAwaited
<1>8. ASSUME Clear(c)', NEW k \in Callers, on[k] = c PROVE ExchangeInv(k)'
  <2> USE DEF clientVars, callerVars
  <2>1. ExchangeInv(k) /\ down'[c] = down[c] \o <<>> /\ <<>> \in Seq(DownUnits)
    BY <1>1, <1>3, <1>8, EmptySeq, ConcatEmptySeq
       DEF IInv, WireInv, ConnectionInv, Clear, TypeOK, ConnectionsTypeOK
  <2>2. UnderWay(c, cur[k]) => UnderWay(c, cur[k])'
    BY <1>6
  <2>3. Unanswered(k) => Unanswered(k)'
    BY <1>3, <1>4, <1>7, <1>8, <2>2 DEF Unanswered, Reaches
  <2> HIDE DEF clientVars, callerVars
  <2> QED
    BY <1>1, <1>3, <1>4, <1>7, <1>8, <2>1, <2>3, WorkExchange
<1>9. ASSUME Clear(c)' PROVE AnsweredInStep(c)' /\ (Error \notin ToSet(answered'[c]) => NextInStep(c)')
  <2>1. ConnectionInv(c)
    BY <1>3, <1>9 DEF IInv, WireInv, Clear
  <2>2. NextInStep(c) => NextInStep(c)'
    <3>1. UnderWay(c, req[c]) => UnderWay(c, req[c])'
      BY <1>3, <1>6
    <3> QED
      BY <1>2, <1>3, <1>4, <3>1 DEF NextInStep, AskedOn
  <2> QED
    BY <1>3, <2>1, <2>2 DEF ConnectionInv, AnsweredInStep
<1> QED
  BY <1>4, <1>8, <1>9, WorkInv DEF ProcessRequest

\* The answers t are those of q, and perhaps an error at the end.
Follows(t, q, x) ==
  \A i \in DOMAIN t : IF t[i] = x THEN i = Len(t) ELSE i \in DOMAIN q /\ t[i] = q[i]

\* An answer follows the ones before it, and none is an error.
LEMMA NoErrorYet ==
  ASSUME NEW S, NEW s \in Seq(S), NEW id \in S, NEW x, x # id, x \notin ToSet(s)
  PROVE  /\ Append(s, id) \in Seq(S) /\ x \notin ToSet(Append(s, id))
         /\ Follows(Append(s, id), Append(s, id), x)
<1>1. PICK q \in Seq(S) : q = Append(s, id)
  BY AppendProperties
<1>2. /\ Len(q) = Len(s) + 1 /\ Len(s) \in Nat /\ q[Len(s) + 1] = id
      /\ \A i \in 1 .. Len(s) : q[i] = s[i]
      /\ DOMAIN s = 1 .. Len(s) /\ DOMAIN q = 1 .. Len(q)
  BY <1>1, AppendProperties, LenProperties
<1>3. \A i \in DOMAIN q : q[i] # x
  BY <1>2 DEF ToSet
<1> QED
  BY <1>1, <1>3 DEF ToSet, Follows

\* An error follows the answers as the last of them.
LEMMA ErrorLast ==
  ASSUME NEW S, NEW q \in Seq(S), NEW x \in S, x \notin ToSet(q)
  PROVE  x \in ToSet(Append(q, x)) /\ Follows(Append(q, x), q, x)
<1>1. PICK t \in Seq(S) : t = Append(q, x)
  BY AppendProperties
<1>2. /\ Len(t) = Len(q) + 1 /\ Len(q) \in Nat /\ t[Len(q) + 1] = x
      /\ \A i \in 1 .. Len(q) : t[i] = q[i]
      /\ DOMAIN q = 1 .. Len(q) /\ DOMAIN t = 1 .. Len(t)
  BY <1>1, AppendProperties, LenProperties
<1>3. PICK n \in DOMAIN t : n = Len(q) + 1
  BY <1>2
<1>4. \A i \in DOMAIN q : q[i] # x
  BY DEF ToSet
<1>5. Follows(t, q, x)
  BY <1>2, <1>4 DEF Follows
<1> QED
  BY <1>1, <1>2, <1>3, <1>5 DEF ToSet

\* What is written first behind nothing, or behind a 100, is next.
LEMMA AnswerWritten ==
  ASSUME NEW d \in Seq(DownUnits), NEW u \in Seq(DownUnits), Len(u) \in {1, 2}, u[1].t = "answer",
         d = <<>> \/ (Len(d) = 1 /\ d[1].t = "continue")
  PROVE  LET n == Len(d) IN
         /\ n \in {0, 1} /\ AnswerNext(d \o u, u[1].id, n)
         /\ (d \o u)[n + 1] = u[1] /\ Len(d \o u) = n + Len(u)
<1>1. /\ Len(d) \in {0, 1} /\ Len(u) \in Nat /\ Len(d \o u) = Len(d) + Len(u) /\ d \o u \in Seq(DownUnits)
      /\ \A i \in 1 .. Len(d) + Len(u) : (d \o u)[i] = IF i <= Len(d) THEN d[i] ELSE u[i - Len(d)]
  BY ConcatProperties, LenProperties, EmptySeq
<1>2. (d \o u)[Len(d) + 1] = u[1] /\ d \o u # <<>>
  BY <1>1, EmptySeq
<1>3. Len(d) = 1 => (d \o u)[1] = d[1] /\ d[1].t = "continue"
  BY <1>1, EmptySeq
<1> QED
  BY <1>1, <1>2, <1>3 DEF AnswerNext

\* A head, and perhaps a content.
LEMMA HeadAndContent ==
  ASSUME NEW S, NEW a \in S, NEW e \in Seq(S)
  PROVE  /\ <<a>> \o e \in Seq(S) /\ (<<a>> \o e)[1] = a
         /\ Len(e) = 0 => Len(<<a>> \o e) = 1
         /\ Len(e) = 1 => Len(<<a>> \o e) = 2
<1>1. PICK h \in Seq(S) : h = <<a>>
  BY UnitsSent
<1>2. Len(h) = 1 /\ h[1] = a
  BY <1>1
<1>3. /\ h \o e \in Seq(S) /\ Len(h \o e) = Len(h) + Len(e) /\ Len(e) \in Nat
      /\ \A k \in 1 .. Len(h) + Len(e) : (h \o e)[k] = IF k <= Len(h) THEN h[k] ELSE e[k - Len(h)]
  BY ConcatProperties, LenProperties
<1>4. (h \o e)[1] = a
  BY <1>2, <1>3
<1> QED
  BY <1>1, <1>2, <1>3, <1>4

\* An answer without a content.
Bare(c) == req[c].method = "HEAD" \/ status[c] = "not modified"

\* A task writes the answer to its request.
LEMMA WriteOnWire ==
  ASSUME IInv, UNCHANGED clientVars, NEW c \in Conns, WriteResponse(c) \/ WriteResponseFails(c)
  PROVE  WireInv'
<1>1. /\ TypeOK /\ ServingInv /\ \A k \in Callers : CallerInv(k)
      /\ down[c] \in Seq(DownUnits) /\ <<>> \in Seq(DownUnits)
      /\ answered[c] \in Seq(Nat \cup {Error}) /\ req[c].id \in Nat
  BY EmptySeq, RequestId DEF IInv, ControlInv, TypeOK, ConnectionsTypeOK
<1>2. /\ serving[c] = "respond" /\ serving'[c] \in {"line", "close"}
      /\ serving'[c] = "line" => serverEnd[c] = "open" /\ WriteResponse(c)
      /\ WriteResponseFails(c) => serving'[c] = "close"
  BY <1>1 DEF WriteResponse, WriteResponseFails, Serve, TypeOK, ServerTypeOK
<1>3. UNCHANGED <<up, clientEnd, serverEnd, sent, spoiled>>
  BY DEF WriteResponse, WriteResponseFails
<1>4. /\ ~Deafened(c) /\ Working(c) /\ ~Working(c)' /\ (Mute(c) => Mute(c)')
      /\ serving'[c] = "close" => Mute(c)' /\ Deafened(c)'
  BY <1>2, <1>3 DEF Deafened, Mute, Working

<1>5. PICK u \in Seq(DownUnits) :
        /\ ServerWrites(c, u) /\ Len(u) \in {1, 2} /\ u[1] = AnswerHead(c)
        /\ \/ WriteResponse(c) /\ Len(u) = IF Bare(c) THEN 1 ELSE 2
           \/ WriteResponseFails(c) /\ Len(u) = 1 /\ status[c] = "ok" /\ ~Bare(c)
  <2>1. PICK a \in DownUnits : a = AnswerHead(c)
    BY <1>1, AnswerUnits
  <2>2. PICK e \in Seq(DownUnits) : e = AnswerContent(c)
    BY <1>1, AnswerUnits
  <2>3. IF Bare(c) THEN Len(e) = 0 ELSE Len(e) = 1
    BY <2>2 DEF AnswerContent, Bare
  <2>4. CASE WriteResponse(c)
    <3>1. PICK u \in Seq(DownUnits) : u = <<a>> \o e
      BY HeadAndContent
    <3>2. u[1] = a /\ Len(u) = IF Bare(c) THEN 1 ELSE 2
      BY <2>3, <3>1, HeadAndContent
    <3>3. ServerWrites(c, u)
      BY <2>1, <2>2, <2>4, <3>1 DEF WriteResponse
    <3> QED
      BY <2>1, <2>4, <3>2, <3>3
  <2>5. CASE WriteResponseFails(c)
    <3>1. PICK u \in Seq(DownUnits) : u = <<a>> \o <<>>
      BY <1>1, HeadAndContent
    <3>2. u = <<a>> /\ u[1] = a /\ Len(u) = 1
      BY <3>1, ConcatEmptySeq, UnitsSent
    <3>3. ServerWrites(c, u) /\ e # <<>> /\ status[c] = "ok"
      BY <2>1, <2>2, <2>5, <3>2 DEF WriteResponseFails
    <3>4. ~Bare(c)
      BY <2>2, <3>3 DEF AnswerContent, Bare
    <3> QED
      BY <2>1, <2>5, <3>2, <3>3, <3>4
  <2> QED
    BY <2>4, <2>5
<1>6. down'[c] = IF serverEnd[c] = "open" /\ clientEnd[c] = "open" THEN down[c] \o u ELSE down[c]
  BY <1>1, <1>5, Writes
<1>7. ASSUME Clear(c)' PROVE left[c] => status[c] = "error"
  BY <1>1, <1>2, <1>3, <1>7 DEF ServingInv, Clear
<1>8. WriteResponse(c) =>
        answered'[c] = IF Error \in ToSet(answered[c]) THEN answered[c]
                       ELSE answered[c] \o <<req[c].id>> \o IF status[c] = "error" THEN <<Error>> ELSE <<>>
  BY <1>1 DEF WriteResponse, TypeOK, ConnectionsTypeOK
<1>9. WriteResponseFails(c) => answered'[c] = answered[c] /\ status[c] = "ok"
  BY DEF WriteResponseFails
<1>10. ASSUME Error \notin ToSet(answered[c]), WriteResponse(c)
       PROVE  /\ Append(answered[c], req[c].id) = sent[c] =>
                   AnsweredInStep(c)' /\ (status[c] # "error" => answered'[c] = sent[c])
              /\ status[c] = "error" => Error \in ToSet(answered'[c])
  <2>1. PICK S : S = Nat \cup {Error}
    OBVIOUS
  <2>2. /\ answered[c] \in Seq(S) /\ req[c].id \in S /\ Error \in S
        /\ Error # req[c].id /\ Error \notin ToSet(answered[c])
    BY <1>1, <1>10, <2>1 DEF Error
  <2>3. PICK q : q = Append(answered[c], req[c].id)
    OBVIOUS
  <2>4. q \in Seq(S) /\ Error \notin ToSet(q) /\ Follows(q, q, Error)
    <3>1. /\ Append(answered[c], req[c].id) \in Seq(S) /\ Error \notin ToSet(Append(answered[c], req[c].id))
          /\ Follows(Append(answered[c], req[c].id), Append(answered[c], req[c].id), Error)
      BY <2>2, NoErrorYet, Zenon
    <3> QED
      BY <2>3, <3>1
  <2>5. Error \in ToSet(Append(q, Error)) /\ Follows(Append(q, Error), q, Error)
    BY <2>2, <2>4, ErrorLast, Zenon
  <2>6. q = answered[c] \o <<req[c].id>> /\ q \o <<>> = q /\ q \o <<Error>> = Append(q, Error)
    BY <2>2, <2>3, <2>4, AppendIsConcat, ConcatEmptySeq
  <2>7. answered'[c] = IF status[c] = "error" THEN Append(q, Error) ELSE q
    BY <1>8, <1>10, <2>6
  <2>8. Follows(answered'[c], q, Error)
    BY <2>4, <2>5, <2>7
  <2>9. q = sent[c] => AnsweredInStep(c)'
    BY <1>3, <2>8 DEF AnsweredInStep, Follows
  <2> QED
    BY <2>3, <2>5, <2>7, <2>9
<1>11. ASSUME Clear(c)' PROVE ConnectionInv(c)
  BY <1>1, <1>3, <1>11 DEF IInv, WireInv, Clear
<1>12. ASSUME Clear(c)' PROVE AnsweredInStep(c)' /\ (Error \notin ToSet(answered'[c]) => NextInStep(c)')
  <2>1. AnsweredInStep(c) /\ (Error \notin ToSet(answered[c]) => NextInStep(c))
    BY <1>11, <1>12 DEF ConnectionInv
  <2>2. CASE answered'[c] = answered[c] /\ Deafened(c)'
    BY <1>3, <2>1, <2>2 DEF AnsweredInStep, NextInStep
  <2>3. CASE WriteResponse(c) /\ Error \in ToSet(answered[c])
    BY <1>3, <1>8, <2>1, <2>3 DEF AnsweredInStep
  <2>4. CASE WriteResponse(c) /\ Error \notin ToSet(answered[c])
    <3>1. UnderWay(c, req[c]) /\ Append(answered[c], req[c].id) = sent[c]
      BY <1>4, <2>1, <2>4 DEF NextInStep, AskedOn
    <3>2. status[c] # "error" => up[c] = <<>>
      BY <1>4, <1>7, <1>12, <3>1 DEF UnderWay
    <3> QED
      BY <1>3, <1>4, <1>10, <2>4, <3>1, <3>2 DEF NextInStep
  <2> QED
    BY <1>2, <1>4, <1>9, <2>2, <2>3, <2>4
<1>13. ASSUME Clear(c)', NEW k \in Callers, on[k] = c PROVE ExchangeInv(k)'
  <2>1. ExchangeInv(k) /\ ServingInv
    BY <1>1, <1>11, <1>13 DEF ConnectionInv
  <2>2. pc[k] = "body" /\ BodyAwaited(c, cur[k]) => Error \in ToSet(answered'[c])
    BY <1>4, <1>7, <1>8, <1>9, <1>10, <1>13 DEF BodyAwaited
  <2>3. ASSUME Unanswered(k), Mute(c) PROVE Unanswered(k)'
    <3>1. down'[c] = down[c]
      BY <1>2, <1>6, <2>3 DEF Mute
    <3> QED
      BY <1>4, <1>13, <2>3, <3>1 DEF Unanswered, clientVars, callerVars
  <2>4. ASSUME pc[k] \in {"body", "answer"}, Unanswered(k), ~Mute(c) PROVE AnswerIsNext(k)'
    <3>1. PICK n : n = Len(down[c])
      OBVIOUS
    <3>2. down'[c] = down[c] \o u
      BY <1>1, <1>2, <1>6, <2>4 DEF Mute, ServingInv, TypeOK, ConnectionsTypeOK
    <3>3. /\ n \in {0, 1} /\ AnswerNext(down'[c], req[c].id, n)
          /\ down'[c][n + 1] = AnswerHead(c) /\ Len(down'[c]) = n + Len(u)
      <4>1. u[1].t = "answer" /\ u[1].id = req[c].id
        BY <1>5 DEF AnswerHead
      <4>2. down[c] = <<>> \/ (Len(down[c]) = 1 /\ down[c][1].t = "continue")
        BY <1>13, <2>4 DEF Unanswered
      <4> QED
        BY <1>1, <1>5, <3>1, <3>2, <4>1, <4>2, AnswerWritten
    <3>4. req[c] = cur[k] /\ (~left[c] => pc[k] = "answer" /\ up[c] = <<>>)
      BY <1>4, <1>13, <2>4 DEF Unanswered, Reaches, BodyAwaited, UnderWay
    <3>5. CASE left[c]
      <4>1. AnswerHead(c).close
        BY <1>7, <1>13, <3>5 DEF AnswerHead
      <4> QED
        BY <1>13, <3>3, <3>4, <4>1 DEF AnswerIsNext, clientVars, callerVars
    <3>6. CASE ~left[c]
      <4>1. down'[c][n + 1].status = status[c] /\ (NoContent(k, status[c]) <=> Bare(c))
        BY <3>3, <3>4 DEF AnswerHead, NoContent, Bare
      <4>2. IF Bare(c) THEN Len(down'[c]) = n + 1
            ELSE Len(down'[c]) = n + 2 \/ (Len(down'[c]) = n + 1 /\ Mute(c)')
        BY <1>2, <1>4, <1>5, <3>3
      <4>3. IsAll(k, n)'
        BY <1>3, <1>4, <1>13, <3>4, <3>6, <4>1, <4>2 DEF IsAll, NoContent, clientVars, callerVars
      <4> QED
        BY <1>13, <3>3, <3>4, <4>3 DEF AnswerIsNext, clientVars, callerVars
    <3> QED
      BY <3>5, <3>6
  <2>5. PICK w \in Seq(DownUnits) : down'[c] = down[c] \o w
    BY <1>1, <1>5, <1>6, ConcatEmptySeq
  <2>6. Error \in ToSet(answered[c]) => Error \in ToSet(answered'[c])
    BY <1>2, <1>8, <1>9
  <2>7. pc[k] \in {"body", "answer"} /\ Unanswered(k) => Unanswered(k)' \/ AnswerIsNext(k)'
    BY <2>3, <2>4
  <2> QED
    BY <1>1, <1>4, <1>13, <2>1, <2>2, <2>5, <2>6, <2>7, WorkExchange
<1> QED
  BY <1>4, <1>12, <1>13, WorkInv DEF ProcessRequest

\* Who does not use its connection leaves nothing on it.
LEMMA Idler == ASSUME NEW k, ~Uses(k, on[k]) PROVE ExchangeInv(k)
  BY DEF Uses, Busy, ExchangeInv

\* A caller that uses a connection is the only one to: what it does on it
\* concerns nobody else.
LEMMA StepWire ==
  ASSUME IInv, UNCHANGED serverVars, NEW k \in Callers, NEW c \in Conns, Uses(k, c),
         UNCHANGED <<on, socket_, clientEnd, serverEnd, answered>>,
         \A j \in Callers \ {k} : Stays(j),
         \A d \in Conns \ {c} : Ends(d) /\ spoiled'[d] = spoiled[d],
         spoiled[c] \subseteq spoiled'[c],
         pc'[k] \in Busy \cup {"exit"},
         Clear(c)' /\ ConnectionInv(c) =>
           /\ AnsweredInStep(c)' /\ ExchangeInv(k)'
           /\ Error \notin ToSet(answered[c]) => NextInStep(c)'
  PROVE  WireInv'
<1>1. TypeOK
  BY DEF IInv, ControlInv
<1>2. on[k] = c /\ on'[k] = c
  BY DEF Uses
<1>3. ASSUME NEW d \in Conns \ {c}, Clear(d)' PROVE ConnectionInv(d)'
  <2>1. ConnectionInv(d) /\ Ends(d)
    BY <1>3 DEF IInv, WireInv, Clear
  <2>2. \A j \in Callers : Uses(j, d)' => Uses(j, d)
    BY <1>2, <1>3 DEF Uses, Stays
  <2>3. Sole(d)'
    BY <2>1, <2>2 DEF ConnectionInv, Sole
  <2>4. InUse(d) => InUse(d)'
    BY <1>2, <1>3 DEF InUse, Stays
  <2>5. \A j \in Callers : on'[j] = d => Stays(j)
    BY <1>2, <1>3
  <2> QED
    BY <1>1, <1>3, <2>1, <2>3, <2>4, <2>5, EndsInv DEF ConnectionInv
<1>4. ASSUME Clear(c)' PROVE ConnectionInv(c)'
  <2>1. ConnectionInv(c)
    BY <1>4 DEF IInv, WireInv, Clear
  <2>2. \A j \in Callers \ {k} : ~Uses(j, c)
    BY <2>1 DEF ConnectionInv, Sole
  <2>3. \A j \in Callers \ {k} : ~Uses(j, c)'
    BY <2>2 DEF Uses, Stays
  <2>4. Sole(c)'
    BY <2>3 DEF Sole
  <2>5. \A j \in Callers \ {k} : on'[j] = c => ~Uses(j, on[j])'
    BY <2>3
  <2>6. \A j \in Callers \ {k} : on'[j] = c => ExchangeInv(j)'
    BY <2>5 DEF Uses, Busy, ExchangeInv
  <2>7. InUse(c)'
    BY <1>2 DEF InUse, Busy
  <2> QED
    BY <1>4, <2>1, <2>4, <2>6, <2>7 DEF ConnectionInv
<1> QED
  BY <1>3, <1>4 DEF WireInv

\* A caller that does not write or read, and callers that do not move.
LEMMA MoveInv ==
  ASSUME IInv, UNCHANGED serverVars, UNCHANGED <<serverEnd, up, down, sent, answered>>,
         NEW c \in Conns, clientEnd'[c] \in {clientEnd[c], "closed"}, spoiled[c] \subseteq spoiled'[c],
         NEW k \in Callers, \A j \in Callers \ {k} : Stays(j),
         socket_' = c => socket_ = c,
         Clear(c)' /\ ConnectionInv(c) =>
           /\ Uses(k, c)' => \A j \in Callers \ {k} : ~Uses(j, c)
           /\ on'[k] = c => Stays(k) \/ ExchangeInv(k)'
           /\ socket_' = c /\ ~InUse(c)' => Quiet(c)
  PROVE  Clear(c)' => ConnectionInv(c)'
<1> SUFFICES ASSUME Clear(c)' PROVE ConnectionInv(c)'
  OBVIOUS
<1>1. TypeOK /\ ConnectionInv(c)
  BY DEF IInv, ControlInv, WireInv, Clear
<1>2. Ends(c)
  BY DEF Ends, serverVars, servingVars
<1>3. Sole(c)'
  <2>1. \A j \in Callers \ {k} : Uses(j, c)' => Uses(j, c)
    BY DEF Uses, Stays
  <2> QED
    BY <1>1, <2>1 DEF ConnectionInv, Sole
<1> QED
  BY <1>1, <1>2, <1>3, EndsInv

\* Where a caller that exchanges is.
LEMMA Exchanging ==
  ASSUME IInv, NEW k \in Callers, pc[k] \in Busy
  PROVE  /\ TypeOK /\ CallerInv(k) /\ on[k] \in Conns /\ Uses(k, on[k])
         /\ cur[k] \in Requests /\ cur[k].id \in Nat
         /\ \A c \in Conns : up[c] \in Seq(UpUnits) /\ down[c] \in Seq(DownUnits)
<1>1. TypeOK /\ CallerInv(k)
  BY DEF IInv, ControlInv
<1>2. on[k] \in Conns /\ cur[k] \in Requests
  BY <1>1 DEF CallerInv, Busy, TypeOK, ClientTypeOK
<1> QED
  BY <1>1, <1>2 DEF Uses, Requests, TypeOK, ConnectionsTypeOK

\* A request is written to a connection on which nothing is left.
LEMMA WriteRequestWire ==
  ASSUME IInv, UNCHANGED serverVars, NEW k \in Callers, WriteRequest(k)
  PROVE  WireInv'
<1>1. pc[k] = "write" /\ pc[k] \in Busy
  BY DEF WriteRequest, Goto, Busy
<1>2. PICK c \in Conns : c = on[k]
  BY <1>1, Exchanging
<1>3. /\ TypeOK /\ CallerInv(k) /\ Uses(k, c) /\ up[c] \in Seq(UpUnits)
      /\ sent[c] \in Seq(Nat) /\ cur[k].id \in Nat
  BY <1>1, <1>2, Exchanging DEF TypeOK, ConnectionsTypeOK
<1>4. PICK unit : unit = H(cur[k])
  OBVIOUS
<1>5. /\ pc'[k] = IF cur[k].body THEN "body" ELSE "answer"
      /\ UNCHANGED <<cur, on, got, ret, socket_, clientEnd, serverEnd, down, answered, spoiled>>
      /\ UNCHANGED <<serving, req, left>>
      /\ CanWrite(c) /\ up'[c] = Append(up[c], unit) /\ sent'[c] = Append(sent[c], cur[k].id)
      /\ \A d \in Conns \ {c} : up'[d] = up[d] /\ sent'[d] = sent[d]
      /\ \A j \in Callers \ {k} : pc'[j] = pc[j]
  BY <1>2, <1>3, <1>4 DEF WriteRequest, Goto, ClientWrites, H, sharedVars, serverVars, servingVars,
     TypeOK, ConnectionsTypeOK, ClientTypeOK
<1>6. ASSUME ConnectionInv(c)
      PROVE  /\ AnsweredInStep(c)' /\ ExchangeInv(k)'
             /\ Error \notin ToSet(answered[c]) => NextInStep(c)'
  <2>1. Quiet(c) /\ AnsweredInStep(c) /\ (Error \notin ToSet(answered[c]) => NextInStep(c))
    BY <1>1, <1>2, <1>6 DEF ConnectionInv, ExchangeInv
  <2>2. up'[c] = <<H(cur[k])>> /\ up'[c] # <<>>
    BY <1>4, <1>5, <2>1 DEF Quiet
  <2>3. ~Working(c)' /\ (Deafened(c) => Deafened(c)') /\ (serving[c] \in {"none", "line", "close", "over"})
    BY <1>3, <1>5, <2>1 DEF Quiet, Working, Deafened, TypeOK, ServerTypeOK
  <2>4. serving[c] \in {"close", "over"} => Mute(c)' /\ Deafened(c)'
    BY <1>5 DEF Mute, Deafened
  <2>5. serving[c] \in {"none", "line"} => UnderWay(c, cur[k])' /\ BodyAwaited(c, cur[k])'
    BY <1>5, <2>2, <2>3 DEF UnderWay, BodyAwaited
  <2>6. ExchangeInv(k)'
    <3>1. Unanswered(k)'
      BY <1>2, <1>5, <2>1, <2>3, <2>4, <2>5 DEF Unanswered, Quiet, Reaches
    <3> QED
      BY <1>2, <1>5, <2>3, <2>4, <2>5, <3>1 DEF ExchangeInv
  <2>7. AnsweredInStep(c)'
    <3>1. \A i \in DOMAIN sent[c] : i \in DOMAIN sent'[c] /\ sent'[c][i] = sent[c][i]
      <4>1. /\ DOMAIN sent[c] = 1 .. Len(sent[c]) /\ Len(sent[c]) \in Nat
            /\ sent'[c] \in Seq(Nat) /\ Len(sent'[c]) = Len(sent[c]) + 1
            /\ \A i \in 1 .. Len(sent[c]) : sent'[c][i] = sent[c][i]
        BY <1>3, <1>5, AppendProperties, LenProperties
      <4> QED
        BY <4>1, LenProperties
    <3> QED
      BY <1>5, <2>1, <3>1 DEF AnsweredInStep
  <2>8. ASSUME NextInStep(c) PROVE NextInStep(c)'
    <3>1. CASE serving[c] \in {"close", "over"} \/ Deafened(c)
      BY <2>3, <2>4, <3>1 DEF NextInStep
    <3>2. CASE serving[c] \in {"none", "line"} /\ ~Deafened(c)
      <4>1. answered[c] = sent[c]
        BY <2>1, <2>8, <3>2 DEF NextInStep, Quiet
      <4>2. AskedOn(c)' = cur[k]
        BY <2>2, <2>3 DEF AskedOn, H
      <4> QED
        BY <1>5, <2>2, <2>5, <3>2, <4>1, <4>2 DEF NextInStep
    <3> QED
      BY <2>3, <3>1, <3>2
  <2> QED
    BY <2>1, <2>6, <2>7, <2>8
<1>7. \A d \in Conns \ {c} : Ends(d) /\ spoiled'[d] = spoiled[d]
  BY <1>5 DEF Ends
<1>8. \A j \in Callers \ {k} : Stays(j)
  BY <1>5 DEF Stays
<1>9. pc'[k] \in Busy \cup {"exit"}
  BY <1>5 DEF Busy
<1> QED
  BY <1>3, <1>5, <1>6, <1>7, <1>8, <1>9, StepWire

\* A head and a body are two elements.
LEMMA Two == ASSUME NEW h, NEW b PROVE Append(<<h>>, b) = <<h, b>>
<1>1. PICK S : S = {h, b}
  OBVIOUS
<1>2. PICK s \in Seq(S) : s = <<h>>
  BY <1>1, EmptySeq, UnitsSent
<1>3. PICK t \in Seq(S) : t = Append(s, b)
  BY <1>1, AppendProperties
<1>4. Len(s) = 1 /\ s[1] = h
  BY <1>2
<1>5. Len(t) = 2 /\ t[1] = h /\ t[2] = b
  <2>1. /\ Len(Append(s, b)) = Len(s) + 1 /\ Append(s, b)[Len(s) + 1] = b
        /\ \A i \in 1 .. Len(s) : Append(s, b)[i] = s[i]
    BY <1>1, AppendProperties
  <2> QED
    BY <1>3, <1>4, <2>1
<1>6. t = <<t[1], t[2]>>
  BY <1>5
<1> QED
  BY <1>2, <1>3, <1>5, <1>6

\* A body follows its request, or is cut short.
LEMMA WriteBodyWire ==
  ASSUME IInv, UNCHANGED serverVars, NEW k \in Callers, WriteBody(k)
  PROVE  WireInv'
<1>1. pc[k] = "body" /\ pc[k] \in Busy
  BY DEF WriteBody, Goto, Busy
<1>2. PICK c \in Conns : c = on[k]
  BY <1>1, Exchanging
<1>3. TypeOK /\ CallerInv(k) /\ Uses(k, c) /\ up[c] \in Seq(UpUnits)
  BY <1>1, <1>2, Exchanging
<1>4. /\ pc'[k] = "answer"
      /\ UNCHANGED <<cur, on, got, ret, socket_, clientEnd, serverEnd, down, sent, answered>>
      /\ UNCHANGED <<serving, req, left>>
      /\ spoiled[c] \subseteq spoiled'[c]
      /\ up'[c] = up[c] \/ up'[c] = Append(up[c], B)
      /\ \A d \in Conns \ {c} : up'[d] = up[d] /\ spoiled'[d] = spoiled[d]
      /\ \A j \in Callers \ {k} : pc'[j] = pc[j]
  <2>1. /\ pc'[k] = "answer" /\ \A j \in Callers \ {k} : pc'[j] = pc[j]
        /\ UNCHANGED <<cur, on, got, ret, socket_, clientEnd, serverEnd, down, sent, answered>>
        /\ UNCHANGED <<serving, req, left>>
    BY <1>3 DEF WriteBody, Goto, sharedVars, serverVars, servingVars, TypeOK, ClientTypeOK
  <2>2. CASE ClientWrites(c, B) /\ spoiled' = spoiled
    BY <1>3, <2>1, <2>2 DEF ClientWrites, TypeOK, ConnectionsTypeOK
  <2>3. CASE Spoil(c, {"short"}) /\ up' = up
    BY <1>3, <2>1, <2>3, Spoils
  <2> QED
    BY <1>2, <2>2, <2>3 DEF WriteBody, B
<1>5. ASSUME ConnectionInv(c)
      PROVE  /\ AnsweredInStep(c)' /\ ExchangeInv(k)'
             /\ Error \notin ToSet(answered[c]) => NextInStep(c)'
  <2>1. ExchangeInv(k) /\ AnsweredInStep(c) /\ (Error \notin ToSet(answered[c]) => NextInStep(c))
    BY <1>2, <1>5 DEF ConnectionInv
  <2>2. (Working(c)' <=> Working(c)) /\ (Deafened(c)' <=> Deafened(c)) /\ (Mute(c)' <=> Mute(c))
    BY <1>4 DEF Working, Deafened, Mute
  <2>3. BodyAwaited(c, cur[k]) => UnderWay(c, cur[k])'
    <3>1. cur[k].body
      BY <1>1, <1>3 DEF CallerInv
    <3>2. up[c] = <<>> => Append(up[c], B) = <<B>>
      OBVIOUS
    <3>3. up[c] = <<H(cur[k])>> => Append(up[c], B) = <<H(cur[k]), B>>
      BY Two
    <3> QED
      BY <1>4, <2>2, <3>1, <3>2, <3>3 DEF BodyAwaited, UnderWay
  <2>4. Unanswered(k) => Unanswered(k)'
    BY <1>1, <1>2, <1>4, <2>2, <2>3 DEF Unanswered, Reaches
  <2>5. AnswerIsNext(k) => AnswerIsNext(k)'
    BY <1>1, <1>2, <1>4 DEF AnswerIsNext, IsAll
  <2>6. ExchangeInv(k)'
    BY <1>1, <1>4, <2>1, <2>4, <2>5 DEF ExchangeInv
  <2>7. ASSUME NextInStep(c), Error \notin ToSet(answered[c]) PROVE NextInStep(c)'
    <3>1. CASE Deafened(c)
      BY <2>2, <3>1 DEF NextInStep
    <3>2. CASE ~Deafened(c)
      <4>1. BodyAwaited(c, cur[k])
        BY <1>1, <1>2, <2>1, <2>7, <3>2 DEF ExchangeInv
      <4>2. AskedOn(c) = cur[k] /\ (up[c] = <<>> => Working(c))
        BY <4>1 DEF BodyAwaited, AskedOn, H
      <4>3. Append(answered[c], cur[k].id) = sent[c]
        BY <2>7, <3>2, <4>2 DEF NextInStep
      <4>4. AskedOn(c)' = cur[k] /\ (up'[c] = <<>> => Working(c)') /\ UnderWay(c, cur[k])'
        BY <1>4, <2>2, <2>3, <4>1 DEF UnderWay, AskedOn, H
      <4> QED
        BY <1>4, <4>3, <4>4 DEF NextInStep
    <3> QED
      BY <3>1, <3>2
  <2> QED
    BY <1>4, <2>1, <2>6, <2>7 DEF AnsweredInStep
<1>6. \A d \in Conns \ {c} : Ends(d) /\ spoiled'[d] = spoiled[d]
  BY <1>4 DEF Ends
<1>7. \A j \in Callers \ {k} : Stays(j)
  BY <1>4 DEF Stays
<1>8. pc'[k] \in Busy \cup {"exit"}
  BY <1>4 DEF Busy
<1> QED
  BY <1>3, <1>4, <1>5, <1>6, <1>7, <1>8, StepWire

\* What a caller reads behind its request is a 100 or its answer.
LEMMA ReadAnswerWire ==
  ASSUME IInv, UNCHANGED serverVars, NEW k \in Callers, ReadAnswer(k)
  PROVE  WireInv'
<1>1. pc[k] = "answer" /\ pc[k] \in Busy
  BY DEF ReadAnswer, Busy
<1>2. PICK c \in Conns : c = on[k]
  BY <1>1, Exchanging
<1>3. TypeOK /\ CallerInv(k) /\ Uses(k, c) /\ down[c] \in Seq(DownUnits)
  BY <1>1, <1>2, Exchanging
<1>4. /\ UNCHANGED <<cur, on, ret, socket_, clientEnd, serverEnd, up, sent, answered, spoiled>>
      /\ UNCHANGED <<serving, req, left>>
      /\ down[c] # <<>> /\ down'[c] = Tail(down[c])
      /\ \A d \in Conns \ {c} : down'[d] = down[d]
      /\ \A j \in Callers \ {k} : pc'[j] = pc[j] /\ got'[j] = got[j]
      /\ pc'[k] \in Busy
  BY <1>2, <1>3 DEF ReadAnswer, Goto, ClientReads, ClientHas, Busy, sharedVars, serverVars, servingVars,
     TypeOK, ConnectionsTypeOK, ClientTypeOK
<1>5. PICK unit \in DownUnits : unit = Head(down[c]) /\ unit = down[c][1]
  BY <1>3, <1>4, UnitsSent
<1>6. /\ Len(down[c]) \in Nat /\ Len(down[c]) > 0 /\ Len(down'[c]) = Len(down[c]) - 1
      /\ \A i \in 1 .. Len(down[c]) - 1 : down'[c][i] = down[c][i + 1]
      /\ down'[c] \in Seq(DownUnits)
  BY <1>3, <1>4, UnitsSent
<1>7. \/ unit.t = "continue" /\ pc'[k] = "answer" /\ got'[k] = got[k]
      \/ unit.t = "content"
      \/ unit.t = "417"
      \/ /\ unit.t = "answer" /\ got'[k] = unit
         /\ pc'[k] = IF cur[k].stream THEN "handle" ELSE IF NoContent(k, unit.status) THEN "after" ELSE "content"
  BY <1>2, <1>3, <1>5 DEF ReadAnswer, Goto, NoContent, TypeOK, ClientTypeOK
<1>8. ASSUME ConnectionInv(c)
      PROVE  /\ AnsweredInStep(c)' /\ ExchangeInv(k)'
             /\ Error \notin ToSet(answered[c]) => NextInStep(c)'
  <2>1. ExchangeInv(k) /\ AnsweredInStep(c) /\ (Error \notin ToSet(answered[c]) => NextInStep(c))
    BY <1>2, <1>8 DEF ConnectionInv
  <2>2. (Working(c)' <=> Working(c)) /\ (Mute(c)' <=> Mute(c))
    BY <1>4 DEF Working, Mute
  <2>3. NextInStep(c) => NextInStep(c)'
    BY <1>4 DEF NextInStep, Deafened, Working, UnderWay, AskedOn
  <2>4. CASE Unanswered(k)
    <3>1. unit.t = "continue" /\ Len(down[c]) = 1
      BY <1>2, <1>4, <1>5, <2>4 DEF Unanswered
    <3>2. down'[c] = <<>>
      BY <1>6, <3>1, EmptySeq
    <3>3. Unanswered(k)'
      BY <1>1, <1>2, <1>4, <1>7, <2>2, <2>4, <3>1, <3>2 DEF Unanswered, Reaches, UnderWay, BodyAwaited, Working
    <3> QED
      BY <1>4, <1>7, <2>1, <2>3, <3>1, <3>3 DEF ExchangeInv, AnsweredInStep
  <2>5. CASE AnswerIsNext(k)
    <3>1. PICK n \in {0, 1} : AnswerNext(down[c], cur[k].id, n) /\ (down[c][n + 1].close \/ IsAll(k, n))
      BY <1>2, <2>5 DEF AnswerIsNext
    <3>2. CASE n = 1
      <4>1. unit.t = "continue" /\ down'[c][1] = down[c][2] /\ Len(down'[c]) > 0
        BY <1>5, <1>6, <3>1, <3>2 DEF AnswerNext
      <4>2. AnswerNext(down'[c], cur[k].id, 0)
        BY <1>4, <3>1, <3>2, <4>1 DEF AnswerNext
      <4>3. IsAll(k, 1) => IsAll(k, 0)'
        <5>1. ASSUME IsAll(k, 1) PROVE IsAll(k, 0)'
          <6>1. up'[c] = <<>> /\ ~Working(c)' /\ pc'[k] = "answer"
            BY <1>2, <1>4, <1>7, <2>2, <4>1, <5>1 DEF IsAll
          <6>2. IF NoContent(k, down[c][2].status) THEN Len(down[c]) = 2
                ELSE Len(down[c]) = 3 \/ (Len(down[c]) = 2 /\ Mute(c))
            BY <1>2, <5>1 DEF IsAll
          <6>3. NoContent(k, down[c][1].status)' <=> NoContent(k, down[c][2].status)
            BY <1>4, <4>1 DEF NoContent
          <6>4. IF NoContent(k, down[c][1].status)' THEN Len(down'[c]) = 1
                ELSE Len(down'[c]) = 2 \/ (Len(down'[c]) = 1 /\ Mute(c)')
            BY <1>6, <2>2, <6>2, <6>3
          <6>5. on'[k] = c
            BY <1>2, <1>4
          <6> QED
            BY <6>1, <6>4, <6>5 DEF IsAll
        <5> QED
          BY <5>1
      <4>4. AnswerIsNext(k)'
        BY <1>2, <1>4, <3>1, <3>2, <4>1, <4>2, <4>3 DEF AnswerIsNext
      <4> QED
        BY <1>4, <1>7, <2>1, <2>3, <4>1, <4>4 DEF ExchangeInv, AnsweredInStep
    <3>3. CASE n = 0
      <4>1. unit.t = "answer" /\ unit.id = cur[k].id /\ down[c][n + 1] = unit
        BY <1>5, <3>1, <3>3 DEF AnswerNext
      <4>2. pc'[k] \in {"handle", "after", "content"} /\ got'[k] = unit
        BY <1>7, <4>1
      <4>3. ASSUME unit.close PROVE ExchangeInv(k)'
        <5>1. got'[k].close /\ got'[k].id = cur'[k].id
          BY <1>4, <4>1, <4>2, <4>3
        <5> QED
          BY <4>2, <5>1 DEF ExchangeInv
      <4>4. ASSUME IsAll(k, n) PROVE ExchangeInv(k)'
        <5>1. /\ up'[c] = <<>> /\ ~Working(c)'
              /\ IF NoContent(k, unit.status) THEN down'[c] = <<>>
                 ELSE Len(down'[c]) = 1 \/ (down'[c] = <<>> /\ Mute(c)')
          <6>1. /\ up[c] = <<>> /\ ~Working(c)
                /\ IF NoContent(k, unit.status) THEN Len(down[c]) = 1
                   ELSE Len(down[c]) = 2 \/ (Len(down[c]) = 1 /\ Mute(c))
            BY <1>2, <3>3, <4>1, <4>4 DEF IsAll
          <6>2. Len(down[c]) = 1 => down'[c] = <<>>
            BY <1>6, EmptySeq
          <6> QED
            BY <1>4, <1>6, <2>2, <6>1, <6>2
        <5>2. pc'[k] = "content" => ~NoContent(k, unit.status)
          BY <1>7, <4>1
        <5>3. pc'[k] = "after" => NoContent(k, unit.status)
          BY <1>7, <4>1
        <5>4. on'[k] = c /\ got'[k].id = cur'[k].id
          BY <1>2, <1>4, <4>1, <4>2
        <5> QED
          BY <4>2, <5>1, <5>2, <5>3, <5>4 DEF ExchangeInv, Quiet
      <4> QED
        BY <1>4, <2>1, <2>3, <3>1, <4>1, <4>3, <4>4 DEF AnsweredInStep
    <3> QED
      BY <3>2, <3>3
  <2> QED
    BY <1>1, <2>1, <2>4, <2>5 DEF ExchangeInv
<1>9. \A d \in Conns \ {c} : Ends(d) /\ spoiled'[d] = spoiled[d]
  BY <1>4 DEF Ends
<1>10. \A j \in Callers \ {k} : Stays(j)
  BY <1>4 DEF Stays
<1> QED
  BY <1>3, <1>4, <1>8, <1>9, <1>10, StepWire

\* The content behind an answer is its own, and nothing is behind it.
LEMMA ReadContentOfAnswerWire ==
  ASSUME IInv, UNCHANGED serverVars, NEW k \in Callers, ReadAnswerContent(k)
  PROVE  WireInv'
<1>1. pc[k] = "content" /\ pc[k] \in Busy
  BY DEF ReadAnswerContent, Goto, Busy
<1>2. PICK c \in Conns : c = on[k]
  BY <1>1, Exchanging
<1>3. TypeOK /\ CallerInv(k) /\ Uses(k, c) /\ down[c] \in Seq(DownUnits)
  BY <1>1, <1>2, Exchanging
<1>4. /\ pc'[k] = "after"
      /\ UNCHANGED <<cur, on, got, ret, socket_, clientEnd, serverEnd, up, sent, answered, spoiled>>
      /\ UNCHANGED <<serving, req, left>>
      /\ down[c] # <<>> /\ down'[c] = Tail(down[c])
      /\ \A d \in Conns \ {c} : down'[d] = down[d]
      /\ \A j \in Callers \ {k} : pc'[j] = pc[j]
  BY <1>2, <1>3 DEF ReadAnswerContent, Goto, ClientReads, ClientHas, sharedVars, serverVars, servingVars,
     TypeOK, ConnectionsTypeOK, ClientTypeOK
<1>5. Len(down[c]) = 1 => down'[c] = <<>>
  <2>1. down'[c] \in Seq(DownUnits) /\ Len(down'[c]) = Len(down[c]) - 1
    BY <1>3, <1>4, UnitsSent
  <2> QED
    BY <2>1, EmptySeq
<1>6. ASSUME ConnectionInv(c)
      PROVE  /\ AnsweredInStep(c)' /\ ExchangeInv(k)'
             /\ Error \notin ToSet(answered[c]) => NextInStep(c)'
  <2>1. ExchangeInv(k) /\ AnsweredInStep(c) /\ (Error \notin ToSet(answered[c]) => NextInStep(c))
    BY <1>2, <1>6 DEF ConnectionInv
  <2>2. NextInStep(c) => NextInStep(c)'
    BY <1>4 DEF NextInStep, Deafened, Working, UnderWay, AskedOn
  <2>3. got[k].close \/ Quiet(c)'
    BY <1>1, <1>2, <1>4, <1>5, <2>1 DEF ExchangeInv, Quiet, Working
  <2>4. got[k].id = cur[k].id
    BY <1>1, <2>1 DEF ExchangeInv
  <2>5. ExchangeInv(k)'
    BY <1>2, <1>4, <2>3, <2>4 DEF ExchangeInv
  <2> QED
    BY <1>4, <2>1, <2>2, <2>5 DEF AnsweredInStep
<1>7. \A d \in Conns \ {c} : Ends(d) /\ spoiled'[d] = spoiled[d]
  BY <1>4 DEF Ends
<1>8. \A j \in Callers \ {k} : Stays(j)
  BY <1>4 DEF Stays
<1>9. pc'[k] \in Busy \cup {"exit"}
  BY <1>4 DEF Busy
<1> QED
  BY <1>3, <1>4, <1>6, <1>7, <1>8, <1>9, StepWire

\* On a clear connection nothing is read until the end.
LEMMA ReadUntilEndWire ==
  ASSUME IInv, UNCHANGED serverVars, NEW k \in Callers, ReadUntilEnd(k)
  PROVE  WireInv'
<1>1. pc[k] = "drain" /\ pc[k] \in Busy
  BY DEF ReadUntilEnd, Goto, Busy
<1>2. PICK c \in Conns : c = on[k]
  BY <1>1, Exchanging
<1>3. TypeOK /\ CallerInv(k) /\ Uses(k, c)
  BY <1>1, <1>2, Exchanging
<1>4. /\ pc'[k] \in {"drain", "after"}
      /\ UNCHANGED <<cur, on, got, ret, socket_, clientEnd, serverEnd, up, sent, answered, spoiled>>
      /\ UNCHANGED <<serving, req, left>>
      /\ \A d \in Conns \ {c} : down'[d] = down[d]
      /\ \A j \in Callers \ {k} : pc'[j] = pc[j]
  BY <1>2, <1>3 DEF ReadUntilEnd, Goto, ClientReads, sharedVars, serverVars, servingVars,
     TypeOK, ConnectionsTypeOK, ClientTypeOK
<1>5. ~ConnectionInv(c)
  BY <1>1, <1>2 DEF ConnectionInv, ExchangeInv
<1>6. \A d \in Conns \ {c} : Ends(d) /\ spoiled'[d] = spoiled[d]
  BY <1>4 DEF Ends
<1>7. \A j \in Callers \ {k} : Stays(j)
  BY <1>4 DEF Stays
<1>8. pc'[k] \in Busy \cup {"exit"}
  BY <1>4 DEF Busy
<1> QED
  BY <1>3, <1>4, <1>5, <1>6, <1>7, <1>8, StepWire

\* What shutting a connection down does to all of them.
LEMMA Shuts ==
  ASSUME TypeOK, NEW c \in Conns \cup {0}, Shut(c)
  PROVE  \A d \in Conns : clientEnd'[d] \in {clientEnd[d], "closed"}
  BY DEF Shut, TypeOK, ConnectionsTypeOK

\* No caller moves.
LEMMA StillWire ==
  ASSUME IInv, UNCHANGED serverVars, UNCHANGED <<serverEnd, up, down, sent, answered, spoiled>>,
         \A c \in Conns : clientEnd'[c] \in {clientEnd[c], "closed"},
         \A j \in Callers : Stays(j), socket_' \in {socket_, 0}
  PROVE  WireInv'
<1>1. ASSUME NEW c \in Conns, Clear(c)' PROVE ConnectionInv(c)'
  <2>1. TypeOK /\ ConnectionInv(c)
    BY <1>1 DEF IInv, ControlInv, WireInv, Clear
  <2>2. Ends(c)
    BY DEF Ends, serverVars, servingVars
  <2>3. \A j \in Callers : Uses(j, c)' <=> Uses(j, c)
    BY DEF Uses, Stays
  <2>4. Sole(c)' /\ (InUse(c)' <=> InUse(c))
    BY <2>1, <2>3 DEF ConnectionInv, Sole, InUse, Stays
  <2>5. socket_' = c => socket_ = c
    BY DEF Conns
  <2> QED
    BY <2>1, <2>2, <2>4, <2>5, EndsInv DEF ConnectionInv
<1> QED
  BY <1>1 DEF WireInv

\* A caller leaves its connection, or has none.
LEMMA AwayWire ==
  ASSUME IInv, UNCHANGED serverVars, UNCHANGED <<serverEnd, up, down, sent, answered, spoiled>>,
         \A c \in Conns : clientEnd'[c] \in {clientEnd[c], "closed"},
         NEW k \in Callers, \A j \in Callers \ {k} : Stays(j),
         pc'[k] \notin Busy, ~ret'[k], socket_' \in {socket_, 0},
         \A c \in Conns :
           ConnectionInv(c) /\ socket_' = c /\ InUse(c) => InUse(c)' \/ Quiet(c)
  PROVE  WireInv'
<1>1. ASSUME NEW c \in Conns PROVE Clear(c)' => ConnectionInv(c)'
  <2>1. ~Uses(k, c)'
    BY DEF Uses
  <2>2. ExchangeInv(k)'
    BY DEF ExchangeInv, Busy
  <2>3. socket_' = c => socket_ = c
    BY DEF Conns
  <2>4. ConnectionInv(c) /\ socket_' = c /\ ~InUse(c)' => Quiet(c)
    BY <2>3 DEF ConnectionInv
  <2> QED
    BY <2>1, <2>2, <2>3, <2>4, MoveInv
<1> QED
  BY <1>1 DEF WireInv

\* A request fails, or a handle is dropped.
LEMMA FailWire ==
  ASSUME IInv, UNCHANGED serverVars, NEW k \in Callers, RequestFails(k) \/ DropHandle(k)
  PROVE  WireInv'
<1>1. pc[k] \in Busy /\ UNCHANGED socket_ /\ WireUnchanged
  BY DEF RequestFails, Failing, DropHandle, Idle, Goto, Busy, sharedVars
<1>2. PICK c \in Conns : c = on[k]
  BY <1>1, Exchanging
<1>3. TypeOK /\ CallerInv(k) /\ Uses(k, c)
  BY <1>1, <1>2, Exchanging
<1>4. \A j \in Callers \ {k} : Stays(j)
  BY <1>3 DEF RequestFails, DropHandle, Idle, Goto, Stays, TypeOK, ClientTypeOK
<1>5. CASE cur[k].stream \/ DropHandle(k)
  <2>1. cur[k].stream
    BY <1>3, <1>5 DEF DropHandle, Idle, Goto, CallerInv
  <2>2. on[k] # socket_
    BY <1>1, <1>3, <2>1 DEF CallerInv
  <2>3. Idle(k, pc[k]) /\ Shut(c)
    BY <1>2, <2>1 DEF RequestFails, DropHandle, Idle, Goto
  <2>4. pc'[k] = "idle" /\ ~ret'[k]
    BY <1>3, <2>3 DEF Idle, Goto, TypeOK, ClientTypeOK
  <2>5. ASSUME NEW d \in Conns, socket_ = d, InUse(d) PROVE InUse(d)'
    BY <1>4, <2>2, <2>5 DEF InUse, Stays
  <2>6. \A d \in Conns : clientEnd'[d] \in {clientEnd[d], "closed"}
    BY <1>3, <2>3, Shuts
  <2> QED
    BY <1>1, <1>4, <2>4, <2>5, <2>6, AwayWire DEF WireUnchanged, Busy
<1>6. CASE ~cur[k].stream /\ RequestFails(k)
  <2>1. UNCHANGED <<on, ret, clientEnd>> /\ pc'[k] = "exit" /\ ~ret[k]
    BY <1>1, <1>3, <1>6 DEF RequestFails, Goto, CallerInv, Busy, TypeOK, ClientTypeOK
  <2>2. ASSUME NEW d \in Conns PROVE InUse(d) => InUse(d)'
    BY <1>4, <2>1 DEF InUse, Stays
  <2> QED
    BY <1>1, <1>4, <2>1, <2>2, AwayWire DEF WireUnchanged, Busy
<1> QED
  BY <1>5, <1>6

\* A caller goes on to a connection, and uses none yet.
LEMMA SendWire ==
  ASSUME IInv, UNCHANGED serverVars, NEW k \in Callers, Send(k) \/ Blocks(k) \/ Connect(k) \/ ConnectFails(k)
  PROVE  WireInv'
<1>1. TypeOK /\ CallerInv(k) /\ socket_ \in Conns \cup {0}
  BY DEF IInv, ControlInv, TypeOK, ClientTypeOK
<1>2. CASE Blocks(k)
  <2>1. UNCHANGED <<serverEnd, clientEnd, up, down, sent, answered, spoiled, socket_>>
    BY <1>2 DEF Blocks, connectionVars, sharedVars
  <2>2. \A j \in Callers : Stays(j)
    BY <1>2 DEF Blocks, Stays, callerVars
  <2> QED
    BY <2>1, <2>2, StillWire
<1>3. CASE Send(k) \/ Connect(k) \/ ConnectFails(k)
  <2>1. /\ UNCHANGED <<serverEnd, up, down, sent, answered, spoiled>>
        /\ \A j \in Callers \ {k} : Stays(j)
    BY <1>1, <1>3 DEF Send, Begin, Connect, ConnectFails, Return, Idle, Goto, WireUnchanged, connectionVars,
       Stays, TypeOK, ClientTypeOK
  <2>2. /\ pc[k] \in {"idle", "lock", "connect"} /\ pc'[k] \in {"idle", "lock", "connect", "exit"}
        /\ ~ret'[k]
    BY <1>1, <1>3 DEF Send, Connect, ConnectFails, Return, Idle, Goto, CallerInv, TypeOK, ClientTypeOK
  <2>3. \A c \in Conns : clientEnd'[c] \in {clientEnd[c], "closed"}
    BY <1>1, <1>3, Shuts DEF Send, Connect, CloseSocket, ConnectFails, connectionVars
  <2>4. socket_' \in {socket_, 0}
    BY <1>3 DEF Send, Connect, CloseSocket, ConnectFails, sharedVars
  <2>5. ASSUME NEW c \in Conns PROVE InUse(c) => InUse(c)'
    <3>1. pc[k] = "idle" => on[k] # c
      BY <1>1 DEF CallerInv, Conns
    <3> QED
      BY <2>1, <2>2, <3>1 DEF InUse, Stays
  <2> QED
    BY <2>1, <2>2, <2>3, <2>4, <2>5, AwayWire DEF Busy
<1> QED
  BY <1>2, <1>3

\* A connection is given to a caller: nothing is left on it, unless another
\* uses it.
LEMMA GivenWire ==
  ASSUME IInv, UNCHANGED serverVars, UNCHANGED <<clientEnd, serverEnd, up, down, sent, answered>>,
         \A d \in Conns : spoiled[d] \subseteq spoiled'[d],
         NEW k \in Callers, \A j \in Callers \ {k} : Stays(j),
         NEW c \in Conns, c = socket_, on'[k] = c, pc'[k] = "write", socket_' \in {socket_, 0},
         Clear(c)' => ~InUse(c)
  PROVE  WireInv'
<1>1. ASSUME NEW d \in Conns, d # c PROVE Clear(d)' => ConnectionInv(d)'
  <2>1. on'[k] # d /\ socket_' # d
    BY <1>1 DEF Conns
  <2> QED
    BY <2>1, MoveInv DEF Uses
<1>2. Clear(c)' => ConnectionInv(c)'
  <2>1. ASSUME Clear(c)', ConnectionInv(c)
        PROVE  Quiet(c) /\ \A j \in Callers : ~Uses(j, c)
    BY <2>1 DEF ConnectionInv, Uses, InUse, Busy
  <2>2. ASSUME Clear(c)', ConnectionInv(c) PROVE ExchangeInv(k)'
    BY <2>1, <2>2 DEF ExchangeInv, Quiet, Working, serverVars, servingVars
  <2>3. InUse(c)'
    BY DEF InUse
  <2>4. socket_' = c => socket_ = c
    OBVIOUS
  <2> QED
    BY <2>1, <2>2, <2>3, <2>4, MoveInv
<1> QED
  BY <1>1, <1>2 DEF WireInv

\* The wire when a caller takes the connection.
LEMMA TakeWire ==
  ASSUME IInv, UNCHANGED serverVars, NEW k \in Callers, Take(k) \/ Reuse(k)
  PROVE  WireInv'
<1>1. TypeOK /\ CallerInv(k) /\ socket_ \in Conns \cup {0}
  BY DEF IInv, ControlInv, TypeOK, ClientTypeOK
<1>2. /\ UNCHANGED <<clientEnd, serverEnd, up, down, sent, answered, ret>>
      /\ pc[k] \in {"lock", "take"} /\ ~ret[k]
      /\ \A j \in Callers \ {k} : Stays(j)
  BY <1>1 DEF Take, Reuse, Own, Goto, CallerInv, Stays, TypeOK, ClientTypeOK
<1>3. CASE Take(k) /\ socket_ = 0
  <2>1. /\ UNCHANGED <<socket_, spoiled>> /\ pc'[k] = "crashed"
    BY <1>1, <1>3 DEF Take, Goto, sharedVars, TypeOK, ClientTypeOK
  <2>2. ASSUME NEW c \in Conns PROVE InUse(c) => InUse(c)'
    BY <1>2 DEF InUse, Stays
  <2> QED
    BY <1>2, <2>1, <2>2, AwayWire DEF Busy
<1>4. CASE Reuse(k) /\ ~cur[k].stream
  <2>1. pc'[k] = "take" /\ socket_' = socket_ /\ spoiled' = spoiled
    BY <1>1, <1>4 DEF Reuse, Own, Goto, Spoil, TypeOK, ClientTypeOK, ConnectionsTypeOK
  <2>2. ASSUME NEW c \in Conns PROVE InUse(c) => InUse(c)'
    BY <1>2 DEF InUse, Stays
  <2> QED
    BY <1>2, <2>1, <2>2, AwayWire DEF Busy
<1>5. CASE (Take(k) /\ socket_ # 0) \/ (Reuse(k) /\ cur[k].stream)
  <2>1. PICK c \in Conns : c = socket_
    BY <1>1, <1>5 DEF Reuse
  <2>2. on'[k] = c /\ pc'[k] = "write" /\ socket_' \in {socket_, 0}
    BY <1>1, <1>5, <2>1 DEF Take, Reuse, Own, Goto, sharedVars, TypeOK, ClientTypeOK
  <2>3. PICK what \in SUBSET {"overlap", "unread", "417", "short"} :
          /\ InUse(c) => "overlap" \in what
          /\ Spoil(c, what) \/ (what = {} /\ spoiled' = spoiled)
    <3>1. CASE InUse(c)
      BY <1>5, <2>1, <3>1 DEF Take, Reuse
    <3>2. CASE ~InUse(c)
      BY <1>5, <2>1, <3>2 DEF Take, Reuse
    <3> QED
      BY <3>1, <3>2
  <2>4. (Clear(c)' => ~InUse(c)) /\ \A d \in Conns : spoiled[d] \subseteq spoiled'[d]
    BY <1>1, <2>3, Spoils DEF Clear
  <2> QED
    BY <1>2, <2>1, <2>2, <2>4, GivenWire
<1> QED
  BY <1>3, <1>4, <1>5

\* A connection that is made carries nothing.
LEMMA ConnectedWire ==
  ASSUME IInv, UNCHANGED serverVars, NEW k \in Callers, Connected(k)
  PROVE  WireInv'
<1>1. TypeOK /\ CallerInv(k) /\ \A c \in Conns : Fresh(c)
  BY DEF IInv, ControlInv
<1>2. PICK c \in Conns :
        /\ clientEnd[c] = "none" /\ clientEnd' = [clientEnd EXCEPT ![c] = "open"]
        /\ Own(k, "connect", c)
  BY DEF Connected
<1>3. /\ UNCHANGED <<serverEnd, up, down, sent, answered, spoiled, serving, ret>>
      /\ \A j \in Callers \ {k} : Stays(j)
      /\ ~ret[k] /\ socket_' \in {0, c}
      /\ \/ pc'[k] = "take" /\ on'[k] = on[k]
         \/ pc'[k] = "write" /\ on'[k] = c /\ socket_' = 0
      /\ pc[k] = "connect"
  BY <1>1, <1>2 DEF Connected, Own, Goto, CallerInv, Stays, WireUnchanged, serverVars, servingVars, TypeOK, ClientTypeOK
<1>4. ASSUME NEW d \in Conns, d # c PROVE Clear(d)' => ConnectionInv(d)'
  <2>1. clientEnd'[d] = clientEnd[d] /\ socket_' # d
    BY <1>1, <1>2, <1>3, <1>4 DEF TypeOK, ConnectionsTypeOK, Conns
  <2>2. ~Uses(k, d)'
    BY <1>3, <1>4 DEF Uses, Busy
  <2>3. on'[k] = d => ExchangeInv(k)'
    BY <1>3, <1>4 DEF ExchangeInv
  <2> QED
    BY <1>3, <2>1, <2>2, <2>3, MoveInv
<1>5. ConnectionInv(c)'
  <2>1. /\ up'[c] = <<>> /\ down'[c] = <<>> /\ sent'[c] = <<>> /\ answered'[c] = <<>>
        /\ serving'[c] = "none" /\ \A j \in Callers : on[j] # c
    BY <1>1, <1>2, <1>3 DEF Fresh
  <2>2. Quiet(c)' /\ \A j \in Callers \ {k} : on'[j] # c
    BY <1>3, <2>1 DEF Quiet, Working, Stays
  <2>3. Sole(c)'
    BY <2>2 DEF Sole, Uses
  <2>4. AnsweredInStep(c)' /\ NextInStep(c)'
    BY <2>1, <2>2 DEF AnsweredInStep, NextInStep, Quiet
  <2>5. on'[k] = c => ExchangeInv(k)'
    BY <1>3, <2>1, <2>2 DEF ExchangeInv
  <2> QED
    BY <2>2, <2>3, <2>4, <2>5 DEF ConnectionInv
<1> QED
  BY <1>4, <1>5 DEF WireInv

\* A caller has its answer, and goes on to return it, or is redirected: a
\* connection that it leaves open is quiet.
LEMMA AnsweredWire ==
  ASSUME IInv, UNCHANGED serverVars, NEW k \in Callers, Answered(k) \/ Redirect(k) \/ NotRedirected(k)
  PROVE  WireInv'
<1>1. pc[k] = "after" /\ pc[k] \in Busy
  BY DEF Answered, Redirect, NotRedirected, Goto, Busy
<1>2. PICK c \in Conns : c = on[k]
  BY <1>1, Exchanging
<1>3. TypeOK /\ CallerInv(k) /\ Uses(k, c) /\ ~ret[k] /\ socket_ \in Conns \cup {0}
  BY <1>1, <1>2, Exchanging DEF CallerInv, TypeOK, ClientTypeOK
<1>4. /\ UNCHANGED <<serverEnd, up, down, sent, answered, spoiled, serving, on>>
      /\ \A j \in Callers \ {k} : Stays(j)
  BY <1>3 DEF Answered, Redirect, NotRedirected, Begin, Goto, WireUnchanged, Stays, serverVars, servingVars,
     TypeOK, ClientTypeOK
<1>5. \A d \in Conns : clientEnd'[d] \in {clientEnd[d], "closed"}
  BY <1>3, Shuts DEF Answered, Redirect, NotRedirected, CloseAfterAnswer, CloseSocket
<1>6. socket_' \in {socket_, 0} /\ (got[k].close => socket_' = 0)
  BY DEF Answered, Redirect, NotRedirected, CloseAfterAnswer, CloseSocket
<1>7. ConnectionInv(c) => got[k].id = cur[k].id /\ (got[k].close \/ Quiet(c))
  BY <1>1, <1>2 DEF ConnectionInv, ExchangeInv
<1>8. CASE Redirect(k)
  <2>1. pc'[k] = "lock" /\ ~ret'[k]
    BY <1>3, <1>8 DEF Redirect, Goto, TypeOK, ClientTypeOK
  <2>2. ASSUME NEW d \in Conns, ConnectionInv(d), socket_' = d, InUse(d) PROVE InUse(d)' \/ Quiet(d)
    <3>1. CASE d = c
      BY <1>6, <1>7, <2>2, <3>1 DEF Conns
    <3>2. CASE d # c
      BY <1>2, <1>4, <2>2, <3>2 DEF InUse, Stays
    <3> QED
      BY <3>1, <3>2
  <2> QED
    BY <1>4, <1>5, <1>6, <2>1, <2>2, AwayWire DEF Busy
<1>9. CASE Answered(k) \/ NotRedirected(k)
  <2>1. pc'[k] = "exit" /\ cur' = cur
    BY <1>3, <1>9 DEF Answered, NotRedirected, Goto, TypeOK, ClientTypeOK
  <2>2. got'[k].id = got[k].id
    <3>1. got'[k] = got[k] \/ got'[k] = [got[k] EXCEPT !.status = "elsewhere"]
      BY <1>3, <1>9 DEF Answered, NotRedirected, TypeOK, ClientTypeOK
    <3>2. got[k] \in Answers
      BY <1>3 DEF TypeOK, ClientTypeOK
    <3>3. \A a \in Answers : [a EXCEPT !.status = "elsewhere"].id = a.id
      BY DEF Answers
    <3> QED
      BY <3>1, <3>2, <3>3
  <2>3. ASSUME NEW d \in Conns PROVE Clear(d)' => ConnectionInv(d)'
    <3>1. Uses(k, d)' => Uses(k, d)
      BY <1>1, <1>4 DEF Uses
    <3>2. ConnectionInv(d) /\ Uses(k, d)' => \A j \in Callers \ {k} : ~Uses(j, d)
      BY <3>1 DEF ConnectionInv, Sole
    <3>3. InUse(d) => InUse(d)'
      BY <1>4, <2>1 DEF InUse, Stays
    <3>4. socket_' = d => socket_ = d
      BY <1>6 DEF Conns
    <3>5. ASSUME ConnectionInv(d), on'[k] = d PROVE ExchangeInv(k)'
      <4>1. d = c /\ on'[k] = c
        BY <1>2, <1>4, <3>5
      <4>2. got'[k].id = cur'[k].id /\ (socket_' = c => Quiet(c)')
        BY <1>4, <1>6, <1>7, <2>1, <2>2, <3>5, <4>1 DEF Quiet, Working, Conns
      <4> QED
        BY <2>1, <4>1, <4>2 DEF ExchangeInv
    <3> QED
      BY <1>4, <1>5, <3>2, <3>3, <3>4, <3>5, MoveInv DEF ConnectionInv
  <2> QED
    BY <2>3 DEF WireInv
<1> QED
  BY <1>8, <1>9

\* send_ returns, and leaves the socket open only with an answer, after which
\* its connection is quiet.
LEMMA ExitWire ==
  ASSUME IInv, UNCHANGED serverVars, NEW k \in Callers, Exit(k)
  PROVE  WireInv'
<1>1. TypeOK /\ pc[k] = "exit" /\ socket_ \in Conns \cup {0}
  BY DEF IInv, ControlInv, Exit, Return, Idle, Goto, TypeOK, ClientTypeOK
<1>2. /\ UNCHANGED <<serverEnd, up, down, sent, answered, spoiled>>
      /\ \A j \in Callers \ {k} : Stays(j)
  BY <1>1 DEF Exit, Return, Idle, Goto, WireUnchanged, Stays, TypeOK, ClientTypeOK
<1>3. \A d \in Conns : clientEnd'[d] \in {clientEnd[d], "closed"}
  BY <1>1, Shuts DEF Exit, CloseSocket
<1>4. socket_' \in {socket_, 0} /\ (socket_' # 0 => ret[k] /\ socket_' = socket_)
  BY DEF Exit, CloseSocket
<1>5. CASE Idle(k, "exit")
  <2>1. pc'[k] = "idle" /\ ~ret'[k]
    BY <1>1, <1>5 DEF Idle, Goto, TypeOK, ClientTypeOK
  <2>2. ASSUME NEW d \in Conns, ConnectionInv(d), socket_' = d, InUse(d) PROVE InUse(d)' \/ Quiet(d)
    <3>1. CASE on[k] = d
      BY <1>1, <1>4, <2>2, <3>1 DEF ConnectionInv, ExchangeInv, Conns
    <3>2. CASE on[k] # d
      BY <1>2, <2>2, <3>2 DEF InUse, Stays
    <3> QED
      BY <3>1, <3>2
  <2> QED
    BY <1>2, <1>3, <1>4, <2>1, <2>2, AwayWire DEF Busy
<1>6. CASE ~Idle(k, "exit")
  <2>1. Stays(k)
    BY <1>1, <1>6 DEF Exit, Return, Goto, Stays, TypeOK, ClientTypeOK
  <2> QED
    BY <1>2, <1>3, <1>4, <2>1, StillWire
<1> QED
  BY <1>5, <1>6

\* The wire when the client is stopped.
LEMMA StopWire == ASSUME IInv, UNCHANGED serverVars, StopClient PROVE WireInv'
<1>1. TypeOK /\ socket_ \in Conns \cup {0}
  BY DEF IInv, ControlInv, TypeOK, ClientTypeOK
<1>2. \A d \in Conns : clientEnd'[d] \in {clientEnd[d], "closed"}
  BY <1>1, Shuts DEF StopClient, CloseSocket
<1>3. UNCHANGED <<serverEnd, up, down, sent, answered, spoiled>> /\ socket_' \in {socket_, 0}
  BY DEF StopClient, CloseSocket, WireUnchanged
<1>4. \A j \in Callers : Stays(j)
  BY DEF StopClient, Stays, callerVars
<1> QED
  BY <1>2, <1>3, <1>4, StillWire

-----------------------------------------------------------------------------
(***************************************************************************)
(* The theorems.                                                           *)
(***************************************************************************)
\* The wire at first.
LEMMA InitWire == Init => WireInv
<1> SUFFICES ASSUME Init PROVE WireInv
  OBVIOUS
<1>1. /\ \A c \in Conns : up[c] = <<>> /\ down[c] = <<>> /\ sent[c] = <<>> /\ answered[c] = <<>>
                           /\ serving[c] = "none"
      /\ \A k \in Callers : on[k] = 0
  BY DEF Init, ConnectionsInit, ServerInit, ClientInit
<1>2. ASSUME NEW c \in Conns PROVE ConnectionInv(c)
  <2>1. \A k \in Callers : on[k] # c
    BY <1>1 DEF Conns
  <2> QED
    BY <1>1, <2>1 DEF ConnectionInv, Sole, Uses, AnsweredInStep, NextInStep, Quiet, Working
<1> QED
  BY <1>2 DEF WireInv

\* The wire after every step.
LEMMA NextWire == ASSUME IInv, [Next]_vars PROVE WireInv'
<1>1. ASSUME UNCHANGED vars PROVE WireInv'
  <2>1. \A j \in Callers : Stays(j)
    BY <1>1 DEF Stays, vars, clientVars, callerVars
  <2> QED
    BY <1>1, <2>1, StillWire DEF vars, connectionVars, clientVars, sharedVars
<1>2. ASSUME ServerStep(ListenAsync) \/ ServerStep(Stop) PROVE WireInv'
  BY <1>2, ListenWire DEF ServerStep
<1>3. ASSUME NEW c \in Conns, ServerStep(ProcessRequest(c)) PROVE WireInv'
  BY <1>3, CloseWire, WorksWire, ReadRequestWire, ReadContentWire, WriteOnWire DEF ServerStep, ProcessRequest
<1>4. ASSUME NEW k \in Callers, ClientStep(Send(k) \/ Continues(k) \/ DropHandle(k)) PROVE WireInv'
  <2>1. UNCHANGED serverVars
    BY <1>4 DEF ClientStep
  <2>2. CASE Send(k) \/ Blocks(k) \/ Connect(k) \/ ConnectFails(k) \/ Take(k) \/ Reuse(k) \/ Connected(k)
    BY <2>1, <2>2, SendWire, TakeWire, ConnectedWire
  <2>3. CASE WriteRequest(k) \/ WriteBody(k) \/ ReadAnswer(k) \/ ReadAnswerContent(k) \/ ReadUntilEnd(k)
    BY <2>1, <2>3, WriteRequestWire, WriteBodyWire, ReadAnswerWire, ReadContentOfAnswerWire, ReadUntilEndWire
  <2>4. CASE RequestFails(k) \/ DropHandle(k) \/ Answered(k) \/ Redirect(k) \/ NotRedirected(k) \/ Exit(k)
    BY <2>1, <2>4, FailWire, AnsweredWire, ExitWire
  <2> QED
    BY <1>4, <2>2, <2>3, <2>4 DEF ClientStep, Continues
<1>5. ASSUME ClientStep(StopClient) PROVE WireInv'
  BY <1>5, StopWire DEF ClientStep
<1> QED
  BY <1>1, <1>2, <1>3, <1>4, <1>5 DEF Next

\* The invariant of the connections.
LEMMA Inductive == ASSUME ConnectionsAssumption, ClientAssumption PROVE Spec => []IInv
<1>1. Init => IInv
  BY InitControl, InitWire DEF IInv
<1>2. IInv /\ [Next]_vars => IInv'
  BY NextControl, NextWire DEF IInv
<1> QED
  BY <1>1, <1>2, PTL DEF Spec

\* However callers interleave, redirects nest and connections fail, requests in
\* flight are counted exactly, socket_mutex_ is held only across a connection
\* (httplib.h:10128), a task serves an accepted connection, and the server
\* answers in step with the requests of each (httplib.h:9161, 10112).
THEOREM HttpInvariant == ASSUME ConnectionsAssumption, ClientAssumption PROVE Spec => []HttpInv
<1>1. ASSUME IInv PROVE HttpInv
  <2>1. ASSUME NEW c \in Conns PROVE InStep(c)
    <3>1. spoiled[c] \in SUBSET {"overlap", "unread", "417", "short"}
      BY <1>1 DEF IInv, ControlInv, TypeOK, ConnectionsTypeOK
    <3>2. spoiled[c] = {} => Clear(c)
      BY DEF Clear
    <3> QED
      BY <1>1, <3>2 DEF IInv, WireInv, ConnectionInv, AnsweredInStep, InStep
  <2> QED
    BY <1>1, <2>1 DEF IInv, ControlInv, ServingInv, MutexInv, HttpInv
<1> QED
  BY <1>1, Inductive, PTL

\* A response that send() returns answers the request that it was called with,
\* on every connection that callers do not share, whose handlers read what they
\* answer, and on which no 417 was written (httplib.h:8656, 10692).
THEOREM AnswersMatch == ASSUME ConnectionsAssumption, ClientAssumption PROVE Spec => []Matched
<1>1. ASSUME IInv, NEW k \in Callers, pc[k] = "handle" \/ (pc[k] = "exit" /\ ret[k])
      PROVE  got[k].id = cur[k].id \/ spoiled[on[k]] \cap {"overlap", "unread", "417"} # {}
  <2>1. on[k] \in Conns
    BY <1>1 DEF IInv, ControlInv, CallerInv, Busy, TypeOK, ClientTypeOK
  <2>2. Clear(on[k]) => ExchangeInv(k)
    BY <1>1, <2>1 DEF IInv, WireInv, ConnectionInv
  <2> QED
    BY <1>1, <2>2 DEF ExchangeInv, Clear
<1>2. IInv => Matched
  BY <1>1 DEF Matched
<1> QED
  BY <1>2, Inductive, PTL

-----------------------------------------------------------------------------
\* What is read is taken from the front of the wire.
LEMMA ReadWire ==
  ASSUME IsSequence(wire), NEW n \in 0 .. Len(wire), Read(n)
  PROVE  /\ IsSequence(wire') /\ Len(wire') = Len(wire) - n
         /\ \A i \in 1 .. Len(wire) - n : wire'[i] = wire[n + i]
<1>0. Len(wire) \in Nat
  BY SequenceIs
<1>1. n + 1 \in 1 .. Len(wire) + 1 /\ Len(wire) \in (n + 1) - 1 .. Len(wire)
  BY <1>0
<1>2. /\ IsSequence(wire') /\ Len(wire') = Len(wire) - (n + 1) + 1
      /\ \A i \in 1 .. Len(wire) - (n + 1) + 1 : wire'[i] = wire[(n + 1) + i - 1]
  BY <1>1, Subsequence DEF Read
<1>3. Len(wire) - (n + 1) + 1 = Len(wire) - n
  BY <1>0
<1>4. \A i \in 1 .. Len(wire) - n : (n + 1) + i - 1 = n + i
  BY <1>0
<1> QED
  BY <1>2, <1>3, <1>4

\* What has been taken for content.
LEMMA UnitsAre ==
  ASSUME NEW n \in Nat
  PROVE  /\ IsSequence(Units(n)) /\ Len(Units(n)) = n
         /\ \A i \in 1 .. n : wire[i].t = "data" => Units(n)[i] = wire[i].of
<1> DEFINE u == Units(n)
<1>1. u = [i \in 1 .. n |-> u[i]]
  BY DEF Units
<1>2. \A i \in 1 .. n : wire[i].t = "data" => u[i] = wire[i].of
  BY DEF Units
<1> HIDE DEF u
<1>3. IsSequence(u) /\ Len(u) = n
  BY <1>1, SequenceOf
<1> QED
  BY <1>2, <1>3 DEF u

\* What is written comes after what is on the wire.
LEMMA WriteWire ==
  ASSUME IsSequence(wire), NEW elements, IsSequence(elements), Write(elements)
  PROVE  /\ IsSequence(wire') /\ Len(wire') = Len(wire) + Len(elements)
         /\ \A i \in 1 .. Len(wire) : wire'[i] = wire[i]
         /\ \A i \in 1 .. Len(elements) : wire'[Len(wire) + i] = elements[i]
BY Concatenation DEF Write

\* The units of a piece on the wire.
LEMMA DataIs ==
  ASSUME NEW s, IsSequence(s)
  PROVE  /\ IsSequence(Data(s)) /\ Len(Data(s)) = Len(s)
         /\ \A i \in 1 .. Len(s) : Data(s)[i] = [t |-> "data", of |-> s[i]]
<1> DEFINE d == Data(s)
<1>0. Len(s) \in Nat /\ DOMAIN s = 1 .. Len(s)
  BY SequenceIs
<1>1. d = [i \in 1 .. Len(s) |-> d[i]] /\ \A i \in 1 .. Len(s) : d[i] = [t |-> "data", of |-> s[i]]
  BY <1>0 DEF Data
<1> HIDE DEF d
<1>2. IsSequence(d) /\ Len(d) = Len(s)
  BY <1>0, <1>1, SequenceOf
<1> QED
  BY <1>1, <1>2 DEF d

-----------------------------------------------------------------------------
(***************************************************************************)
(* A body with a length, or until the connection is closed.                *)
(***************************************************************************)
\* The announced length is that of the content.
Fits == message.framing = "length" => message.length = Len(message.content)

\* All that the writer ever writes of such a message, by its place.
Streamed(i) ==
  IF i = 1 THEN Line("head")
  ELSE IF i = Len(message.content) + 2 THEN Line("next")
  ELSE [t |-> "data", of |-> message.content[i - 1]]

WrittenTotal == IF writer = "head" THEN 0 ELSE IF writer = "next" THEN offset + 2 ELSE offset + 1

\* The wire holds what has been written, but for the first r elements.
WireFrom(r) ==
  /\ r + Len(wire) = WrittenTotal
  /\ \A i \in 1 .. Len(wire) : wire[i] = Streamed(r + i)

\* How far the reader is when it has taken r elements.
ReaderAt(r) ==
  /\ reader = "head" => r = 0
  /\ reader = "length" => r = 1 + Len(body) /\ rest + Len(body) = Len(message.content) /\ rest > 0
  /\ reader = "skip" => r + rest = 1 + Len(message.content) /\ rest > 0
  /\ reader = "until close" => r = 1 + Len(body)
  /\ message.framing = "length" /\ result = "success" => r = 1 + Len(message.content)
  /\ message.framing = "length" /\ result = "too large" =>
       r = 1 + Len(message.content) \/ (wire = <<>> /\ writer = "closed")

PlainInv == message.framing # "chunked" /\ Fits => \E r \in Nat : WireFrom(r) /\ ReaderAt(r)

\* What is written follows what is on the wire.
LEMMA WireFromWrite ==
  ASSUME NEW r \in Nat, WireFrom(r), IsSequence(wire), NEW w \in Nat, WrittenTotal = w,
         NEW elements, IsSequence(elements), Write(elements),
         WrittenTotal' = w + Len(elements),
         \A i \in 1 .. Len(elements) : elements[i] = Streamed(w + i)
  PROVE  WireFrom(r)'
<1>0. Len(wire) \in Nat /\ Len(elements) \in Nat /\ message' = message
  BY SequenceIs DEF Write
<1>1. /\ Len(wire') = Len(wire) + Len(elements)
      /\ \A i \in 1 .. Len(wire) : wire'[i] = wire[i]
      /\ \A i \in 1 .. Len(elements) : wire'[Len(wire) + i] = elements[i]
  BY WriteWire
<1>2. r + Len(wire) = w /\ \A i \in 1 .. Len(wire) : wire[i] = Streamed(r + i)
  BY DEF WireFrom
<1>3. r + Len(wire) = w /\ Len(wire') = Len(wire) + Len(elements)
  BY <1>1, <1>2
<1>6. r + Len(wire') = WrittenTotal'
  BY <1>0, <1>3
<1>4. ASSUME NEW i \in 1 .. Len(wire') PROVE wire'[i] = Streamed(r + i)
  <2>1. CASE i <= Len(wire)
    BY <1>0, <1>1, <1>2, <2>1
  <2>2. CASE ~ (i <= Len(wire))
    <3>1. /\ i - Len(wire) \in 1 .. Len(elements) /\ Len(wire) + (i - Len(wire)) = i
          /\ w + (i - Len(wire)) = r + i
      BY <1>0, <1>3, <2>2
    <3>2. elements[i - Len(wire)] = Streamed(w + (i - Len(wire)))
      BY <3>1
    <3> QED
      BY <1>1, <3>1, <3>2
  <2> QED
    BY <2>1, <2>2
<1>5. \A i : Streamed(i)' = Streamed(i)
  BY <1>0 DEF Streamed
<1> QED
  BY <1>4, <1>5, <1>6 DEF WireFrom

\* What is read is gone from the wire.
LEMMA WireFromRead ==
  ASSUME NEW r \in Nat, WireFrom(r), IsSequence(wire), NEW n \in 0 .. Len(wire), Read(n)
  PROVE  WireFrom(r + n)'
<1>0. Len(wire) \in Nat /\ message' = message /\ WrittenTotal' = WrittenTotal
  BY SequenceIs DEF Read, WrittenTotal, writerVars
<1>1. /\ Len(wire') = Len(wire) - n
      /\ \A i \in 1 .. Len(wire) - n : wire'[i] = wire[n + i]
  BY ReadWire
<1>2. r + Len(wire) = WrittenTotal /\ \A i \in 1 .. Len(wire) : wire[i] = Streamed(r + i)
  BY DEF WireFrom
<1>3. r + n + Len(wire') = WrittenTotal'
  BY <1>0, <1>1, <1>2
<1>4. ASSUME NEW i \in 1 .. Len(wire') PROVE wire'[i] = Streamed(r + n + i)
  <2>1. n + i \in 1 .. Len(wire) /\ r + (n + i) = r + n + i /\ i \in 1 .. Len(wire) - n
    BY <1>0, <1>1
  <2> QED
    BY <1>1, <1>2, <2>1
<1>5. \A i : Streamed(i)' = Streamed(i)
  BY <1>0 DEF Streamed
<1> QED
  BY <1>3, <1>4, <1>5 DEF WireFrom

-----------------------------------------------------------------------------
(***************************************************************************)
(* A chunked body.  A reader that has taken an element goes from one place *)
(* to another: where it is, how much content it has, and how much is left  *)
(* of its chunk.                                                           *)
(***************************************************************************)
ChunkStep(e, a, p, r, a2, p2, r2) ==
  \/ a = "head" /\ e = Line("head") /\ a2 = "size" /\ p2 = p
  \/ a = "size" /\ e = Size(r2) /\ r2 > 0 /\ a2 = "chunk" /\ p2 = p
  \/ a = "size" /\ e = Size(r2) /\ r2 = 0 /\ a2 = "trailers" /\ p2 = p /\ p = Len(message.content)
  \/ /\ a = "chunk" /\ r > 0 /\ e = [t |-> "data", of |-> message.content[p + 1]]
     /\ p2 = p + 1 /\ r2 = r - 1
     /\ IF r2 = 0 THEN a2 = "chunk end" ELSE a2 = "chunk"
  \/ a = "chunk end" /\ e = Line("crlf") /\ a2 = "size" /\ p2 = p
  \/ a = "trailers" /\ e = Line("trailer") /\ a2 = "trailers" /\ p2 = p
  \/ a = "trailers" /\ e = Line("crlf") /\ a2 = "done" /\ p2 = p
  \/ a = "done" /\ e = Line("next") /\ a2 = "next" /\ p2 = p

\* The places that a reader comes to that takes the elements of w.
Run(at, pos, rem, w) ==
  /\ \A i \in 0 .. Len(w) : pos[i] \in 0 .. Len(message.content) /\ rem[i] \in Nat
  /\ \A i \in 1 .. Len(w) :
       ChunkStep(w[i], at[i - 1], pos[i - 1], rem[i - 1], at[i], pos[i], rem[i])

\* As long as the message is the same, so are the places in it.
LEMMA RunStays ==
  ASSUME message' = message, NEW at, NEW pos, NEW rem, Run(at, pos, rem, wire')
  PROVE  Run(at, pos, rem, wire)'
<1>1. ASSUME NEW i \in 1 .. Len(wire')
      PROVE  ChunkStep(wire[i], at[i - 1], pos[i - 1], rem[i - 1], at[i], pos[i], rem[i])'
  <2>1. ChunkStep(wire'[i], at[i - 1], pos[i - 1], rem[i - 1], at[i], pos[i], rem[i])
    BY DEF Run
  <2> QED
    BY <2>1 DEF ChunkStep
<1>2. ASSUME NEW i \in 0 .. Len(wire')
      PROVE  pos[i] \in 0 .. Len(message'.content) /\ rem[i] \in Nat
  BY DEF Run
<1> QED
  BY <1>1, <1>2 DEF Run

\* One run after another, but not within a chunk.
LEMMA RunConcat ==
  ASSUME NEW at1, NEW pos1, NEW rem1, NEW w, IsSequence(w), Run(at1, pos1, rem1, w),
         NEW at2, NEW pos2, NEW rem2, NEW v, IsSequence(v), Run(at2, pos2, rem2, v),
         at1[Len(w)] = at2[0], at2[0] # "chunk", pos1[Len(w)] = pos2[0]
  PROVE  \E at, pos, rem :
           /\ Run(at, pos, rem, w \o v)
           /\ at[0] = at1[0] /\ pos[0] = pos1[0] /\ rem[0] = rem1[0]
           /\ at[Len(w \o v)] = at2[Len(v)] /\ pos[Len(w \o v)] = pos2[Len(v)]
<1> DEFINE n == Len(w)
           m == Len(v)
           at == [i \in 0 .. n + m |-> IF i <= n THEN at1[i] ELSE at2[i - n]]
           pos == [i \in 0 .. n + m |-> IF i <= n THEN pos1[i] ELSE pos2[i - n]]
           rem == [i \in 0 .. n + m |-> IF i <= n THEN rem1[i] ELSE rem2[i - n]]
<1>0. n \in Nat /\ m \in Nat
  BY SequenceIs
<1>1. /\ Len(w \o v) = n + m
      /\ \A i \in 1 .. n : (w \o v)[i] = w[i]
      /\ \A i \in 1 .. m : (w \o v)[n + i] = v[i]
  BY Concatenation
<1> HIDE DEF n, m
<1>2. \A i \in 0 .. n : at[i] = at1[i] /\ pos[i] = pos1[i] /\ rem[i] = rem1[i]
  BY <1>0
<1>3. ASSUME NEW i \in 1 .. m
      PROVE  at[n + i] = at2[i] /\ pos[n + i] = pos2[i] /\ rem[n + i] = rem2[i]
  <2>1. n + i \in 0 .. n + m /\ ~ (n + i <= n) /\ (n + i) - n = i
    BY <1>0
  <2> QED
    BY <2>1
<1> HIDE DEF at, pos, rem
<1>4. at[n] = at2[0] /\ pos[n] = pos2[0]
  BY <1>0, <1>2 DEF n
<1>5. ASSUME NEW i \in 0 .. n + m
      PROVE  pos[i] \in 0 .. Len(message.content) /\ rem[i] \in Nat
  <2>1. CASE i <= n
    <3>1. i \in 0 .. n
      BY <1>0, <2>1
    <3> QED
      BY <1>2, <3>1 DEF Run, n
  <2>2. CASE ~ (i <= n)
    <3>1. i - n \in 1 .. m /\ n + (i - n) = i /\ i - n \in 0 .. m
      BY <1>0, <2>2
    <3>2. pos[i] = pos2[i - n] /\ rem[i] = rem2[i - n]
      BY <1>3, <3>1
    <3> QED
      BY <3>1, <3>2 DEF Run, m
  <2> QED
    BY <2>1, <2>2
<1>6. ASSUME NEW i \in 1 .. n + m
      PROVE  ChunkStep((w \o v)[i], at[i - 1], pos[i - 1], rem[i - 1], at[i], pos[i], rem[i])
  <2>1. CASE i <= n
    <3>1. i \in 1 .. n /\ i \in 0 .. n /\ i - 1 \in 0 .. n
      BY <1>0, <2>1
    <3>2. ChunkStep(w[i], at1[i - 1], pos1[i - 1], rem1[i - 1], at1[i], pos1[i], rem1[i])
      BY <3>1 DEF Run, n
    <3>3. (w \o v)[i] = w[i]
      BY <1>1, <3>1
    <3> QED
      BY <1>2, <3>1, <3>2, <3>3
  <2>2. CASE i = n + 1
    <3>1. 1 \in 1 .. m /\ 1 - 1 = 0 /\ i - 1 = n /\ i = n + 1
      BY <1>0, <2>2
    <3>2. ChunkStep(v[1], at2[0], pos2[0], rem2[0], at2[1], pos2[1], rem2[1])
      BY <3>1 DEF Run, m
    <3>3. (w \o v)[i] = v[1]
      BY <1>1, <3>1
    <3>4. at[i] = at2[1] /\ pos[i] = pos2[1] /\ rem[i] = rem2[1]
      BY <1>3, <3>1
    <3>5. ChunkStep(v[1], at2[0], pos2[0], rem[n], at2[1], pos2[1], rem2[1])
      BY <3>2 DEF ChunkStep
    <3> QED
      BY <1>4, <3>1, <3>3, <3>4, <3>5
  <2>3. CASE ~ (i <= n) /\ i # n + 1
    <3>1. /\ i - n \in 1 .. m /\ n + (i - n) = i
          /\ (i - n) - 1 \in 1 .. m /\ n + ((i - n) - 1) = i - 1
      BY <1>0, <2>3
    <3>2. ChunkStep(v[i - n], at2[(i - n) - 1], pos2[(i - n) - 1], rem2[(i - n) - 1],
                    at2[i - n], pos2[i - n], rem2[i - n])
      BY <3>1 DEF Run, m
    <3>3. (w \o v)[i] = v[i - n]
      BY <1>1, <3>1
    <3>4. at[i] = at2[i - n] /\ pos[i] = pos2[i - n] /\ rem[i] = rem2[i - n]
      BY <1>3, <3>1
    <3>5. /\ at[i - 1] = at2[(i - n) - 1] /\ pos[i - 1] = pos2[(i - n) - 1]
          /\ rem[i - 1] = rem2[(i - n) - 1]
      BY <1>3, <3>1
    <3> QED
      BY <3>2, <3>3, <3>4, <3>5
  <2> QED
    BY <2>1, <2>2, <2>3
<1>7. Run(at, pos, rem, w \o v)
  BY <1>1, <1>5, <1>6 DEF Run
<1>8. at[0] = at1[0] /\ pos[0] = pos1[0] /\ rem[0] = rem1[0]
  BY <1>0, <1>2
<1>9. at[n + m] = at2[m] /\ pos[n + m] = pos2[m]
  <2>1. CASE m = 0
    BY <1>0, <1>4, <2>1
  <2>2. CASE m # 0
    BY <1>0, <1>3, <2>2
  <2> QED
    BY <2>1, <2>2
<1> QED
  BY <1>1, <1>7, <1>8, <1>9 DEF m

\* What is left of a run when n elements are taken.
LEMMA RunSuffix ==
  ASSUME NEW at1, NEW pos1, NEW rem1, NEW w, IsSequence(w), Run(at1, pos1, rem1, w),
         NEW n \in 0 .. Len(w), NEW v, Len(v) = Len(w) - n,
         \A i \in 1 .. Len(w) - n : v[i] = w[n + i]
  PROVE  \E at, pos, rem :
           /\ Run(at, pos, rem, v)
           /\ at[0] = at1[n] /\ pos[0] = pos1[n] /\ rem[0] = rem1[n]
           /\ at[Len(v)] = at1[Len(w)] /\ pos[Len(v)] = pos1[Len(w)]
<1> DEFINE m == Len(w) - n
           at == [i \in 0 .. m |-> at1[n + i]]
           pos == [i \in 0 .. m |-> pos1[n + i]]
           rem == [i \in 0 .. m |-> rem1[n + i]]
<1>0. Len(w) \in Nat /\ m \in Nat /\ n \in Nat /\ n + m = Len(w) /\ Len(v) = m
  BY SequenceIs
<1>1. \A i \in 0 .. m : at[i] = at1[n + i] /\ pos[i] = pos1[n + i] /\ rem[i] = rem1[n + i]
  OBVIOUS
<1>2. \A i \in 1 .. m : v[i] = w[n + i]
  OBVIOUS
<1> HIDE DEF m, at, pos, rem
<1>3. ASSUME NEW i \in 0 .. m
      PROVE  pos[i] \in 0 .. Len(message.content) /\ rem[i] \in Nat
  <2>1. n + i \in 0 .. Len(w)
    BY <1>0
  <2> QED
    BY <1>1, <2>1 DEF Run
<1>4. ASSUME NEW i \in 1 .. m
      PROVE  ChunkStep(v[i], at[i - 1], pos[i - 1], rem[i - 1], at[i], pos[i], rem[i])
  <2>1. n + i \in 1 .. Len(w) /\ (n + i) - 1 = n + (i - 1) /\ i - 1 \in 0 .. m /\ i \in 0 .. m
    BY <1>0
  <2>2. ChunkStep(w[n + i], at1[(n + i) - 1], pos1[(n + i) - 1], rem1[(n + i) - 1],
                  at1[n + i], pos1[n + i], rem1[n + i])
    BY <2>1 DEF Run
  <2>3. at[i - 1] = at1[(n + i) - 1] /\ pos[i - 1] = pos1[(n + i) - 1] /\ rem[i - 1] = rem1[(n + i) - 1]
    BY <1>1, <2>1
  <2>4. at[i] = at1[n + i] /\ pos[i] = pos1[n + i] /\ rem[i] = rem1[n + i]
    BY <1>1, <2>1
  <2> QED
    BY <1>2, <2>2, <2>3, <2>4
<1>5. Run(at, pos, rem, v)
  BY <1>0, <1>3, <1>4 DEF Run
<1>6. at[0] = at1[n] /\ pos[0] = pos1[n] /\ rem[0] = rem1[n]
  <2>1. 0 \in 0 .. m /\ n + 0 = n
    BY <1>0
  <2> QED
    BY <1>1, <2>1
<1>7. at[m] = at1[Len(w)] /\ pos[m] = pos1[Len(w)]
  <2>1. m \in 0 .. m
    BY <1>0
  <2> QED
    BY <1>0, <1>1, <2>1
<1> QED
  BY <1>0, <1>5, <1>6, <1>7

\* Within a chunk there is content, up to its end.
AllContent(at, pos, rem, w, n) ==
  /\ at[n] = IF n = rem[0] THEN "chunk end" ELSE "chunk"
  /\ pos[n] = pos[0] + n /\ rem[n] = rem[0] - n
  /\ \A i \in 1 .. n : w[i] = [t |-> "data", of |-> message.content[pos[0] + i]]

\* In a chunk the next elements on the wire are its content.
LEMMA ChunkRun ==
  ASSUME NEW at, NEW pos, NEW rem, NEW w, IsSequence(w), Run(at, pos, rem, w),
         at[0] = "chunk", NEW n \in 1 .. Len(w), n \in 1 .. rem[0]
  PROVE  AllContent(at, pos, rem, w, n)
<1>0. Len(w) \in Nat /\ n \in Nat /\ rem[0] \in Nat /\ pos[0] \in Nat
  <2>1. Len(w) \in Nat
    BY SequenceIs
  <2>2. 0 \in 0 .. Len(w)
    BY <2>1
  <2>3. pos[0] \in 0 .. Len(message.content) /\ rem[0] \in Nat
    BY <2>2 DEF Run
  <2> QED
    BY <2>1, <2>3
<1> DEFINE Good(i) ==
             /\ at[i] = IF i = rem[0] THEN "chunk end" ELSE "chunk"
             /\ pos[i] = pos[0] + i /\ rem[i] = rem[0] - i
             /\ w[i] = [t |-> "data", of |-> message.content[pos[0] + i]]
           S == {i \in 1 .. n : ~ Good(i)}
<1>1. ASSUME NEW i \in 1 .. n,
             at[i - 1] = "chunk", pos[i - 1] = pos[0] + (i - 1), rem[i - 1] = rem[0] - (i - 1)
      PROVE  Good(i)
  <2>1. i \in 1 .. Len(w)
    BY <1>0
  <2>2. ChunkStep(w[i], at[i - 1], pos[i - 1], rem[i - 1], at[i], pos[i], rem[i])
    BY <2>1 DEF Run
  <2>3. /\ w[i] = [t |-> "data", of |-> message.content[pos[i - 1] + 1]]
        /\ pos[i] = pos[i - 1] + 1 /\ rem[i] = rem[i - 1] - 1
        /\ IF rem[i] = 0 THEN at[i] = "chunk end" ELSE at[i] = "chunk"
    BY <1>1, <2>2 DEF ChunkStep
  <2>4. pos[i - 1] + 1 = pos[0] + i /\ rem[i - 1] - 1 = rem[0] - i /\ (rem[0] - i = 0 <=> i = rem[0])
    BY <1>0, <1>1
  <2> QED
    BY <2>3, <2>4
<1>2. ASSUME S # {} PROVE FALSE
  <2> HIDE DEF Good
  <2>1. S \subseteq Nat
    OBVIOUS
  <2>2. PICK k \in S : \A j \in S : k <= j
    BY <1>2, <2>1, LeastNatural
  <2>3. k \in 1 .. n
    OBVIOUS
  <2>4. CASE k = 1
    <3>1. k - 1 = 0 /\ pos[0] = pos[0] + 0 /\ rem[0] = rem[0] - 0
      BY <1>0, <2>4
    <3>2. /\ at[k - 1] = "chunk" /\ pos[k - 1] = pos[0] + (k - 1) /\ rem[k - 1] = rem[0] - (k - 1)
      BY <3>1
    <3> QED
      BY <1>1, <2>3, <3>2
  <2>5. CASE k # 1
    <3>1. k - 1 \in 1 .. n /\ k - 1 # rem[0] /\ ~ (k <= k - 1)
      BY <1>0, <2>3, <2>5
    <3>2. Good(k - 1)
      <4>1. k - 1 \notin S
        BY <2>2, <3>1
      <4> QED
        BY <3>1, <4>1
    <3>3. /\ at[k - 1] = "chunk" /\ pos[k - 1] = pos[0] + (k - 1) /\ rem[k - 1] = rem[0] - (k - 1)
      BY <3>1, <3>2 DEF Good
    <3> QED
      BY <1>1, <2>3, <3>3
  <2> QED
    BY <2>4, <2>5
<1>3. \A i \in 1 .. n : Good(i)
  BY <1>2
<1>4. n \in 1 .. n
  BY <1>0
<1> QED
  BY <1>3, <1>4 DEF AllContent

-----------------------------------------------------------------------------
\* The message does not change.
MessageOK ==
  /\ message.framing \in {"length", "chunked", "close"}
  /\ IsSequence(message.content) /\ message.length \in Nat /\ message.trailers \in Nat
  /\ message.framing # "length" => message.length = 0
  /\ message.framing = "length" /\ message.length = 0 => message.content = <<>>
  /\ receiver \in {"server", "client", "handle"}

\* Where writer and reader can be, and with what.
PlacesInv ==
  /\ IsSequence(wire) /\ IsSequence(body)
  /\ writer \in {"head", "content", "ended", "cut", "failed", "closed", "next"}
  /\ offset \in 0 .. Len(message.content)
  /\ writer = "head" => offset = 0
  /\ writer \in {"ended", "next"} => offset = Len(message.content)
  /\ writer = "next" => message.framing # "close"
  /\ rest \in Nat
  /\ reader \in {"head", "length", "skip", "until close", "size", "chunk", "trailers", "done"}
  /\ reader \in {"length", "skip"} => message.framing = "length"
  /\ reader = "until close" => message.framing = "close"
  /\ reader \in {"size", "chunk", "trailers"} => message.framing = "chunked"
  /\ result \in {"none", "success", "error", "too large"}
  /\ (reader = "done") = (result # "none")

\* What is handed over is a beginning of the content.
BodyInv ==
  /\ reader = "head" => body = <<>>
  /\ Fits =>
       /\ Len(body) <= Len(message.content)
       /\ \A i \in 1 .. Len(body) : body[i] = message.content[i]
       /\ reader = "trailers" \/ (result = "success" /\ message.framing # "close") =>
            Len(body) = Len(message.content)

\* Where a run ends that has taken all that is written.
EndsAt(a, p) ==
  /\ writer = "head" => a = "head" /\ p = offset
  /\ writer = "content" => a = "size" /\ p = offset
  /\ writer = "ended" => a = "done" /\ p = offset

Tracked == result = "none" \/ (result = "success" /\ receiver # "handle")

ChunkedInv ==
  message.framing = "chunked" /\ Tracked =>
    \E at, pos, rem :
      /\ Run(at, pos, rem, wire)
      /\ at[0] = reader /\ pos[0] = Len(body)
      /\ reader = "chunk" => rem[0] = rest /\ rest > 0
      /\ EndsAt(at[Len(wire)], pos[Len(wire)])

ContentInv == PlacesInv /\ BodyInv /\ PlainInv /\ ChunkedInv

\* One element, a sequence, and another element.
Enclosure(a, s, b) == <<a>> \o s \o <<b>>

\* The elements of a sequence with one before and one after it.
LEMMA Enclosed ==
  ASSUME NEW s, IsSequence(s), NEW a, NEW b
  PROVE  LET w == Enclosure(a, s, b)
         IN  /\ IsSequence(w) /\ Len(w) = Len(s) + 2
             /\ w[1] = a /\ w[Len(s) + 2] = b
             /\ \A i \in 1 .. Len(s) : w[1 + i] = s[i]
<1>1. PICK x, y : x = <<a>> /\ y = <<b>>
  OBVIOUS
<1>2. /\ IsSequence(x) /\ Len(x) = 1 /\ x[1] = a
      /\ IsSequence(y) /\ Len(y) = 1 /\ y[1] = b
  BY <1>1, OneElement
<1>3. IsSequence(x) /\ IsSequence(y)
  BY <1>2
<1>4. /\ IsSequence(x \o s) /\ Len(x \o s) = Len(x) + Len(s)
      /\ \A i \in 1 .. Len(x) : (x \o s)[i] = x[i]
      /\ \A i \in 1 .. Len(s) : (x \o s)[Len(x) + i] = s[i]
  BY <1>3, Concatenation
<1>5. PICK v : v = x \o s
  OBVIOUS
<1>6. /\ IsSequence(v) /\ Len(v) = Len(x) + Len(s)
      /\ \A i \in 1 .. Len(x) : v[i] = x[i]
      /\ \A i \in 1 .. Len(s) : v[Len(x) + i] = s[i]
  BY <1>4, <1>5
<1>7. IsSequence(v) /\ IsSequence(y)
  BY <1>3, <1>6
<1>8. /\ IsSequence(v \o y) /\ Len(v \o y) = Len(v) + Len(y)
      /\ \A i \in 1 .. Len(v) : (v \o y)[i] = v[i]
      /\ \A i \in 1 .. Len(y) : (v \o y)[Len(v) + i] = y[i]
  BY <1>7, Concatenation
<1>9. PICK w : w = <<a>> \o s \o <<b>>
  OBVIOUS
<1>10. w = v \o y
  BY <1>1, <1>5, <1>9
<1>11. /\ IsSequence(w) /\ Len(w) = Len(v) + Len(y)
       /\ \A i \in 1 .. Len(v) : w[i] = v[i]
       /\ \A i \in 1 .. Len(y) : w[Len(v) + i] = y[i]
  BY <1>8, <1>10
<1>12. Len(s) \in Nat /\ Len(v) = Len(s) + 1 /\ Len(w) = Len(s) + 2 /\ Len(v) + 1 = Len(s) + 2
  <2>1. Len(s) \in Nat
    BY SequenceIs
  <2>2. Len(x) = 1 /\ Len(y) = 1 /\ Len(v) = Len(x) + Len(s) /\ Len(w) = Len(v) + Len(y)
    BY <1>2, <1>6, <1>11
  <2> QED
    BY <2>1, <2>2
<1>13. w[Len(s) + 2] = b
  <2>1. 1 \in 1 .. Len(y)
    BY <1>2
  <2>2. w[Len(v) + 1] = y[1]
    BY <1>11, <2>1
  <2> QED
    BY <1>2, <1>12, <2>2
<1>14. w[1] = a
  <2>1. 1 \in 1 .. Len(x) /\ 1 \in 1 .. Len(v)
    BY <1>2, <1>12
  <2>2. w[1] = v[1] /\ v[1] = x[1]
    BY <1>6, <1>11, <2>1
  <2> QED
    BY <1>2, <2>2
<1>15. ASSUME NEW i \in 1 .. Len(s) PROVE w[1 + i] = s[i]
  <2>1. 1 + i \in 1 .. Len(v) /\ Len(x) = 1
    BY <1>2, <1>12
  <2>2. w[1 + i] = v[1 + i] /\ v[1 + i] = s[i]
    BY <1>6, <1>11, <2>1
  <2> QED
    BY <2>2
<1>16. IsSequence(w)
  BY <1>11
<1>17. w = Enclosure(a, s, b)
  BY <1>9 DEF Enclosure
<1> QED
  BY <1>12, <1>13, <1>14, <1>15, <1>16, <1>17

\* What is written of a chunked body continues the run.
LEMMA ChunkedWrite ==
  ASSUME IsSequence(wire), ChunkedInv,
         NEW elements, IsSequence(elements), Write(elements),
         NEW at2, NEW pos2, NEW rem2, Run(at2, pos2, rem2, elements), at2[0] # "chunk",
         writer \in {"head", "content", "ended"}, EndsAt(at2[0], pos2[0]),
         EndsAt(at2[Len(elements)], pos2[Len(elements)])'
  PROVE  ChunkedInv'
<1>0. /\ message' = message /\ receiver' = receiver /\ reader' = reader /\ rest' = rest
      /\ body' = body /\ result' = result /\ wire' = wire \o elements
  BY DEF Write, readerVars
<1> SUFFICES ASSUME message.framing = "chunked", Tracked
             PROVE  ChunkedInv'
  BY <1>0 DEF ChunkedInv, Tracked
<1>1. PICK at1, pos1, rem1 :
        /\ Run(at1, pos1, rem1, wire)
        /\ at1[0] = reader /\ pos1[0] = Len(body)
        /\ reader = "chunk" => rem1[0] = rest /\ rest > 0
        /\ EndsAt(at1[Len(wire)], pos1[Len(wire)])
  BY DEF ChunkedInv
<1>2. at1[Len(wire)] = at2[0] /\ pos1[Len(wire)] = pos2[0]
  BY <1>1 DEF EndsAt
<1>3. PICK at, pos, rem :
        /\ Run(at, pos, rem, wire \o elements)
        /\ at[0] = at1[0] /\ pos[0] = pos1[0] /\ rem[0] = rem1[0]
        /\ at[Len(wire \o elements)] = at2[Len(elements)]
        /\ pos[Len(wire \o elements)] = pos2[Len(elements)]
  BY <1>1, <1>2, RunConcat
<1>4. Run(at, pos, rem, wire)'
  <2>1. Run(at, pos, rem, wire')
    BY <1>0, <1>3
  <2> QED
    BY <1>0, <2>1, RunStays
<1>5. EndsAt(at[Len(wire)], pos[Len(wire)])'
  BY <1>0, <1>3 DEF EndsAt
<1> QED
  BY <1>0, <1>1, <1>3, <1>4, <1>5 DEF ChunkedInv

\* What is read of it shortens the run.
LEMMA ChunkedRead ==
  ASSUME IsSequence(wire), NEW at1, NEW pos1, NEW rem1, Run(at1, pos1, rem1, wire),
         EndsAt(at1[Len(wire)], pos1[Len(wire)]), NEW n \in 0 .. Len(wire), Read(n),
         at1[n] = reader', pos1[n] = Len(body'), reader' = "chunk" => rem1[n] = rest' /\ rest' > 0
  PROVE  ChunkedInv'
<1>0. message' = message /\ writer' = writer /\ offset' = offset
  BY DEF Read, writerVars
<1>1. /\ IsSequence(wire') /\ Len(wire') = Len(wire) - n
      /\ \A i \in 1 .. Len(wire) - n : wire'[i] = wire[n + i]
  BY ReadWire
<1>2. PICK at, pos, rem :
        /\ Run(at, pos, rem, wire')
        /\ at[0] = at1[n] /\ pos[0] = pos1[n] /\ rem[0] = rem1[n]
        /\ at[Len(wire')] = at1[Len(wire)] /\ pos[Len(wire')] = pos1[Len(wire)]
  BY <1>1, RunSuffix
<1>3. Run(at, pos, rem, wire)'
  BY <1>0, <1>2, RunStays
<1>4. EndsAt(at[Len(wire)], pos[Len(wire)])'
  BY <1>0, <1>2 DEF EndsAt
<1> QED
  BY <1>2, <1>3, <1>4 DEF ChunkedInv

-----------------------------------------------------------------------------
(***************************************************************************)
(* The steps of the writer.                                                *)
(***************************************************************************)
\* The head is written.
LEMMA WriteHeadKeeps ==
  ASSUME MessageOK, ContentInv, WriteHead
  PROVE  ContentInv'
<1> DEFINE elements == <<Line("head")>>
<1>0. /\ Write(elements) /\ writer = "head" /\ writer' = "content" /\ offset' = offset /\ offset = 0
      /\ message' = message /\ receiver' = receiver /\ reader' = reader /\ rest' = rest
      /\ body' = body /\ result' = result
  BY DEF WriteHead, Write, readerVars, ContentInv, PlacesInv
<1>1. IsSequence(elements) /\ Len(elements) = 1 /\ elements[1] = Line("head")
  BY OneElement
<1> HIDE DEF elements
<1>2. IsSequence(wire) /\ IsSequence(wire')
  BY <1>0, <1>1, WriteWire DEF ContentInv, PlacesInv
<1>3. PlacesInv'
  BY <1>0, <1>2 DEF ContentInv, PlacesInv
<1>4. BodyInv'
  BY <1>0 DEF ContentInv, BodyInv, Fits
<1>5. PlainInv'
  <2> SUFFICES ASSUME message.framing # "chunked", Fits
               PROVE  \E r \in Nat : WireFrom(r)' /\ ReaderAt(r)'
    BY <1>0 DEF PlainInv, Fits
  <2>1. PICK r \in Nat : WireFrom(r) /\ ReaderAt(r)
    BY DEF ContentInv, PlainInv
  <2>2. WrittenTotal = 0 /\ WrittenTotal' = 0 + Len(elements)
    BY <1>0, <1>1 DEF WrittenTotal
  <2>3. \A i \in 1 .. Len(elements) : elements[i] = Streamed(0 + i)
    BY <1>1 DEF Streamed
  <2>4. WireFrom(r)'
    BY <1>0, <1>1, <1>2, <2>1, <2>2, <2>3, WireFromWrite
  <2>5. ReaderAt(r)'
    BY <1>0, <2>1 DEF ReaderAt
  <2> QED
    BY <2>4, <2>5
<1>6. ChunkedInv'
  <2> DEFINE at == [i \in 0 .. 1 |-> IF i = 0 THEN "head" ELSE "size"]
             pos == [i \in 0 .. 1 |-> 0]
             rem == [i \in 0 .. 1 |-> 0]
  <2>1. at[0] = "head" /\ at[1] = "size" /\ pos[0] = 0 /\ pos[1] = 0 /\ rem[0] = 0 /\ rem[1] = 0
    OBVIOUS
  <2>2. Len(message.content) \in Nat
    BY SequenceIs DEF MessageOK
  <2> HIDE DEF at, pos, rem
  <2>3. Run(at, pos, rem, elements)
    <3>1. \A i \in 0 .. 1 : pos[i] \in 0 .. Len(message.content) /\ rem[i] \in Nat
      <4>1. \A i \in 0 .. 1 : i = 0 \/ i = 1
        OBVIOUS
      <4> QED
        BY <2>1, <2>2, <4>1
    <3>2. ChunkStep(elements[1], at[0], pos[0], rem[0], at[1], pos[1], rem[1])
      BY <1>1, <2>1 DEF ChunkStep
    <3>3. \A i \in 1 .. 1 : i = 1 /\ i - 1 = 0
      OBVIOUS
    <3> QED
      BY <1>1, <3>1, <3>2, <3>3 DEF Run
  <2>4. writer \in {"head", "content", "ended"} /\ EndsAt(at[0], pos[0])
    BY <1>0, <2>1 DEF EndsAt
  <2>5. EndsAt(at[Len(elements)], pos[Len(elements)])'
    BY <1>0, <1>1, <2>1 DEF EndsAt
  <2>6. at[0] # "chunk"
    BY <2>1
  <2>7. ChunkedInv
    BY DEF ContentInv
  <2> QED
    BY <1>0, <1>1, <1>2, <2>3, <2>4, <2>5, <2>6, <2>7, ChunkedWrite
<1> QED
  BY <1>3, <1>4, <1>5, <1>6 DEF ContentInv

\* The writer ends, fails or closes the connection and writes nothing.
LEMMA WriterStopsKeeps ==
  ASSUME MessageOK, ContentInv,
         writer \in {"content", "ended", "cut", "failed"},
         \/ writer' \in {"cut", "failed", "closed"}
         \/ writer' = "ended" /\ message.framing # "chunked" /\ offset = Len(message.content),
         UNCHANGED <<offset, message, receiver, limit, wire, readerVars>>
  PROVE  ContentInv'
<1>0. /\ offset' = offset /\ wire' = wire
      /\ message' = message /\ receiver' = receiver /\ reader' = reader /\ rest' = rest
      /\ body' = body /\ result' = result
  BY DEF readerVars
<1>3. PlacesInv'
  BY <1>0 DEF ContentInv, PlacesInv
<1>4. BodyInv'
  BY <1>0 DEF ContentInv, BodyInv, Fits
<1>5. PlainInv'
  <2> SUFFICES ASSUME message.framing # "chunked", Fits
               PROVE  \E r \in Nat : WireFrom(r)' /\ ReaderAt(r)'
    BY <1>0 DEF PlainInv, Fits
  <2>1. PICK r \in Nat : WireFrom(r) /\ ReaderAt(r)
    BY DEF ContentInv, PlainInv
  <2>2. WrittenTotal' = WrittenTotal
    BY <1>0 DEF WrittenTotal
  <2>4. WireFrom(r)'
    BY <1>0, <2>1, <2>2 DEF WireFrom, Streamed
  <2>5. ReaderAt(r)'
    BY <1>0, <2>1 DEF ReaderAt
  <2> QED
    BY <2>4, <2>5
<1>6. ChunkedInv'
  <2> SUFFICES ASSUME message.framing = "chunked", Tracked
               PROVE  ChunkedInv'
    BY <1>0 DEF ChunkedInv, Tracked
  <2>1. PICK at, pos, rem :
          /\ Run(at, pos, rem, wire)
          /\ at[0] = reader /\ pos[0] = Len(body)
          /\ reader = "chunk" => rem[0] = rest /\ rest > 0
          /\ EndsAt(at[Len(wire)], pos[Len(wire)])
    BY DEF ContentInv, ChunkedInv
  <2>2. Run(at, pos, rem, wire)'
    <3>1. Run(at, pos, rem, wire')
      BY <1>0, <2>1
    <3> QED
      BY <1>0, <3>1, RunStays
  <2>3. EndsAt(at[Len(wire)], pos[Len(wire)])'
    BY DEF EndsAt
  <2> QED
    BY <1>0, <2>1, <2>2, <2>3 DEF ChunkedInv
<1> QED
  BY <1>3, <1>4, <1>5, <1>6 DEF ContentInv

\* The head of the next message is written.
LEMMA WriteNextKeeps ==
  ASSUME MessageOK, ContentInv, WriteNext
  PROVE  ContentInv'
<1> PICK L : L = Len(message.content)
  OBVIOUS
<1> DEFINE elements == <<Line("next")>>
<1>0. /\ Write(elements) /\ writer = "ended" /\ writer' = "next" /\ offset' = offset /\ offset = L
      /\ message' = message /\ receiver' = receiver /\ reader' = reader /\ rest' = rest
      /\ body' = body /\ result' = result /\ message.framing # "close" /\ L = Len(message.content)
  BY DEF WriteNext, Write, readerVars, ContentInv, PlacesInv
<1>1. IsSequence(elements) /\ Len(elements) = 1 /\ elements[1] = Line("next")
  BY OneElement
<1> HIDE DEF elements
<1>2. IsSequence(wire) /\ IsSequence(wire') /\ L \in Nat
  <2>1. IsSequence(wire) /\ IsSequence(message.content)
    BY DEF ContentInv, PlacesInv, MessageOK
  <2> QED
    BY <1>0, <1>1, <2>1, WriteWire, SequenceIs
<1>3. PlacesInv'
  BY <1>0, <1>2 DEF ContentInv, PlacesInv
<1>4. BodyInv'
  BY <1>0 DEF ContentInv, BodyInv, Fits
<1>5. PlainInv'
  <2> SUFFICES ASSUME message.framing # "chunked", Fits
               PROVE  \E r \in Nat : WireFrom(r)' /\ ReaderAt(r)'
    BY <1>0 DEF PlainInv, Fits
  <2>1. PICK r \in Nat : WireFrom(r) /\ ReaderAt(r)
    BY DEF ContentInv, PlainInv
  <2>2. WrittenTotal = L + 1 /\ WrittenTotal' = (L + 1) + Len(elements) /\ L + 1 \in Nat
    BY <1>0, <1>1, <1>2 DEF WrittenTotal
  <2>3. \A i \in 1 .. Len(elements) : elements[i] = Streamed((L + 1) + i)
    <3>1. \A i \in 1 .. 1 : (L + 1) + i = L + 2 /\ i = 1 /\ L + 2 # 1
      BY <1>2
    <3> QED
      BY <1>0, <1>1, <3>1 DEF Streamed
  <2>4. WireFrom(r)'
    BY <1>0, <1>1, <1>2, <2>1, <2>2, <2>3, WireFromWrite
  <2>5. ReaderAt(r)'
    BY <1>0, <2>1 DEF ReaderAt
  <2> QED
    BY <2>4, <2>5
<1>6. ChunkedInv'
  <2> DEFINE at == [i \in 0 .. 1 |-> IF i = 0 THEN "done" ELSE "next"]
             pos == [i \in 0 .. 1 |-> L]
             rem == [i \in 0 .. 1 |-> 0]
  <2>1. at[0] = "done" /\ at[1] = "next" /\ pos[0] = L /\ pos[1] = L /\ rem[0] = 0 /\ rem[1] = 0
    OBVIOUS
  <2> HIDE DEF at, pos, rem
  <2>3. Run(at, pos, rem, elements)
    <3>1. \A i \in 0 .. 1 : pos[i] \in 0 .. L /\ rem[i] \in Nat
      <4>1. \A i \in 0 .. 1 : i = 0 \/ i = 1
        OBVIOUS
      <4> QED
        BY <1>2, <2>1, <4>1
    <3>2. ChunkStep(elements[1], at[0], pos[0], rem[0], at[1], pos[1], rem[1])
      BY <1>1, <2>1 DEF ChunkStep
    <3>3. \A i \in 1 .. 1 : i = 1 /\ i - 1 = 0
      OBVIOUS
    <3> QED
      BY <1>0, <1>1, <3>1, <3>2, <3>3 DEF Run
  <2>4. writer \in {"head", "content", "ended"} /\ EndsAt(at[0], pos[0])
    BY <1>0, <2>1 DEF EndsAt
  <2>5. EndsAt(at[Len(elements)], pos[Len(elements)])'
    BY <1>0 DEF EndsAt
  <2>6. at[0] # "chunk"
    BY <2>1
  <2>7. ChunkedInv /\ IsSequence(wire) /\ Write(elements) /\ IsSequence(elements)
    BY <1>0, <1>1, <1>2 DEF ContentInv
  <2> QED
    BY <1>0, <1>1, <1>2, <2>3, <2>4, <2>5, <2>6, <2>7, ChunkedWrite
<1> QED
  BY <1>3, <1>4, <1>5, <1>6 DEF ContentInv

\* A chunk takes the reader from its size to behind it.
LEMMA ChunkIsRun ==
  ASSUME MessageOK, NEW n \in 1 .. Left, offset \in 0 .. Len(message.content)
  PROVE  LET chunk == Chunk(SubSeq(message.content, offset + 1, offset + n))
         IN  /\ IsSequence(chunk)
             /\ \E at, pos, rem :
                  /\ Run(at, pos, rem, chunk)
                  /\ at[0] = "size" /\ pos[0] = offset
                  /\ at[Len(chunk)] = "size" /\ pos[Len(chunk)] = offset + n
<1> DEFINE L == Len(message.content)
           piece == SubSeq(message.content, offset + 1, offset + n)
           chunk == Chunk(piece)
<1>0. L \in Nat /\ n \in Nat /\ n > 0 /\ offset \in Nat /\ offset + n <= L
  <2>1. L \in Nat
    BY SequenceIs DEF MessageOK
  <2> QED
    BY <2>1 DEF Left
<1>1. /\ IsSequence(piece) /\ Len(piece) = n
      /\ \A i \in 1 .. n : piece[i] = message.content[offset + i]
  <2>1. offset + 1 \in 1 .. L + 1 /\ offset + n \in (offset + 1) - 1 .. L
    BY <1>0
  <2>2. /\ IsSequence(piece) /\ Len(piece) = (offset + n) - (offset + 1) + 1
        /\ \A i \in 1 .. (offset + n) - (offset + 1) + 1 : piece[i] = message.content[(offset + 1) + i - 1]
    BY <2>1, Subsequence DEF MessageOK
  <2>3. (offset + n) - (offset + 1) + 1 = n /\ \A i \in 1 .. n : (offset + 1) + i - 1 = offset + i
    BY <1>0
  <2> HIDE DEF piece
  <2> QED
    BY <2>2, <2>3
<1> HIDE DEF piece
<1>2. /\ IsSequence(chunk) /\ Len(chunk) = n + 2
      /\ chunk[1] = Size(n) /\ chunk[n + 2] = Line("crlf")
      /\ \A i \in 1 .. n : chunk[1 + i] = [t |-> "data", of |-> message.content[offset + i]]
  <2>1. /\ IsSequence(Data(piece)) /\ Len(Data(piece)) = n
        /\ \A i \in 1 .. n : Data(piece)[i] = [t |-> "data", of |-> piece[i]]
    BY <1>1, DataIs
  <2>2. chunk = Enclosure(Size(n), Data(piece), Line("crlf"))
    BY <1>1 DEF Chunk, Enclosure
  <2> DEFINE d == Data(piece)
  <2> HIDE DEF chunk, d
  <2>3. /\ IsSequence(chunk) /\ Len(chunk) = Len(d) + 2
        /\ chunk[1] = Size(n) /\ chunk[Len(d) + 2] = Line("crlf")
        /\ \A i \in 1 .. Len(d) : chunk[1 + i] = d[i]
    <3>1. IsSequence(d) /\ chunk = Enclosure(Size(n), d, Line("crlf"))
      BY <2>1, <2>2 DEF d
    <3> QED
      BY <3>1, Enclosed
  <2> QED
    BY <1>1, <2>1, <2>3 DEF d
<1> HIDE DEF chunk, L
<1> DEFINE at == [i \in 0 .. n + 2 |->
                    IF i \in {0, n + 2} THEN "size" ELSE IF i = n + 1 THEN "chunk end" ELSE "chunk"]
           pos == [i \in 0 .. n + 2 |->
                     IF i = 0 THEN offset ELSE IF i = n + 2 THEN offset + n ELSE offset + i - 1]
           rem == [i \in 0 .. n + 2 |-> IF i \in {0, n + 2} THEN 0 ELSE n + 1 - i]
<1>3. /\ at[0] = "size" /\ pos[0] = offset /\ at[n + 2] = "size" /\ pos[n + 2] = offset + n
      /\ at[n + 1] = "chunk end" /\ pos[n + 1] = offset + n
  <2>1. /\ 0 \in 0 .. n + 2 /\ n + 2 \in 0 .. n + 2 /\ n + 1 \in 0 .. n + 2
        /\ n + 2 # 0 /\ n + 1 \notin {0, n + 2} /\ offset + (n + 1) - 1 = offset + n
    BY <1>0
  <2> QED
    BY <2>1
<1>4. \A i \in 1 .. n : at[i] = "chunk" /\ pos[i] = offset + i - 1 /\ rem[i] = n + 1 - i
  <2>1. \A i \in 1 .. n : i \in 0 .. n + 2 /\ i \notin {0, n + 2} /\ i # n + 1
    BY <1>0
  <2> QED
    BY <2>1
<1>5. \A i \in 0 .. n + 2 : pos[i] \in 0 .. L /\ rem[i] \in Nat
  BY <1>0
<1>8. rem[n + 1] = 0
  BY <1>0
<1> HIDE DEF at, pos, rem
<1>6. ASSUME NEW i \in 1 .. n + 2
      PROVE  ChunkStep(chunk[i], at[i - 1], pos[i - 1], rem[i - 1], at[i], pos[i], rem[i])
  <2>1. CASE i = 1
    <3>1. 1 \in 1 .. n /\ 1 - 1 = 0 /\ offset + 1 - 1 = offset /\ n + 1 - 1 = n
      BY <1>0
    <3>2. at[1] = "chunk" /\ pos[1] = offset /\ rem[1] = n
      BY <1>4, <3>1
    <3>3. ChunkStep(chunk[1], at[0], pos[0], rem[0], at[1], pos[1], rem[1])
      BY <1>0, <1>2, <1>3, <3>2 DEF ChunkStep
    <3> QED
      BY <2>1, <3>1, <3>3
  <2>2. CASE i \in 2 .. n + 1
    <3>1. /\ i - 1 \in 1 .. n /\ 1 + (i - 1) = i
          /\ offset + (i - 1) - 1 + 1 = offset + (i - 1) /\ n + 1 - (i - 1) > 0
          /\ (n + 1 - (i - 1)) - 1 = n + 1 - i
          /\ (n + 1 - i = 0 <=> i = n + 1)
      BY <1>0, <2>2
    <3>2. chunk[i] = [t |-> "data", of |-> message.content[offset + (i - 1)]]
      <4>1. chunk[1 + (i - 1)] = [t |-> "data", of |-> message.content[offset + (i - 1)]]
        BY <1>2, <3>1
      <4> QED
        BY <3>1, <4>1
    <3>3. at[i - 1] = "chunk" /\ pos[i - 1] = offset + (i - 1) - 1 /\ rem[i - 1] = n + 1 - (i - 1)
      BY <1>4, <3>1
    <3>4. /\ at[i] = IF i = n + 1 THEN "chunk end" ELSE "chunk"
          /\ pos[i] = offset + (i - 1) /\ rem[i] = n + 1 - i
      <4>1. CASE i = n + 1
        <5>1. offset + n = offset + (i - 1) /\ n + 1 - i = 0
          BY <1>0, <4>1
        <5> QED
          BY <1>3, <1>8, <4>1, <5>1
      <4>2. CASE i # n + 1
        <5>1. i \in 1 .. n /\ offset + i - 1 = offset + (i - 1)
          BY <1>0, <2>2, <4>2
        <5> QED
          BY <1>4, <4>2, <5>1
      <4> QED
        BY <4>1, <4>2
    <3>5. pos[i] = pos[i - 1] + 1 /\ rem[i] = rem[i - 1] - 1 /\ rem[i - 1] > 0
      BY <3>1, <3>3, <3>4
    <3>6. chunk[i] = [t |-> "data", of |-> message.content[pos[i - 1] + 1]]
      BY <3>1, <3>2, <3>3
    <3>7. IF rem[i] = 0 THEN at[i] = "chunk end" ELSE at[i] = "chunk"
      BY <3>1, <3>4
    <3> QED
      BY <3>3, <3>5, <3>6, <3>7 DEF ChunkStep
  <2>3. CASE i = n + 2
    <3>1. i - 1 = n + 1
      BY <1>0, <2>3
    <3>2. ChunkStep(chunk[n + 2], at[n + 1], pos[n + 1], rem[n + 1], at[n + 2], pos[n + 2], rem[n + 2])
      BY <1>2, <1>3 DEF ChunkStep
    <3> QED
      BY <2>3, <3>1, <3>2
  <2> QED
    BY <1>0, <2>1, <2>2, <2>3
<1>7. Run(at, pos, rem, chunk)
  BY <1>2, <1>5, <1>6 DEF Run, L
<1> QED
  BY <1>2, <1>3, <1>7 DEF chunk, piece

\* The provider writes a piece of the content.
LEMMA ProviderWritesKeeps ==
  ASSUME MessageOK, ContentInv, ProviderWrites
  PROVE  ContentInv'
<1> PICK L, o : L = Len(message.content) /\ o = offset
  OBVIOUS
<1> DEFINE piece(n) == SubSeq(message.content, offset + 1, offset + n)
<1>0. PICK n \in 1 .. Left :
        /\ writer = "content" /\ offset' = offset + n
        /\ Write(IF message.framing = "chunked" THEN Chunk(piece(n)) ELSE Data(piece(n)))
        /\ writer' = IF message.framing = "length" /\ n = Left THEN "ended" ELSE writer
  BY DEF ProviderWrites
<1>1. /\ L \in Nat /\ o \in 0 .. L /\ n \in 1 .. L - o /\ (n = Left <=> o + n = L)
      /\ IsSequence(wire) /\ IsSequence(message.content)
  <2>1. IsSequence(wire) /\ IsSequence(message.content) /\ offset \in 0 .. Len(message.content)
    BY DEF ContentInv, PlacesInv, MessageOK
  <2>2. L \in Nat
    BY <2>1, SequenceIs
  <2> QED
    BY <1>0, <2>1, <2>2 DEF Left
<1>2. PICK elements : elements = IF message.framing = "chunked" THEN Chunk(piece(n)) ELSE Data(piece(n))
  OBVIOUS
<1>3. /\ Write(elements) /\ writer = "content" /\ offset' = o + n
      /\ writer' = IF message.framing = "length" /\ o + n = L THEN "ended" ELSE "content"
      /\ message' = message /\ receiver' = receiver /\ reader' = reader /\ rest' = rest
      /\ body' = body /\ result' = result
  BY <1>0, <1>1, <1>2 DEF Write, readerVars
<1>4. IsSequence(piece(n)) /\ Len(piece(n)) = n /\ \A i \in 1 .. n : piece(n)[i] = message.content[o + i]
  <2>1. o + 1 \in 1 .. L + 1 /\ o + n \in (o + 1) - 1 .. L
    BY <1>1
  <2> DEFINE p == SubSeq(message.content, o + 1, o + n)
  <2>2. /\ IsSequence(p) /\ Len(p) = (o + n) - (o + 1) + 1
        /\ \A i \in 1 .. (o + n) - (o + 1) + 1 : p[i] = message.content[(o + 1) + i - 1]
    BY <1>1, <2>1, Subsequence
  <2>3. (o + n) - (o + 1) + 1 = n /\ \A i \in 1 .. n : (o + 1) + i - 1 = o + i
    BY <1>1
  <2>4. p = piece(n)
    OBVIOUS
  <2> HIDE DEF p, piece
  <2> QED
    BY <2>2, <2>3, <2>4
<1>5. message.framing = "chunked" =>
        /\ IsSequence(elements)
        /\ \E at, pos, rem :
             /\ Run(at, pos, rem, elements)
             /\ at[0] = "size" /\ pos[0] = o
             /\ at[Len(elements)] = "size" /\ pos[Len(elements)] = o + n
  <2>1. offset \in 0 .. Len(message.content)
    BY DEF ContentInv, PlacesInv
  <2>2. /\ IsSequence(Chunk(piece(n)))
        /\ \E at, pos, rem :
             /\ Run(at, pos, rem, Chunk(piece(n)))
             /\ at[0] = "size" /\ pos[0] = offset
             /\ at[Len(Chunk(piece(n)))] = "size" /\ pos[Len(Chunk(piece(n)))] = offset + n
    BY <2>1, ChunkIsRun
  <2> HIDE DEF piece
  <2> QED
    BY <1>2, <2>2
<1>6. message.framing # "chunked" =>
        /\ IsSequence(elements) /\ Len(elements) = n
        /\ \A i \in 1 .. n : elements[i] = [t |-> "data", of |-> message.content[o + i]]
  <2> HIDE DEF piece
  <2>1. /\ IsSequence(Data(piece(n))) /\ Len(Data(piece(n))) = n
        /\ \A i \in 1 .. n : Data(piece(n))[i] = [t |-> "data", of |-> piece(n)[i]]
    BY <1>4, DataIs
  <2> QED
    BY <1>2, <1>4, <2>1
<1> HIDE DEF piece
<1>7. IsSequence(elements) /\ IsSequence(wire')
  <2>1. IsSequence(elements)
    BY <1>5, <1>6
  <2> QED
    BY <1>1, <1>3, <2>1, WriteWire
<1>8. PlacesInv'
  <2>1. o + n \in 0 .. L
    BY <1>1
  <2> QED
    BY <1>3, <1>7, <2>1 DEF ContentInv, PlacesInv
<1>9. BodyInv'
  BY <1>3 DEF ContentInv, BodyInv, Fits
<1>10. PlainInv'
  <2> SUFFICES ASSUME message.framing # "chunked", Fits
               PROVE  \E r \in Nat : WireFrom(r)' /\ ReaderAt(r)'
    BY <1>3 DEF PlainInv, Fits
  <2>1. PICK r \in Nat : WireFrom(r) /\ ReaderAt(r)
    BY DEF ContentInv, PlainInv
  <2>2. WrittenTotal = o + 1 /\ WrittenTotal' = (o + 1) + Len(elements) /\ o + 1 \in Nat
    <3>1. (o + n) + 1 = (o + 1) + n /\ o + 1 \in Nat
      BY <1>1
    <3>2. WrittenTotal = o + 1 /\ WrittenTotal' = (o + n) + 1
      BY <1>3 DEF WrittenTotal
    <3>3. Len(elements) = n
      BY <1>6
    <3> QED
      BY <3>1, <3>2, <3>3
  <2>3. \A i \in 1 .. Len(elements) : elements[i] = Streamed((o + 1) + i)
    <3>2. ASSUME NEW i \in 1 .. n
          PROVE  Streamed((o + 1) + i) = [t |-> "data", of |-> message.content[o + i]]
      <4>1. PICK j : j = (o + 1) + i
        OBVIOUS
      <4>2. j # 1 /\ j # Len(message.content) + 2 /\ j - 1 = o + i
        <5>1. j # 1 /\ j # L + 2 /\ j - 1 = o + i
          BY <1>1, <4>1
        <5> QED
          BY <5>1
      <4>3. Streamed(j) = [t |-> "data", of |-> message.content[o + i]]
        BY <4>2 DEF Streamed
      <4> QED
        BY <4>1, <4>3
    <3>3. Len(elements) = n /\ \A i \in 1 .. n : elements[i] = [t |-> "data", of |-> message.content[o + i]]
      BY <1>6
    <3> QED
      BY <3>2, <3>3
  <2>4. WireFrom(r)'
    BY <1>1, <1>3, <1>7, <2>1, <2>2, <2>3, WireFromWrite
  <2>5. ReaderAt(r)'
    BY <1>3, <2>1 DEF ReaderAt
  <2> QED
    BY <2>4, <2>5
<1>11. ChunkedInv'
  <2> SUFFICES ASSUME message.framing = "chunked"
               PROVE  ChunkedInv'
    BY <1>3 DEF ChunkedInv
  <2>1. PICK at, pos, rem :
          /\ Run(at, pos, rem, elements)
          /\ at[0] = "size" /\ pos[0] = o
          /\ at[Len(elements)] = "size" /\ pos[Len(elements)] = o + n
    BY <1>5
  <2>2. writer \in {"head", "content", "ended"} /\ EndsAt(at[0], pos[0]) /\ at[0] # "chunk"
    BY <1>3, <2>1 DEF EndsAt
  <2>3. EndsAt(at[Len(elements)], pos[Len(elements)])'
    BY <1>3, <2>1 DEF EndsAt
  <2>4. ChunkedInv /\ IsSequence(wire) /\ Write(elements) /\ IsSequence(elements)
    BY <1>1, <1>3, <1>7 DEF ContentInv
  <2> QED
    BY <2>1, <2>2, <2>3, <2>4, ChunkedWrite
<1> QED
  BY <1>8, <1>9, <1>10, <1>11 DEF ContentInv

\* What ends a chunked body takes the reader from the place of a size to the
\* end.
LEMMA LastChunkIsRun ==
  ASSUME MessageOK
  PROVE  LET lines == [i \in 1 .. message.trailers |-> Line("trailer")]
             last == Enclosure(Size(0), lines, Line("crlf"))
         IN  /\ IsSequence(last)
             /\ \E at, pos, rem :
                  /\ Run(at, pos, rem, last)
                  /\ at[0] = "size" /\ pos[0] = Len(message.content)
                  /\ at[Len(last)] = "done" /\ pos[Len(last)] = Len(message.content)
<1> PICK L, n : L = Len(message.content) /\ n = message.trailers
  OBVIOUS
<1> DEFINE lines == [i \in 1 .. message.trailers |-> Line("trailer")]
           last == Enclosure(Size(0), lines, Line("crlf"))
<1>0. L \in Nat /\ n \in Nat
  BY SequenceIs DEF MessageOK
<1>1. IsSequence(lines) /\ Len(lines) = n /\ \A i \in 1 .. n : lines[i] = Line("trailer")
  <2>1. lines = [i \in 1 .. n |-> lines[i]] /\ \A i \in 1 .. n : lines[i] = Line("trailer")
    OBVIOUS
  <2> HIDE DEF lines
  <2> QED
    BY <1>0, <2>1, SequenceOf
<1> HIDE DEF lines
<1>2. /\ IsSequence(last) /\ Len(last) = n + 2
      /\ last[1] = Size(0) /\ last[n + 2] = Line("crlf")
      /\ \A i \in 1 .. n : last[1 + i] = Line("trailer")
  <2>1. /\ IsSequence(last) /\ Len(last) = Len(lines) + 2
        /\ last[1] = Size(0) /\ last[Len(lines) + 2] = Line("crlf")
        /\ \A i \in 1 .. Len(lines) : last[1 + i] = lines[i]
    BY <1>1, Enclosed
  <2> HIDE DEF last
  <2> QED
    BY <1>1, <2>1
<1> HIDE DEF last
<1> DEFINE at == [i \in 0 .. n + 2 |-> IF i = 0 THEN "size" ELSE IF i = n + 2 THEN "done" ELSE "trailers"]
           pos == [i \in 0 .. n + 2 |-> L]
           rem == [i \in 0 .. n + 2 |-> 0]
<1>3. at[0] = "size" /\ at[n + 2] = "done" /\ pos[0] = L /\ pos[n + 2] = L
  BY <1>0
<1>4. \A i \in 1 .. n + 1 : at[i] = "trailers"
  BY <1>0
<1>5. \A i \in 0 .. n + 2 : pos[i] = L /\ rem[i] = 0
  OBVIOUS
<1> HIDE DEF at, pos, rem
<1>6. ASSUME NEW i \in 1 .. n + 2
      PROVE  ChunkStep(last[i], at[i - 1], pos[i - 1], rem[i - 1], at[i], pos[i], rem[i])
  <2>1. /\ pos[i - 1] = L /\ pos[i] = L /\ rem[i] = 0
    <3>1. i \in 0 .. n + 2 /\ i - 1 \in 0 .. n + 2
      BY <1>0
    <3> QED
      BY <1>5, <3>1
  <2>2. CASE i = 1
    <3>1. i - 1 = 0 /\ 1 \in 1 .. n + 1
      BY <1>0, <2>2
    <3>2. last[i] = Size(rem[i]) /\ at[i - 1] = "size" /\ at[i] = "trailers"
      BY <1>2, <1>3, <1>4, <2>1, <2>2, <3>1
    <3> QED
      BY <2>1, <3>2 DEF ChunkStep
  <2>3. CASE i \in 2 .. n + 1
    <3>1. i - 1 \in 1 .. n /\ i - 1 \in 1 .. n + 1 /\ i \in 1 .. n + 1 /\ 1 + (i - 1) = i
      BY <1>0, <2>3
    <3>2. last[i] = Line("trailer") /\ at[i - 1] = "trailers" /\ at[i] = "trailers"
      BY <1>2, <1>4, <3>1
    <3> QED
      BY <2>1, <3>2 DEF ChunkStep
  <2>4. CASE i = n + 2
    <3>1. i - 1 \in 1 .. n + 1
      BY <1>0, <2>4
    <3>2. last[i] = Line("crlf") /\ at[i - 1] = "trailers" /\ at[i] = "done"
      BY <1>2, <1>3, <1>4, <2>4, <3>1
    <3> QED
      BY <2>1, <3>2 DEF ChunkStep
  <2> QED
    BY <1>0, <2>2, <2>3, <2>4
<1>7. Run(at, pos, rem, last)
  <2>1. \A i \in 0 .. n + 2 : pos[i] \in 0 .. Len(message.content) /\ rem[i] \in Nat
    BY <1>0, <1>5
  <2> QED
    BY <1>2, <1>6, <2>1 DEF Run
<1> QED
  BY <1>2, <1>3, <1>7 DEF last, lines

\* The provider is done.
LEMMA ProviderDoneKeeps ==
  ASSUME MessageOK, ContentInv, ProviderDone
  PROVE  ContentInv'
<1> PICK L : L = Len(message.content)
  OBVIOUS
<1> DEFINE lines == [i \in 1 .. message.trailers |-> Line("trailer")]
           last == Enclosure(Size(0), lines, Line("crlf"))
<1>1. /\ L \in Nat /\ offset = L /\ IsSequence(wire) /\ writer = "content" /\ message.framing # "length"
  <2>1. IsSequence(wire) /\ IsSequence(message.content) /\ offset \in 0 .. Len(message.content)
    BY DEF ContentInv, PlacesInv, MessageOK
  <2>2. L \in Nat
    BY <2>1, SequenceIs
  <2> QED
    BY <2>1, <2>2 DEF ProviderDone, Left
<1>2. PICK elements : elements = IF message.framing = "close" THEN <<>> ELSE last
  OBVIOUS
<1>3. /\ Write(elements) /\ writer' = "ended" /\ offset' = offset
      /\ message' = message /\ receiver' = receiver /\ reader' = reader /\ rest' = rest
      /\ body' = body /\ result' = result
  BY <1>2 DEF ProviderDone, Write, readerVars, Enclosure
<1>4. /\ IsSequence(last)
      /\ \E at, pos, rem :
           /\ Run(at, pos, rem, last)
           /\ at[0] = "size" /\ pos[0] = L
           /\ at[Len(last)] = "done" /\ pos[Len(last)] = L
  BY LastChunkIsRun
<1> HIDE DEF last
<1>5. /\ IsSequence(elements)
      /\ message.framing = "close" => Len(elements) = 0
      /\ message.framing = "chunked" =>
           \E at, pos, rem :
             /\ Run(at, pos, rem, elements)
             /\ at[0] = "size" /\ pos[0] = L
             /\ at[Len(elements)] = "done" /\ pos[Len(elements)] = L
  BY <1>2, <1>4, EmptySequence
<1>7. IsSequence(wire')
  BY <1>1, <1>3, <1>5, WriteWire
<1>8. PlacesInv'
  BY <1>1, <1>3, <1>7 DEF ContentInv, PlacesInv
<1>9. BodyInv'
  BY <1>3 DEF ContentInv, BodyInv, Fits
<1>10. PlainInv'
  <2> SUFFICES ASSUME message.framing # "chunked", Fits
               PROVE  \E r \in Nat : WireFrom(r)' /\ ReaderAt(r)'
    BY <1>3 DEF PlainInv, Fits
  <2>1. PICK r \in Nat : WireFrom(r) /\ ReaderAt(r)
    BY DEF ContentInv, PlainInv
  <2>2. Len(elements) = 0
    BY <1>1, <1>5 DEF MessageOK
  <2>3. WrittenTotal = L + 1 /\ WrittenTotal' = (L + 1) + Len(elements) /\ L + 1 \in Nat
    BY <1>1, <1>3, <2>2 DEF WrittenTotal
  <2>4. \A i \in 1 .. Len(elements) : elements[i] = Streamed((L + 1) + i)
    BY <2>2
  <2>5. WireFrom(r)'
    BY <1>1, <1>3, <1>5, <2>1, <2>3, <2>4, WireFromWrite
  <2>6. ReaderAt(r)'
    BY <1>1, <1>3, <2>1 DEF ReaderAt
  <2> QED
    BY <2>5, <2>6
<1>11. ChunkedInv'
  <2> SUFFICES ASSUME message.framing = "chunked"
               PROVE  ChunkedInv'
    BY <1>3 DEF ChunkedInv
  <2>1. PICK at, pos, rem :
          /\ Run(at, pos, rem, elements)
          /\ at[0] = "size" /\ pos[0] = L
          /\ at[Len(elements)] = "done" /\ pos[Len(elements)] = L
    BY <1>5
  <2>2. writer \in {"head", "content", "ended"} /\ EndsAt(at[0], pos[0]) /\ at[0] # "chunk"
    BY <1>1, <2>1 DEF EndsAt
  <2>3. EndsAt(at[Len(elements)], pos[Len(elements)])'
    BY <1>1, <1>3, <2>1 DEF EndsAt
  <2>4. ChunkedInv /\ IsSequence(wire) /\ Write(elements) /\ IsSequence(elements)
    BY <1>1, <1>3, <1>5 DEF ContentInv
  <2> QED
    BY <2>1, <2>2, <2>3, <2>4, ChunkedWrite
<1> QED
  BY <1>8, <1>9, <1>10, <1>11 DEF ContentInv

-----------------------------------------------------------------------------
(***************************************************************************)
(* The steps of the reader.                                                *)
(***************************************************************************)
\* Content is handed over in its order.
LEMMA BodyGrows ==
  ASSUME IsSequence(body), NEW n \in Nat, body' = body \o Units(n), message' = message,
         \A i \in 1 .. Len(body) : body[i] = message.content[i],
         \A i \in 1 .. n : wire[i] = [t |-> "data", of |-> message.content[Len(body) + i]]
  PROVE  /\ IsSequence(body') /\ Len(body') = Len(body) + n
         /\ \A i \in 1 .. Len(body') : body'[i] = message'.content[i]
<1> PICK b, u : b = body /\ u = Units(n)
  OBVIOUS
<1>1. IsSequence(u) /\ Len(u) = n /\ \A i \in 1 .. n : wire[i].t = "data" => u[i] = wire[i].of
  BY UnitsAre
<1>2. ASSUME NEW i \in 1 .. n PROVE u[i] = message.content[Len(b) + i]
  <2>1. wire[i] = [t |-> "data", of |-> message.content[Len(b) + i]]
    OBVIOUS
  <2>2. wire[i].t = "data" /\ wire[i].of = message.content[Len(b) + i]
    BY <2>1
  <2> QED
    BY <1>1, <2>2
<1>3. IsSequence(b) /\ IsSequence(u)
  BY <1>1
<1>4. /\ IsSequence(b \o u) /\ Len(b \o u) = Len(b) + Len(u)
      /\ \A i \in 1 .. Len(b) : (b \o u)[i] = b[i]
      /\ \A i \in 1 .. Len(u) : (b \o u)[Len(b) + i] = u[i]
  BY <1>3, Concatenation
<1>5. PICK w : w = body'
  OBVIOUS
<1>6. /\ IsSequence(w) /\ Len(w) = Len(b) + n
      /\ \A i \in 1 .. Len(b) : w[i] = b[i]
      /\ \A i \in 1 .. n : w[Len(b) + i] = u[i]
  BY <1>1, <1>4, <1>5
<1>7. Len(b) \in Nat
  BY <1>3, SequenceIs
<1>8. ASSUME NEW i \in 1 .. Len(b) + n PROVE w[i] = message.content[i]
  <2>1. CASE i \in 1 .. Len(b)
    BY <1>6, <2>1
  <2>2. CASE i \notin 1 .. Len(b)
    <3>1. PICK j \in 1 .. n : Len(b) + j = i
      <4>1. i - Len(b) \in 1 .. n /\ Len(b) + (i - Len(b)) = i
        BY <1>7, <2>2
      <4> QED
        BY <4>1
    <3>2. w[Len(b) + j] = u[j] /\ u[j] = message.content[Len(b) + j]
      BY <1>2, <1>6
    <3> QED
      BY <3>1, <3>2
  <2> QED
    BY <2>1, <2>2
<1> QED
  BY <1>5, <1>6, <1>8

\* What stands on the wire where the reader of a plain body is.
LEMMA PlainWire ==
  ASSUME MessageOK, PlacesInv, NEW r \in Nat, WireFrom(r), r > 0
  PROVE  /\ r + Len(wire) <= Len(message.content) + 2
         /\ writer # "next" => r + Len(wire) <= Len(message.content) + 1
         /\ \A i \in 1 .. Len(wire) : r + i <= Len(message.content) + 1 =>
              wire[i] = [t |-> "data", of |-> message.content[(r + i) - 1]]
         /\ \A i \in 1 .. Len(wire) : r + i = Len(message.content) + 2 => wire[i] = Line("next")
<1> PICK L : L = Len(message.content)
  OBVIOUS
<1>1. L \in Nat /\ Len(wire) \in Nat /\ offset \in 0 .. L
  <2>1. IsSequence(wire) /\ IsSequence(message.content) /\ offset \in 0 .. Len(message.content)
    BY DEF PlacesInv, MessageOK
  <2> QED
    BY <2>1, SequenceIs
<1>2. r + Len(wire) = WrittenTotal /\ \A i \in 1 .. Len(wire) : wire[i] = Streamed(r + i)
  BY DEF WireFrom
<1>3. WrittenTotal <= L + 2 /\ (writer # "next" => WrittenTotal <= L + 1)
  BY <1>1 DEF WrittenTotal
<1>4. ASSUME NEW i \in 1 .. Len(wire), r + i <= L + 1
      PROVE  wire[i] = [t |-> "data", of |-> message.content[(r + i) - 1]]
  <2>1. PICK j : j = r + i
    OBVIOUS
  <2>2. j # 1 /\ j # L + 2
    BY <1>1, <1>4, <2>1
  <2>3. Streamed(j) = [t |-> "data", of |-> message.content[j - 1]]
    BY <2>2 DEF Streamed
  <2> QED
    BY <1>2, <2>1, <2>3
<1>5. ASSUME NEW i \in 1 .. Len(wire), r + i = L + 2
      PROVE  wire[i] = Line("next")
  <2>1. L + 2 # 1
    BY <1>1
  <2>2. Streamed(L + 2) = Line("next")
    BY <2>1 DEF Streamed
  <2> QED
    BY <1>2, <1>5, <2>2
<1> QED
  BY <1>2, <1>3, <1>4, <1>5

\* Where the element that is read next takes the reader of a chunked body.
LEMMA NextPlace ==
  ASSUME ContentInv, message.framing = "chunked", result = "none", wire # <<>>
  PROVE  \E at, pos, rem :
           /\ Run(at, pos, rem, wire)
           /\ at[0] = reader /\ pos[0] = Len(body)
           /\ reader = "chunk" => rem[0] = rest /\ rest > 0
           /\ EndsAt(at[Len(wire)], pos[Len(wire)])
           /\ ChunkStep(wire[1], reader, Len(body), rem[0], at[1], pos[1], rem[1])
           /\ rem[1] \in Nat
<1>1. 1 \in 1 .. Len(wire) /\ 1 \in 0 .. Len(wire) /\ 1 - 1 = 0
  <2>1. IsSequence(wire)
    BY DEF ContentInv, PlacesInv
  <2> QED
    BY <2>1, FirstElement
<1>2. PICK at, pos, rem :
        /\ Run(at, pos, rem, wire)
        /\ at[0] = reader /\ pos[0] = Len(body)
        /\ reader = "chunk" => rem[0] = rest /\ rest > 0
        /\ EndsAt(at[Len(wire)], pos[Len(wire)])
  BY DEF ContentInv, ChunkedInv, Tracked
<1>3. ChunkStep(wire[1], at[0], pos[0], rem[0], at[1], pos[1], rem[1]) /\ rem[1] \in Nat
  BY <1>1, <1>2 DEF Run
<1> QED
  BY <1>2, <1>3

\* The head has been read.
LEMMA ReadHeadKeeps ==
  ASSUME MessageOK, ContentInv, ReadHead
  PROVE  ContentInv'
<1> PICK L : L = Len(message.content)
  OBVIOUS
<1>0. /\ reader = "head" /\ wire # <<>> /\ Read(1) /\ rest' = message.length /\ body' = body
      /\ message' = message /\ receiver' = receiver /\ writer' = writer /\ offset' = offset
  BY DEF ReadHead, LineIs, Read, writerVars
<1>1. /\ L \in Nat /\ IsSequence(wire) /\ 1 \in 0 .. Len(wire) /\ IsSequence(wire')
      /\ body = <<>> /\ Len(body) = 0 /\ result = "none" /\ message.length \in Nat
  <2>1. IsSequence(wire) /\ IsSequence(message.content)
    BY DEF ContentInv, PlacesInv, MessageOK
  <2>2. L \in Nat /\ 1 \in 0 .. Len(wire)
    BY <1>0, <2>1, SequenceIs, FirstElement
  <2>3. IsSequence(wire')
    BY <1>0, <2>1, <2>2, ReadWire
  <2>4. body = <<>> /\ result = "none" /\ message.length \in Nat
    BY <1>0 DEF ContentInv, BodyInv, PlacesInv, MessageOK
  <2> QED
    BY <2>1, <2>2, <2>3, <2>4, EmptySequence
<1>2. /\ message.framing = "chunked" => reader' = "size" /\ result' = result
      /\ message.framing = "close" =>
           \/ reader' = "until close" /\ result' = result
           \/ reader' = "done" /\ result' = "success"
      /\ message.framing = "length" /\ message.length > 0 =>
           reader' \in {"skip", "length"} /\ result' = result
      /\ message.framing = "length" /\ message.length = 0 => reader' = "done" /\ result' = "success"
  <2>1. CASE message.framing = "chunked"
    BY <2>1 DEF ReadHead
  <2>2. CASE message.framing = "close"
    <3>1. CASE receiver = "handle"
      BY <2>2, <3>1 DEF ReadHead
    <3>2. CASE receiver # "handle"
      <4>1. reader' = "until close" /\ result' = result
        BY <2>2, <3>2 DEF ReadHead
      <4> QED
        BY <2>2, <4>1
    <3> QED
      BY <3>1, <3>2
  <2>3. CASE message.framing = "length"
    <3>1. CASE message.length = 0
      BY <2>3, <3>1 DEF ReadHead
    <3>2. CASE message.length > 0
      <4>1. message.length # 0 /\ message.framing # "close" /\ message.framing # "chunked"
        BY <1>1, <2>3, <3>2
      <4>2. reader' = (IF message.length > limit /\ receiver # "handle" THEN "skip" ELSE "length") /\ result' = result
        BY <2>3, <3>2, <4>1 DEF ReadHead
      <4> QED
        BY <2>3, <4>1, <4>2
    <3> QED
      BY <1>1, <2>3, <3>1, <3>2
  <2> QED
    BY <2>1, <2>2, <2>3
<1>3. message.framing \in {"length", "chunked", "close"} /\ (message.framing = "length" => message.length = 0 \/ message.length > 0)
  BY <1>1 DEF MessageOK
<1>4. PlacesInv'
  BY <1>0, <1>1, <1>2, <1>3 DEF ContentInv, PlacesInv
<1>5. BodyInv'
  <2>1. message.framing = "length" /\ message.length = 0 => Len(message.content) = 0
    BY EmptySequence DEF MessageOK
  <2>2. Len(body') = 0 /\ body' = <<>>
    BY <1>0, <1>1
  <2>3. 0 <= Len(message.content) /\ \A i \in 1 .. 0 : body'[i] = message.content[i]
    BY <1>1
  <2>4. reader' # "trailers" /\ (result' = "success" /\ message.framing # "close" => message.framing = "length" /\ message.length = 0)
    BY <1>1, <1>2, <1>3
  <2> QED
    BY <1>0, <2>1, <2>2, <2>3, <2>4 DEF BodyInv, Fits
<1>6. PlainInv'
  <2> SUFFICES ASSUME message.framing # "chunked", Fits
               PROVE  \E r \in Nat : WireFrom(r)' /\ ReaderAt(r)'
    BY <1>0 DEF PlainInv, Fits
  <2>1. PICK r \in Nat : WireFrom(r) /\ ReaderAt(r)
    BY DEF ContentInv, PlainInv
  <2>2. r = 0
    BY <1>0, <2>1 DEF ReaderAt
  <2>3. WireFrom(0 + 1)' /\ 0 + 1 = 1
    BY <1>0, <1>1, <2>1, <2>2, WireFromRead
  <2>4. message.framing = "length" => message.length = L
    BY DEF Fits
  <2>5. reader' # "head" /\ Len(body') = 0 /\ result' # "too large"
    BY <1>0, <1>1, <1>2, <1>3
  <2>6. reader' \in {"length", "skip"} => rest' = L /\ L > 0
    BY <1>0, <1>2, <1>3, <2>4
  <2>7. message.framing = "length" /\ result' = "success" => L = 0
    BY <1>1, <1>2, <1>3, <2>4
  <2>9. /\ Len(message'.content) = L /\ 1 = 1 + Len(body') /\ (L = 0 => 1 = 1 + L)
        /\ reader' \in {"length", "skip"} => rest' + Len(body') = L /\ 1 + rest' = 1 + L /\ rest' > 0
    <3>1. L + 0 = L /\ 1 = 1 + 0
      BY <1>1
    <3> QED
      BY <1>0, <2>5, <2>6, <3>1
  <2>8. ReaderAt(1)'
    BY <1>0, <2>5, <2>7, <2>9 DEF ReaderAt
  <2> QED
    BY <2>3, <2>8
<1>7. ChunkedInv'
  <2> SUFFICES ASSUME message.framing = "chunked"
               PROVE  ChunkedInv'
    BY <1>0 DEF ChunkedInv
  <2>1. PICK at, pos, rem :
          /\ Run(at, pos, rem, wire) /\ EndsAt(at[Len(wire)], pos[Len(wire)])
          /\ ChunkStep(wire[1], reader, Len(body), rem[0], at[1], pos[1], rem[1])
    BY <1>0, <1>1, NextPlace
  <2>2. at[1] = reader' /\ pos[1] = Len(body') /\ reader' # "chunk"
    BY <1>0, <1>2, <2>1 DEF ChunkStep
  <2> QED
    BY <1>0, <1>1, <2>1, <2>2, ChunkedRead
<1> QED
  BY <1>4, <1>5, <1>6, <1>7 DEF ContentInv

\* The reader of a body with a length.
LEMMA ReadLengthKeeps ==
  ASSUME MessageOK, ContentInv, ReadLength
  PROVE  ContentInv'
<1> PICK L, b : L = Len(message.content) /\ b = Len(body)
  OBVIOUS
<1>0. PICK n \in MayReturn(rest) :
        /\ reader = "length" /\ Read(n) /\ body' = body \o Units(n) /\ rest' = rest - n
        /\ reader' = IF n = rest THEN "done" ELSE "length"
        /\ result' = IF n = rest THEN "success" ELSE result
        /\ message' = message /\ receiver' = receiver /\ writer' = writer /\ offset' = offset
  BY DEF ReadLength, Read, writerVars
<1>1. /\ L \in Nat /\ b \in Nat /\ Len(wire) \in Nat /\ rest \in Nat
      /\ IsSequence(wire) /\ IsSequence(body) /\ IsSequence(message.content)
      /\ result = "none" /\ message.framing = "length"
  <2>1. /\ IsSequence(wire) /\ IsSequence(body) /\ IsSequence(message.content)
        /\ result = "none" /\ message.framing = "length" /\ rest \in Nat
    BY <1>0 DEF ContentInv, PlacesInv, MessageOK
  <2> QED
    BY <2>1, SequenceIs
<1>2. n \in 1 .. rest /\ n \in 0 .. Len(wire) /\ n <= Len(wire) /\ n \in Nat
  BY <1>1 DEF MayReturn
<1>3. IsSequence(wire') /\ IsSequence(body') /\ rest - n \in Nat
  <2>1. IsSequence(Units(n)) /\ IsSequence(body)
    BY <1>1, <1>2, UnitsAre
  <2>2. IsSequence(body \o Units(n))
    BY <2>1, Concatenation
  <2> QED
    BY <1>0, <1>1, <1>2, <2>2, ReadWire
<1>4. PlacesInv'
  BY <1>0, <1>1, <1>3 DEF ContentInv, PlacesInv
<1>5. ASSUME Fits
      PROVE  /\ Len(body') = b + n /\ b + n + (rest - n) = L
             /\ \A i \in 1 .. Len(body') : body'[i] = message.content[i]
             /\ \E r \in Nat : WireFrom(r)' /\ ReaderAt(r)'
  <2>1. PICK r \in Nat : WireFrom(r) /\ ReaderAt(r)
    BY <1>1, <1>5 DEF ContentInv, PlainInv
  <2>2. r = 1 + b /\ rest + b = L
    BY <1>0, <2>1 DEF ReaderAt
  <2>3. \A i \in 1 .. Len(wire) : r + i <= L + 1 => wire[i] = [t |-> "data", of |-> message.content[(r + i) - 1]]
    <3>1. r > 0
      BY <1>1, <2>2
    <3> QED
      BY <2>1, <3>1, PlainWire DEF ContentInv
  <2>4. ASSUME NEW i \in 1 .. n PROVE wire[i] = [t |-> "data", of |-> message.content[b + i]]
    <3>1. i \in 1 .. Len(wire) /\ r + i <= L + 1 /\ (r + i) - 1 = b + i
      BY <1>1, <1>2, <2>2
    <3> QED
      BY <2>3, <3>1
  <2>5. \A i \in 1 .. Len(body) : body[i] = message.content[i]
    BY <1>5 DEF ContentInv, BodyInv
  <2>6. /\ Len(body') = b + n
        /\ \A i \in 1 .. Len(body') : body'[i] = message'.content[i]
    BY <1>0, <1>1, <1>2, <2>4, <2>5, BodyGrows
  <2>7. WireFrom(r + n)'
    BY <1>0, <1>1, <1>2, <2>1, WireFromRead
  <2>8. r + n = 1 + (b + n) /\ (rest - n) + (b + n) = L /\ (n # rest => rest - n > 0) /\ r + n \in Nat
    BY <1>1, <1>2, <2>2
  <2>9. n = rest => r + n = 1 + L
    BY <1>1, <1>2, <2>2
  <2>10. ReaderAt(r + n)'
    BY <1>0, <1>1, <2>6, <2>8, <2>9 DEF ReaderAt
  <2>11. b + n + (rest - n) = L
    BY <1>1, <1>2, <2>2
  <2> QED
    BY <1>0, <2>6, <2>7, <2>8, <2>10, <2>11
<1>6. BodyInv'
  <2>1. reader' \notin {"head", "trailers"} /\ (result' = "success" => n = rest)
    BY <1>0, <1>1
  <2>2. Fits' = Fits
    BY <1>0 DEF Fits
  <2>3. ASSUME Fits
        PROVE  Len(body') <= L /\ (n = rest => Len(body') = L)
    <3>1. Len(body') = b + n /\ b + n + (rest - n) = L
      BY <1>5, <2>3
    <3> QED
      BY <1>1, <1>2, <3>1
  <2> QED
    BY <1>0, <1>5, <2>1, <2>2, <2>3 DEF BodyInv
<1>7. PlainInv'
  BY <1>0, <1>5 DEF PlainInv, Fits
<1>8. ChunkedInv'
  BY <1>0, <1>1 DEF ChunkedInv
<1> QED
  BY <1>4, <1>6, <1>7, <1>8 DEF ContentInv

\* One who skips a body that is too large.
LEMMA SkipKeeps ==
  ASSUME MessageOK, ContentInv, Skip
  PROVE  ContentInv'
<1> PICK L : L = Len(message.content)
  OBVIOUS
<1>0. PICK n \in MayReturn(rest) :
        /\ reader = "skip" /\ Read(n) /\ body' = body /\ rest' = rest - n
        /\ reader' = IF n = rest THEN "done" ELSE "skip"
        /\ result' = IF n = rest THEN "too large" ELSE result
        /\ message' = message /\ receiver' = receiver /\ writer' = writer /\ offset' = offset
  BY DEF Skip, Read, writerVars
<1>1. /\ L \in Nat /\ Len(wire) \in Nat /\ rest \in Nat
      /\ IsSequence(wire) /\ IsSequence(body) /\ result = "none" /\ message.framing = "length"
  <2>1. /\ IsSequence(wire) /\ IsSequence(body) /\ IsSequence(message.content)
        /\ result = "none" /\ message.framing = "length" /\ rest \in Nat
    BY <1>0 DEF ContentInv, PlacesInv, MessageOK
  <2> QED
    BY <2>1, SequenceIs
<1>2. n \in 1 .. rest /\ n \in 0 .. Len(wire) /\ n \in Nat /\ rest - n \in Nat
  BY <1>1 DEF MayReturn
<1>3. IsSequence(wire')
  BY <1>0, <1>1, <1>2, ReadWire
<1>4. PlacesInv'
  BY <1>0, <1>1, <1>2, <1>3 DEF ContentInv, PlacesInv
<1>5. BodyInv'
  BY <1>0, <1>1 DEF ContentInv, BodyInv, Fits
<1>6. PlainInv'
  <2> SUFFICES ASSUME Fits
               PROVE  \E r \in Nat : WireFrom(r)' /\ ReaderAt(r)'
    BY <1>0 DEF PlainInv, Fits
  <2>1. PICK r \in Nat : WireFrom(r) /\ ReaderAt(r)
    BY <1>1 DEF ContentInv, PlainInv
  <2>2. r + rest = 1 + L
    BY <1>0, <2>1 DEF ReaderAt
  <2>3. WireFrom(r + n)'
    BY <1>0, <1>1, <1>2, <2>1, WireFromRead
  <2>4. /\ r + n + (rest - n) = 1 + L /\ r + n \in Nat
        /\ n # rest => rest - n > 0
        /\ n = rest => r + n = 1 + L
    BY <1>1, <1>2, <2>2
  <2>5. ReaderAt(r + n)'
    BY <1>0, <1>1, <2>4 DEF ReaderAt
  <2> QED
    BY <2>3, <2>4, <2>5
<1>7. ChunkedInv'
  BY <1>0, <1>1 DEF ChunkedInv
<1> QED
  BY <1>4, <1>5, <1>6, <1>7 DEF ContentInv

\* The reader of a body that the end of the connection ends.
LEMMA ReadUntilCloseKeeps ==
  ASSUME MessageOK, ContentInv, ReadUntilClose
  PROVE  ContentInv'
<1> PICK L, b : L = Len(message.content) /\ b = Len(body)
  OBVIOUS
<1>0. PICK n \in MayReturn(Len(wire)) :
        /\ reader = "until close" /\ Read(n) /\ rest' = rest
        /\ \/ reader' = "done" /\ result' = "too large" /\ body' = body
           \/ reader' = "until close" /\ result' = result /\ body' = body \o Units(n)
        /\ message' = message /\ receiver' = receiver /\ writer' = writer /\ offset' = offset
  BY DEF ReadUntilClose, ReceiveUpToLimit, ReaderEnds, Read, writerVars
<1>1. /\ L \in Nat /\ b \in Nat /\ Len(wire) \in Nat
      /\ IsSequence(wire) /\ IsSequence(body) /\ IsSequence(message.content)
      /\ result = "none" /\ message.framing = "close" /\ Fits /\ writer # "next"
  <2>1. /\ IsSequence(wire) /\ IsSequence(body) /\ IsSequence(message.content)
        /\ result = "none" /\ message.framing = "close" /\ writer # "next"
    BY <1>0 DEF ContentInv, PlacesInv, MessageOK
  <2> QED
    BY <2>1, SequenceIs DEF Fits
<1>2. n \in 1 .. Len(wire) /\ n \in 0 .. Len(wire) /\ n \in Nat
  BY <1>1 DEF MayReturn
<1>3. PICK r \in Nat : WireFrom(r) /\ ReaderAt(r)
  BY <1>1 DEF ContentInv, PlainInv
<1>4. r = 1 + b
  BY <1>0, <1>3 DEF ReaderAt
<1>5. /\ r + Len(wire) <= L + 1
      /\ \A i \in 1 .. Len(wire) : r + i <= L + 1 => wire[i] = [t |-> "data", of |-> message.content[(r + i) - 1]]
  <2>1. r > 0
    BY <1>1, <1>4
  <2> QED
    BY <1>1, <1>3, <2>1, PlainWire DEF ContentInv
<1>6. ASSUME NEW i \in 1 .. n PROVE wire[i] = [t |-> "data", of |-> message.content[b + i]]
  <2>1. i \in 1 .. Len(wire) /\ r + i <= L + 1 /\ (r + i) - 1 = b + i
    BY <1>1, <1>2, <1>4, <1>5
  <2> QED
    BY <1>5, <2>1
<1>7. /\ b <= L /\ \A i \in 1 .. Len(body) : body[i] = message.content[i]
  BY <1>1 DEF ContentInv, BodyInv
<1>8. body' = body \o Units(n) =>
        /\ IsSequence(body') /\ Len(body') = b + n
        /\ \A i \in 1 .. Len(body') : body'[i] = message'.content[i]
  BY <1>0, <1>1, <1>2, <1>6, <1>7, BodyGrows
<1>9. IsSequence(wire') /\ WireFrom(r + n)' /\ r + n \in Nat /\ r + n = 1 + (b + n) /\ b + n <= L
  <2>1. IsSequence(wire') /\ WireFrom(r + n)'
    BY <1>0, <1>1, <1>2, <1>3, ReadWire, WireFromRead
  <2> QED
    BY <1>1, <1>2, <1>4, <1>5, <2>1
<1>10. PlacesInv'
  BY <1>0, <1>1, <1>8, <1>9 DEF ContentInv, PlacesInv
<1>11. BodyInv'
  <2>1. reader' \notin {"head", "trailers"} /\ (Fits' = Fits)
    BY <1>0 DEF Fits
  <2> QED
    BY <1>0, <1>1, <1>7, <1>8, <1>9, <2>1 DEF BodyInv
<1>12. PlainInv'
  <2>1. ReaderAt(r + n)'
    BY <1>0, <1>1, <1>8, <1>9 DEF ReaderAt
  <2> QED
    BY <1>9, <2>1 DEF PlainInv
<1>13. ChunkedInv'
  BY <1>0, <1>1 DEF ChunkedInv
<1> QED
  BY <1>10, <1>11, <1>12, <1>13 DEF ContentInv

\* What a step of the reader of a chunked body leaves of the invariant.
LEMMA ChunkedPlaces ==
  ASSUME MessageOK, ContentInv, message.framing = "chunked", result = "none",
         NEW n \in 1 .. Len(wire), Read(n)
  PROVE  /\ Fits /\ Fits' /\ PlainInv'
         /\ message' = message /\ receiver' = receiver /\ writer' = writer /\ offset' = offset
         /\ IsSequence(wire) /\ IsSequence(wire') /\ n \in 0 .. Len(wire)
         /\ IsSequence(body) /\ Len(body) \in Nat /\ Len(message.content) \in Nat /\ Len(wire) \in Nat
         /\ Len(body) <= Len(message.content)
         /\ \A i \in 1 .. Len(body) : body[i] = message.content[i]
<1>1. IsSequence(wire) /\ IsSequence(body) /\ IsSequence(message.content)
  BY DEF ContentInv, PlacesInv, MessageOK
<1>2. Len(wire) \in Nat /\ Len(body) \in Nat /\ Len(message.content) \in Nat
  BY <1>1, SequenceIs
<1>3. n \in 0 .. Len(wire)
  BY <1>2
<1>4. IsSequence(wire')
  BY <1>1, <1>3, ReadWire
<1>5. message' = message /\ receiver' = receiver /\ writer' = writer /\ offset' = offset
  BY DEF Read, writerVars
<1>6. Fits /\ Fits' /\ PlainInv'
  BY <1>5 DEF Fits, PlainInv
<1>7. /\ Len(body) <= Len(message.content)
      /\ \A i \in 1 .. Len(body) : body[i] = message.content[i]
  BY <1>6 DEF ContentInv, BodyInv
<1> QED
  BY <1>1, <1>2, <1>3, <1>4, <1>5, <1>6, <1>7

\* The line with the size of a chunk.
LEMMA ReadSizeKeeps ==
  ASSUME MessageOK, ContentInv, ReadSize
  PROVE  ContentInv'
<1>0. reader = "size" /\ wire # <<>> /\ Read(1)
  BY DEF ReadSize
<1>1. message.framing = "chunked" /\ result = "none" /\ IsSequence(wire) /\ IsSequence(body)
  BY <1>0 DEF ContentInv, PlacesInv
<1>2. Head(wire) = wire[1] /\ 1 \in 1 .. Len(wire)
  BY <1>0, <1>1, FirstElement
<1>3. /\ Fits /\ Fits' /\ PlainInv'
      /\ message' = message /\ receiver' = receiver /\ writer' = writer /\ offset' = offset
      /\ IsSequence(wire') /\ 1 \in 0 .. Len(wire) /\ Len(body) <= Len(message.content)
      /\ \A i \in 1 .. Len(body) : body[i] = message.content[i]
  BY <1>0, <1>1, <1>2, ChunkedPlaces
<1>4. PICK at, pos, rem :
        /\ Run(at, pos, rem, wire) /\ EndsAt(at[Len(wire)], pos[Len(wire)])
        /\ ChunkStep(wire[1], reader, Len(body), rem[0], at[1], pos[1], rem[1]) /\ rem[1] \in Nat
  BY <1>0, <1>1, NextPlace
<1>5. /\ wire[1] = Size(rem[1]) /\ pos[1] = Len(body)
      /\ at[1] = IF rem[1] = 0 THEN "trailers" ELSE "chunk"
      /\ rem[1] = 0 => Len(body) = Len(message.content)
  BY <1>0, <1>4 DEF ChunkStep
<1>6. wire[1].t = "size" /\ wire[1].of = rem[1]
  BY <1>5 DEF Size
<1>7. /\ reader' = at[1] /\ rest' = rem[1] /\ body' = body /\ result' = "none"
  BY <1>1, <1>2, <1>5, <1>6 DEF ReadSize
<1>8. PlacesInv'
  BY <1>1, <1>3, <1>4, <1>5, <1>7 DEF ContentInv, PlacesInv
<1>9. BodyInv'
  BY <1>3, <1>5, <1>7 DEF BodyInv
<1>10. ChunkedInv'
  <2>1. reader' = "chunk" => rest' > 0
    BY <1>4, <1>5, <1>7
  <2> QED
    BY <1>0, <1>1, <1>3, <1>4, <1>5, <1>7, <2>1, ChunkedRead
<1> QED
  BY <1>3, <1>8, <1>9, <1>10 DEF ContentInv

\* A part of a chunk that is not its last.
LEMMA ReadChunkKeeps ==
  ASSUME MessageOK, ContentInv, ReadChunk
  PROVE  ContentInv'
<1>0. PICK n \in MayReturn(rest - 1) :
        /\ reader = "chunk" /\ Read(n)
        /\ \/ reader' = "done" /\ result' = "too large" /\ body' = body /\ rest' = rest
           \/ /\ reader' = "chunk"
              /\ result' = result /\ body' = body \o Units(n) /\ rest' = rest - n
  BY DEF ReadChunk, ReceiveUpToLimit, ReaderEnds
<1>1. /\ message.framing = "chunked" /\ result = "none" /\ IsSequence(wire) /\ IsSequence(body)
      /\ rest \in Nat
  BY <1>0 DEF ContentInv, PlacesInv
<1>2. n \in 1 .. Len(wire) /\ n \in 1 .. rest /\ n \in Nat /\ n # rest
  <2>1. Len(wire) \in Nat
    BY <1>1, SequenceIs
  <2> QED
    BY <1>1, <2>1 DEF MayReturn
<1>3. /\ Fits /\ Fits' /\ PlainInv'
      /\ message' = message /\ receiver' = receiver /\ writer' = writer /\ offset' = offset
      /\ IsSequence(wire') /\ n \in 0 .. Len(wire) /\ Len(body) <= Len(message.content)
      /\ Len(body) \in Nat /\ Len(message.content) \in Nat
      /\ \A i \in 1 .. Len(body) : body[i] = message.content[i]
  BY <1>0, <1>1, <1>2, ChunkedPlaces
<1>4. PICK at, pos, rem :
        /\ Run(at, pos, rem, wire)
        /\ at[0] = "chunk" /\ pos[0] = Len(body) /\ rem[0] = rest /\ rest > 0
        /\ EndsAt(at[Len(wire)], pos[Len(wire)])
  BY <1>0, <1>1 DEF ContentInv, ChunkedInv, Tracked
<1>5. /\ at[n] = "chunk"
      /\ pos[n] = Len(body) + n /\ rem[n] = rest - n
      /\ \A i \in 1 .. n : wire[i] = [t |-> "data", of |-> message.content[Len(body) + i]]
  <2>1. n \in 1 .. rem[0]
    BY <1>2, <1>4
  <2>2. AllContent(at, pos, rem, wire, n)
    BY <1>1, <1>2, <1>4, <2>1, ChunkRun
  <2>3. pos[0] = Len(body) /\ rem[0] = rest /\ n # rem[0]
    BY <1>2, <1>4
  <2> QED
    BY <2>2, <2>3 DEF AllContent
<1>6. Len(body) + n \in 0 .. Len(message.content) /\ rest - n \in Nat /\ rest - n > 0
  <2>1. pos[n] \in 0 .. Len(message.content)
    BY <1>3, <1>4 DEF Run
  <2>2. Len(body) + n \in 0 .. Len(message.content)
    BY <1>5, <2>1
  <2> QED
    BY <1>1, <1>2, <2>2
<1>7. body' = body \o Units(n) =>
        /\ IsSequence(body') /\ Len(body') = Len(body) + n
        /\ \A i \in 1 .. Len(body') : body'[i] = message'.content[i]
  BY <1>1, <1>2, <1>3, <1>5, BodyGrows
<1>8. PlacesInv'
  BY <1>0, <1>1, <1>3, <1>6, <1>7 DEF ContentInv, PlacesInv
<1>9. BodyInv'
  <2>1. reader' \notin {"head", "trailers"} /\ result' # "success"
    BY <1>0, <1>1
  <2>2. CASE body' = body
    BY <1>3, <2>1, <2>2 DEF BodyInv
  <2>3. CASE body' = body \o Units(n)
    <3>1. /\ Len(body') = Len(body) + n
          /\ \A i \in 1 .. Len(body') : body'[i] = message'.content[i]
      BY <1>7, <2>3
    <3>2. Len(body') <= Len(message'.content)
      BY <1>3, <1>6, <3>1
    <3> QED
      BY <2>1, <3>1, <3>2 DEF BodyInv
  <2> QED
    BY <1>0, <2>2, <2>3
<1>10. ChunkedInv'
  <2>1. CASE result' = "too large"
    BY <2>1 DEF ChunkedInv, Tracked
  <2>2. CASE result' # "too large"
    <3>1. /\ reader' = "chunk"
          /\ body' = body \o Units(n) /\ rest' = rest - n
      BY <1>0, <2>2
    <3>2. at[n] = reader' /\ pos[n] = Len(body') /\ (reader' = "chunk" => rem[n] = rest' /\ rest' > 0)
      BY <1>5, <1>6, <1>7, <3>1
    <3> QED
      BY <1>0, <1>1, <1>3, <1>4, <3>2, ChunkedRead
  <2> QED
    BY <2>1, <2>2
<1> QED
  BY <1>3, <1>8, <1>9, <1>10 DEF ContentInv

\* The last part of a chunk, with the line after it.
LEMMA ReadChunkEndKeeps ==
  ASSUME MessageOK, ContentInv, ReadChunkEnd
  PROVE  ContentInv'
<1>0. reader = "chunk" /\ Len(wire) > rest /\ Read(rest + 1)
  BY DEF ReadChunkEnd
<1>1. /\ message.framing = "chunked" /\ result = "none" /\ IsSequence(wire) /\ IsSequence(body)
      /\ rest \in Nat
  BY <1>0 DEF ContentInv, PlacesInv
<1>2. PICK at, pos, rem :
        /\ Run(at, pos, rem, wire)
        /\ at[0] = "chunk" /\ pos[0] = Len(body) /\ rem[0] = rest /\ rest > 0
        /\ EndsAt(at[Len(wire)], pos[Len(wire)])
  BY <1>0, <1>1 DEF ContentInv, ChunkedInv, Tracked
<1>3. /\ rest \in 1 .. Len(wire) /\ rest \in 1 .. rest /\ rest \in 0 .. Len(wire)
      /\ rest + 1 \in 1 .. Len(wire) /\ (rest + 1) - 1 = rest /\ rest - rest = 0
  <2>1. Len(wire) \in Nat
    BY <1>1, SequenceIs
  <2> QED
    BY <1>0, <1>1, <1>2, <2>1
<1>4. /\ Fits /\ Fits' /\ PlainInv'
      /\ message' = message /\ receiver' = receiver /\ writer' = writer /\ offset' = offset
      /\ IsSequence(wire') /\ rest + 1 \in 0 .. Len(wire) /\ Len(body) <= Len(message.content)
      /\ Len(body) \in Nat /\ Len(message.content) \in Nat
      /\ \A i \in 1 .. Len(body) : body[i] = message.content[i]
  BY <1>0, <1>1, <1>3, ChunkedPlaces
<1>5. /\ at[rest] = "chunk end" /\ pos[rest] = Len(body) + rest
      /\ \A i \in 1 .. rest : wire[i] = [t |-> "data", of |-> message.content[Len(body) + i]]
  <2>1. rest \in 1 .. rem[0]
    BY <1>2, <1>3
  <2>2. AllContent(at, pos, rem, wire, rest)
    BY <1>1, <1>2, <1>3, <2>1, ChunkRun
  <2> QED
    BY <1>2, <2>2 DEF AllContent
<1>6. wire[rest + 1] = Line("crlf") /\ at[rest + 1] = "size" /\ pos[rest + 1] = Len(body) + rest
  <2>1. ChunkStep(wire[rest + 1], at[rest], pos[rest], rem[rest], at[rest + 1], pos[rest + 1], rem[rest + 1])
    BY <1>2, <1>3 DEF Run
  <2> QED
    BY <1>5, <2>1 DEF ChunkStep
<1>7. \/ reader' = "done" /\ result' = "too large" /\ body' = body /\ rest' = rest
      \/ reader' = "size" /\ result' = result /\ body' = body \o Units(rest) /\ rest' = 0
  <2>1. wire[rest + 1].t = "crlf"
    BY <1>6 DEF Line
  <2> QED
    BY <2>1 DEF ReadChunkEnd, ReceiveUpToLimit, ReaderEnds
<1>8. Len(body) + rest \in 0 .. Len(message.content)
  <2>1. pos[rest] \in 0 .. Len(message.content)
    BY <1>2, <1>3 DEF Run
  <2> QED
    BY <1>5, <2>1
<1>9. body' = body \o Units(rest) =>
        /\ IsSequence(body') /\ Len(body') = Len(body) + rest
        /\ \A i \in 1 .. Len(body') : body'[i] = message'.content[i]
  BY <1>1, <1>3, <1>4, <1>5, BodyGrows
<1>10. PlacesInv'
  <2>1. rest' \in Nat
    <3>1. rest \in Nat /\ (rest' = rest \/ rest' = 0)
      BY <1>1, <1>7
    <3> QED
      BY <3>1
  <2>2. IsSequence(body')
    BY <1>1, <1>7, <1>9
  <2>3. reader' \in {"size", "done"} /\ result' \in {"none", "too large"} /\ (reader' = "done" <=> result' # "none")
    BY <1>1, <1>7
  <2> QED
    BY <1>0, <1>1, <1>4, <2>1, <2>2, <2>3 DEF ContentInv, PlacesInv
<1>11. BodyInv'
  <2>1. reader' \notin {"head", "trailers"} /\ result' # "success"
    BY <1>1, <1>7
  <2>2. CASE body' = body
    BY <1>4, <2>1, <2>2 DEF BodyInv
  <2>3. CASE body' = body \o Units(rest)
    <3>1. /\ Len(body') = Len(body) + rest
          /\ \A i \in 1 .. Len(body') : body'[i] = message'.content[i]
      BY <1>9, <2>3
    <3>2. Len(body') <= Len(message'.content)
      BY <1>4, <1>8, <3>1
    <3> QED
      BY <2>1, <3>1, <3>2 DEF BodyInv
  <2> QED
    BY <1>7, <2>2, <2>3
<1>12. ChunkedInv'
  <2>1. CASE result' = "too large"
    BY <2>1 DEF ChunkedInv, Tracked
  <2>2. CASE result' # "too large"
    <3>1. reader' = "size" /\ body' = body \o Units(rest)
      BY <1>7, <2>2
    <3>2. at[rest + 1] = reader' /\ pos[rest + 1] = Len(body')
      BY <1>6, <1>9, <3>1
    <3>3. reader' # "chunk"
      BY <3>1
    <3> QED
      BY <1>0, <1>1, <1>2, <1>4, <3>2, <3>3, ChunkedRead
  <2> QED
    BY <2>1, <2>2
<1> QED
  BY <1>4, <1>10, <1>11, <1>12 DEF ContentInv

\* The trailers, and the empty line after them.
LEMMA ReadTrailersKeeps ==
  ASSUME MessageOK, ContentInv, ReadTrailers
  PROVE  ContentInv'
<1>0. reader = "trailers" /\ wire # <<>> /\ Read(1)
  BY DEF ReadTrailers
<1>1. message.framing = "chunked" /\ result = "none" /\ IsSequence(wire) /\ IsSequence(body) /\ rest \in Nat
  BY <1>0 DEF ContentInv, PlacesInv
<1>2. Head(wire) = wire[1] /\ 1 \in 1 .. Len(wire)
  BY <1>0, <1>1, FirstElement
<1>3. /\ Fits /\ Fits' /\ PlainInv'
      /\ message' = message /\ receiver' = receiver /\ writer' = writer /\ offset' = offset
      /\ IsSequence(wire') /\ 1 \in 0 .. Len(wire) /\ Len(body) <= Len(message.content)
      /\ \A i \in 1 .. Len(body) : body[i] = message.content[i]
  BY <1>0, <1>1, <1>2, ChunkedPlaces
<1>4. PICK at, pos, rem :
        /\ Run(at, pos, rem, wire) /\ EndsAt(at[Len(wire)], pos[Len(wire)])
        /\ ChunkStep(wire[1], reader, Len(body), rem[0], at[1], pos[1], rem[1])
  BY <1>0, <1>1, NextPlace
<1>5. /\ pos[1] = Len(body)
      /\ \/ wire[1] = Line("trailer") /\ at[1] = "trailers"
         \/ wire[1] = Line("crlf") /\ at[1] = "done"
  BY <1>0, <1>4 DEF ChunkStep
<1>6. /\ rest' = rest /\ body' = body
      /\ \/ reader' = "trailers" /\ result' = "none" /\ at[1] = "trailers"
         \/ reader' = "done" /\ result' = "success" /\ at[1] = "done"
  <2>1. CASE wire[1] = Line("trailer") /\ at[1] = "trailers"
    <3>1. wire[1].t = "trailer"
      BY <2>1 DEF Line
    <3>2. UNCHANGED readerVars
      BY <1>0, <1>2, <3>1 DEF ReadTrailers, LineIs
    <3> QED
      BY <1>0, <1>1, <2>1, <3>2 DEF readerVars
  <2>2. CASE wire[1] = Line("crlf") /\ at[1] = "done"
    <3>1. wire[1].t = "crlf"
      BY <2>2 DEF Line
    <3>2. ReaderEnds("success")
      BY <1>0, <1>2, <3>1 DEF ReadTrailers, LineIs
    <3> QED
      BY <2>2, <3>2 DEF ReaderEnds
  <2> QED
    BY <1>5, <2>1, <2>2
<1>7. Len(body) = Len(message.content)
  BY <1>0, <1>3 DEF ContentInv, BodyInv
<1>8. PlacesInv'
  BY <1>1, <1>3, <1>6 DEF ContentInv, PlacesInv
<1>9. BodyInv'
  BY <1>3, <1>6, <1>7 DEF BodyInv
<1>10. ChunkedInv'
  BY <1>0, <1>1, <1>3, <1>4, <1>5, <1>6, ChunkedRead
<1> QED
  BY <1>3, <1>8, <1>9, <1>10 DEF ContentInv

\* The reader ends and has taken nothing: at the end of the connection, or
\* because the parser of a form has failed.
LEMMA ReaderEndsKeeps ==
  ASSUME MessageOK, ContentInv, NEW how, ReaderEnds(how),
         UNCHANGED <<message, receiver, limit, writerVars, wire>>,
         \/ how = "error"
         \/ how = "success" /\ message.framing = "close"
         \/ how = "success" /\ reader = "trailers" /\ receiver = "handle"
         \/ how = "too large" /\ reader = "skip" /\ EndOfFile
  PROVE  ContentInv'
<1>0. /\ offset' = offset /\ wire' = wire /\ writer' = writer
      /\ message' = message /\ receiver' = receiver /\ rest' = rest /\ body' = body
      /\ reader' = "done" /\ result' = how
  BY DEF ReaderEnds, writerVars
<1>1. PlacesInv'
  BY <1>0 DEF ContentInv, PlacesInv
<1>2. BodyInv'
  <2>1. reader = "skip" => message.framing = "length"
    BY DEF ContentInv, PlacesInv
  <2> QED
    BY <1>0, <2>1 DEF ContentInv, BodyInv, Fits
<1>3. PlainInv'
  <2> SUFFICES ASSUME message.framing # "chunked", Fits
               PROVE  \E r \in Nat : WireFrom(r)' /\ ReaderAt(r)'
    BY <1>0 DEF PlainInv, Fits
  <2>1. PICK r \in Nat : WireFrom(r) /\ ReaderAt(r)
    BY DEF ContentInv, PlainInv
  <2>2. WrittenTotal' = WrittenTotal
    BY <1>0 DEF WrittenTotal
  <2>3. WireFrom(r)'
    BY <1>0, <2>1, <2>2 DEF WireFrom, Streamed
  <2>4. reader = "trailers" => message.framing = "chunked"
    BY DEF ContentInv, PlacesInv
  <2>5. ReaderAt(r)'
    BY <1>0, <2>4 DEF ReaderAt, EndOfFile
  <2> QED
    BY <2>3, <2>5
<1>4. ChunkedInv'
  <2>1. reader = "skip" => message.framing = "length"
    BY DEF ContentInv, PlacesInv
  <2> QED
    BY <1>0, <2>1 DEF ChunkedInv, Tracked
<1> QED
  BY <1>1, <1>2, <1>3, <1>4 DEF ContentInv

\* The connection ends while the reader waits.
LEMMA ReadEndOfFileKeeps ==
  ASSUME MessageOK, ContentInv, ReadEndOfFile
  PROVE  ContentInv'
<1>0. reader # "done" /\ EndOfFile /\ UNCHANGED <<message, receiver, limit, writerVars, wire>>
  BY DEF ReadEndOfFile
<1>1. /\ reader = "until close" => message.framing = "close"
      /\ reader \in {"head", "length", "skip", "until close", "size", "chunk", "trailers", "done"}
  BY DEF ContentInv, PlacesInv
<1>2. CASE reader = "until close"
  <2>1. ReaderEnds("success")
    BY <1>2 DEF ReadEndOfFile
  <2> QED
    BY <1>0, <1>1, <1>2, <2>1, ReaderEndsKeeps
<1>3. CASE reader = "trailers" /\ receiver = "handle"
  <2>1. ReaderEnds("success")
    BY <1>3 DEF ReadEndOfFile
  <2> QED
    BY <1>0, <1>3, <2>1, ReaderEndsKeeps
<1>4. CASE reader = "skip"
  <2>1. ReaderEnds("too large")
    BY <1>4 DEF ReadEndOfFile
  <2> QED
    BY <1>0, <1>4, <2>1, ReaderEndsKeeps
<1>5. CASE reader \notin {"until close", "skip"} /\ ~(reader = "trailers" /\ receiver = "handle")
  <2>1. ReaderEnds("error")
    BY <1>5 DEF ReadEndOfFile
  <2> QED
    BY <1>0, <2>1, ReaderEndsKeeps
<1> QED
  BY <1>2, <1>3, <1>4, <1>5

(***************************************************************************)
(* Ranges.                                                                 *)
(***************************************************************************)
\* The bytes of a range.
LEMMA BytesAre ==
  ASSUME NEW r, r[1] \in Int, r[2] \in Int
  PROVE  /\ IsSequence(Bytes(r))
         /\ Len(Bytes(r)) = IF r[1] <= r[2] THEN r[2] - r[1] + 1 ELSE 0
         /\ \A i \in 1 .. Len(Bytes(r)) : Bytes(r)[i] = <<r[1] + i - 1>>
<1> PICK w, n : w = Bytes(r) /\ n = IF r[1] <= r[2] THEN r[2] - r[1] + 1 ELSE 0
  OBVIOUS
<1>1. n \in Nat /\ 1 .. r[2] - r[1] + 1 = 1 .. n
  <2>1. CASE r[1] <= r[2]
    BY <2>1
  <2>2. CASE ~ (r[1] <= r[2])
    <3>1. 1 .. r[2] - r[1] + 1 = {} /\ 1 .. 0 = {} /\ n = 0
      BY <2>2
    <3> QED
      BY <3>1
  <2> QED
    BY <2>1, <2>2
<1>2. w = [i \in 1 .. n |-> <<r[1] + i - 1>>]
  BY <1>1 DEF Bytes
<1>3. w = [i \in 1 .. n |-> w[i]] /\ \A i \in 1 .. n : w[i] = <<r[1] + i - 1>>
  BY <1>2
<1>4. IsSequence(w) /\ Len(w) = n
  BY <1>1, <1>3, SequenceOf
<1> QED
  BY <1>3, <1>4

\* The recursive function that Merged is defined with exists.
LEMMA MergedExists ==
  ASSUME NEW s, NEW n \in Nat
  PROVE  \E f : f = [k \in 0 .. n |-> IF k = 0 THEN <<>> ELSE Merge(f[k - 1], s[k])]
<1> DEFINE Def(m) == \E f : f = [k \in 0 .. m |-> IF k = 0 THEN <<>> ELSE Merge(f[k - 1], s[k])]
           S == {m \in Nat : ~ Def(m)}
<1>1. SUFFICES ASSUME S # {} PROVE FALSE
  <2>1. n \in S \/ Def(n)
    OBVIOUS
  <2> QED
    BY <2>1
<1>2. PICK m \in S : \A k \in S : m <= k
  BY <1>1, LeastNatural
<1>3. m # 0
  <2>1. LET f == [k \in 0 .. 0 |-> <<>>]
        IN  f = [k \in 0 .. 0 |-> IF k = 0 THEN <<>> ELSE Merge(f[k - 1], s[k])]
    <3>1. \A k \in 0 .. 0 : k = 0
      OBVIOUS
    <3> QED
      BY <3>1
  <2>2. Def(0)
    BY <2>1
  <2>3. 0 \notin S
    BY <2>2
  <2> QED
    BY <2>3
<1>4. m \in Nat /\ m - 1 \in Nat /\ ~ (m <= m - 1)
  BY <1>3
<1>5. Def(m - 1)
  <2>1. m - 1 \notin S
    BY <1>2, <1>4
  <2> QED
    BY <1>4, <2>1
<1>6. PICK f : f = [k \in 0 .. m - 1 |-> IF k = 0 THEN <<>> ELSE Merge(f[k - 1], s[k])]
  BY <1>5
<1> DEFINE g == [k \in 0 .. m |-> IF k = 0 THEN <<>> ELSE Merge(f[k - 1], s[k])]
<1>7. \A k \in 0 .. m - 1 : f[k] = IF k = 0 THEN <<>> ELSE Merge(f[k - 1], s[k])
  BY <1>6
<1>8. \A k \in 0 .. m - 1 : g[k] = f[k]
  <2>1. \A k \in 0 .. m - 1 : k \in 0 .. m
    BY <1>4
  <2> QED
    BY <1>7, <2>1
<1>9. ASSUME NEW k \in 0 .. m
      PROVE  g[k] = IF k = 0 THEN <<>> ELSE Merge(g[k - 1], s[k])
  <2>1. k # 0 => k - 1 \in 0 .. m - 1
    BY <1>4
  <2>2. g[k] = IF k = 0 THEN <<>> ELSE Merge(f[k - 1], s[k])
    OBVIOUS
  <2> HIDE DEF g
  <2> QED
    BY <1>8, <2>1, <2>2
<1>10. g = [k \in 0 .. m |-> IF k = 0 THEN <<>> ELSE Merge(g[k - 1], s[k])]
  <2>1. g = [k \in 0 .. m |-> g[k]]
    OBVIOUS
  <2> HIDE DEF g
  <2> QED
    BY <1>9, <2>1
<1>11. Def(m)
  BY <1>10
<1> QED
  BY <1>2, <1>11

\* A range of bytes that is not empty.
IsRange(r) == r = <<r[1], r[2]>> /\ r[1] \in Int /\ r[2] \in Int /\ r[1] <= r[2]

\* A byte in one of the first k ranges.
InRanges(s, k, x) == \E i \in 1 .. k : s[i][1] <= x /\ x <= s[i][2]

\* What the ranges so far are merged into, when the last of them is r.
MergedOK(m, s, k) ==
  /\ IsSequence(m) /\ Len(m) > 0
  /\ \A i \in 1 .. Len(m) : IsRange(m[i])
  /\ m[Len(m)][1] <= s[k][1]
  /\ \A x \in Int : InRanges(m, Len(m), x) <=> InRanges(s, k, x)

\* The first range that is merged.
LEMMA MergeFirst ==
  ASSUME NEW s, NEW r, s[1] = r, IsRange(r)
  PROVE  MergedOK(Merge(<<>>, r), s, 1)
<1> PICK m : m = Merge(<<>>, r)
  OBVIOUS
<1>1. m = Append(<<>>, r)
  BY DEF Merge
<1>2. IsSequence(m) /\ Len(m) = 1 /\ m[1] = r
  <2>1. PICK e : e = <<>>
    OBVIOUS
  <2>2. IsSequence(e) /\ Len(e) = 0 /\ m = Append(e, r)
    BY <1>1, <2>1, EmptySequence
  <2>3. /\ IsSequence(m) /\ Len(m) = Len(e) + 1 /\ m[Len(e) + 1] = r
    <3>1. IsSequence(e)
      BY <2>2
    <3>2. /\ IsSequence(Append(e, r)) /\ Len(Append(e, r)) = Len(e) + 1 /\ Append(e, r)[Len(e) + 1] = r
      BY <3>1, AppendIs
    <3> QED
      BY <2>2, <3>2
  <2>4. Len(e) + 1 = 1
    BY <2>2
  <2> QED
    BY <2>3, <2>4
<1>3. \A i \in 1 .. 1 : i = 1
  OBVIOUS
<1>4. \A x \in Int : InRanges(m, Len(m), x) <=> InRanges(s, 1, x)
  BY <1>2, <1>3 DEF InRanges
<1>5. m[Len(m)][1] <= s[1][1]
  BY <1>2 DEF IsRange
<1>6. \A i \in 1 .. Len(m) : IsRange(m[i])
  BY <1>2, <1>3
<1> QED
  BY <1>2, <1>4, <1>5, <1>6 DEF MergedOK

\* One range more.
LEMMA MergeNext ==
  ASSUME NEW m, NEW s, NEW k \in Nat, k > 0, MergedOK(m, s, k),
         NEW r, s[k + 1] = r, IsRange(r), s[k][1] \in Int, s[k][1] <= r[1]
  PROVE  MergedOK(Merge(m, r), s, k + 1)
<1> PICK n, l, w : n = Len(m) /\ l = m[Len(m)] /\ w = Merge(m, r)
  OBVIOUS
<1>1. /\ n \in Nat /\ n > 0 /\ IsSequence(m) /\ IsRange(l) /\ l[1] <= r[1] /\ m # <<>> /\ l = Last(m)
      /\ \A i \in 1 .. n : IsRange(m[i])
      /\ \A x \in Int : InRanges(m, n, x) <=> InRanges(s, k, x)
  <2>1. /\ IsSequence(m) /\ Len(m) > 0 /\ m[Len(m)][1] <= s[k][1]
        /\ \A i \in 1 .. Len(m) : IsRange(m[i])
        /\ \A x \in Int : InRanges(m, Len(m), x) <=> InRanges(s, k, x)
    BY DEF MergedOK
  <2>2. Len(m) \in Nat
    BY <2>1, SequenceIs
  <2>3. IsRange(m[Len(m)])
    BY <2>1, <2>2
  <2>4. l[1] <= r[1]
    BY <2>1, <2>3 DEF IsRange
  <2>5. m # <<>>
    BY <2>1, EmptySequence
  <2> QED
    BY <2>1, <2>2, <2>3, <2>4, <2>5 DEF Last
<1>2. \A x \in Int : InRanges(s, k + 1, x) <=> InRanges(m, n, x) \/ (r[1] <= x /\ x <= r[2])
  <2>1. ASSUME NEW x \in Int
        PROVE  InRanges(s, k + 1, x) <=> InRanges(s, k, x) \/ (r[1] <= x /\ x <= r[2])
    <3>1. \A i : i \in 1 .. k + 1 <=> i \in 1 .. k \/ i = k + 1
      OBVIOUS
    <3> QED
      BY <3>1 DEF InRanges
  <2> QED
    BY <1>1, <2>1
<1>3. CASE r[1] <= l[2] + 1 /\ r # l
  <2> DEFINE big == Max({l[2], r[2]})
             f == Front(m)
  <2>1. w = Append(f, <<l[1], big>>)
    BY <1>1, <1>3 DEF Merge
  <2>2. IsSequence(f) /\ Len(f) = n - 1 /\ \A i \in 1 .. n - 1 : f[i] = m[i]
    <3>1. 1 \in 1 .. Len(m) + 1 /\ n - 1 \in 1 - 1 .. Len(m) /\ (n - 1) - 1 + 1 = n - 1
      BY <1>1
    <3>2. /\ IsSequence(f) /\ Len(f) = (n - 1) - 1 + 1
          /\ \A i \in 1 .. (n - 1) - 1 + 1 : f[i] = m[1 + i - 1]
      BY <1>1, <3>1, Subsequence DEF Front
    <3>3. \A i \in 1 .. n - 1 : 1 + i - 1 = i
      BY <1>1
    <3> HIDE DEF f
    <3> QED
      BY <3>1, <3>2, <3>3
  <2>3. big = IF r[2] <= l[2] THEN l[2] ELSE r[2]
    <3>1. l[2] \in Int /\ r[2] \in Int
      BY <1>1 DEF IsRange
    <3>2. \A a, b \in Int : Max({a, b}) = IF b <= a THEN a ELSE b
      BY DEF Max
    <3> QED
      BY <3>1, <3>2
  <2> HIDE DEF big, f
  <2>4. /\ IsSequence(w) /\ Len(w) = n /\ w[n] = <<l[1], big>>
        /\ \A i \in 1 .. n - 1 : w[i] = m[i]
    <3>1. /\ IsSequence(w) /\ Len(w) = Len(f) + 1 /\ w[Len(f) + 1] = <<l[1], big>>
          /\ \A i \in 1 .. Len(f) : w[i] = f[i]
      BY <2>1, <2>2, AppendIs
    <3>2. Len(f) = n - 1 /\ (n - 1) + 1 = n
      BY <1>1, <2>2
    <3> QED
      BY <2>2, <3>1, <3>2
  <2>5. w[n][1] = l[1] /\ w[n][2] = big
    BY <2>4
  <2>6. l[1] \in Int /\ l[2] \in Int /\ r[1] \in Int /\ r[2] \in Int /\ l[1] <= l[2] /\ r[1] <= r[2]
    BY <1>1 DEF IsRange
  <2>7. \A i \in 1 .. Len(w) : IsRange(w[i])
    <3>1. IsRange(w[n])
      <4>1. w[n] = <<w[n][1], w[n][2]>>
        BY <2>4, <2>5
      <4>2. big \in Int /\ l[1] <= big
        BY <2>3, <2>6
      <4> QED
        BY <2>5, <2>6, <4>1, <4>2 DEF IsRange
    <3>2. \A i \in 1 .. n : i = n \/ i \in 1 .. n - 1
      BY <1>1
    <3> QED
      BY <1>1, <2>4, <3>1, <3>2
  <2>8. ASSUME NEW x \in Int
        PROVE  InRanges(w, n, x) <=> InRanges(m, n, x) \/ (r[1] <= x /\ x <= r[2])
    <3>1. \A i : i \in 1 .. n <=> i \in 1 .. n - 1 \/ i = n
      BY <1>1
    <3>2. InRanges(w, n, x) <=> (\E i \in 1 .. n - 1 : m[i][1] <= x /\ x <= m[i][2]) \/ (l[1] <= x /\ x <= big)
      BY <2>4, <2>5, <3>1 DEF InRanges
    <3>3. InRanges(m, n, x) <=> (\E i \in 1 .. n - 1 : m[i][1] <= x /\ x <= m[i][2]) \/ (l[1] <= x /\ x <= l[2])
      BY <3>1 DEF InRanges
    <3>4. (l[1] <= x /\ x <= big) <=> (l[1] <= x /\ x <= l[2]) \/ (r[1] <= x /\ x <= r[2])
      BY <1>1, <1>3, <2>3, <2>6
    <3> QED
      BY <3>2, <3>3, <3>4
  <2>9. w[Len(w)][1] <= s[k + 1][1] /\ Len(w) > 0
    BY <1>1, <2>4, <2>5
  <2> QED
    BY <1>2, <2>4, <2>7, <2>8, <2>9 DEF MergedOK
<1>4. CASE ~(r[1] <= l[2] + 1 /\ r # l)
  <2>1. w = Append(m, r)
    BY <1>1, <1>4 DEF Merge
  <2>2. /\ IsSequence(w) /\ Len(w) = n + 1 /\ w[n + 1] = r
        /\ \A i \in 1 .. n : w[i] = m[i]
    BY <1>1, <2>1, AppendIs
  <2>3. \A i : i \in 1 .. n + 1 <=> i \in 1 .. n \/ i = n + 1
    BY <1>1
  <2>4. \A i \in 1 .. Len(w) : IsRange(w[i])
    BY <1>1, <2>2, <2>3
  <2>5. \A x \in Int : InRanges(w, n + 1, x) <=> InRanges(m, n, x) \/ (r[1] <= x /\ x <= r[2])
    BY <2>2, <2>3 DEF InRanges
  <2>6. w[Len(w)][1] <= s[k + 1][1] /\ Len(w) > 0
    BY <1>1, <2>2 DEF IsRange
  <2> QED
    BY <1>2, <2>2, <2>4, <2>5, <2>6 DEF MergedOK
<1> QED
  BY <1>3, <1>4

\* Sorted ranges are merged into ranges with the same bytes.
LEMMA MergedIsOK ==
  ASSUME NEW s, NEW n \in Nat, n > 0, Len(s) = n, \A i \in 1 .. n : IsRange(s[i]),
         \A i \in 1 .. n - 1 : s[i][1] <= s[i + 1][1]
  PROVE  MergedOK(Merged(s), s, n)
<1> DEFINE f == CHOOSE g : g = [k \in 0 .. n |-> IF k = 0 THEN <<>> ELSE Merge(g[k - 1], s[k])]
           S == {k \in 1 .. n : ~ MergedOK(f[k], s, k)}
<1>1. f = [k \in 0 .. n |-> IF k = 0 THEN <<>> ELSE Merge(f[k - 1], s[k])]
  BY MergedExists
<1>2. Merged(s) = f[n]
  BY DEF Merged
<1> HIDE DEF f
<1>3. f[0] = <<>> /\ \A k \in 1 .. n : f[k] = Merge(f[k - 1], s[k])
  <2>1. \A k \in 0 .. n : f[k] = IF k = 0 THEN <<>> ELSE Merge(f[k - 1], s[k])
    BY <1>1
  <2>2. 0 \in 0 .. n /\ \A k \in 1 .. n : k \in 0 .. n /\ k # 0
    OBVIOUS
  <2> QED
    BY <2>1, <2>2
<1>4. ASSUME S # {} PROVE FALSE
  <2>1. S \subseteq Nat
    OBVIOUS
  <2>2. PICK k \in S : \A j \in S : k <= j
    BY <1>4, <2>1, LeastNatural
  <2>3. CASE k = 1
    <3>1. k - 1 = 0 /\ 1 \in 1 .. n
      BY <2>3
    <3>2. f[1] = Merge(<<>>, s[1])
      BY <1>3, <2>3, <3>1
    <3>3. MergedOK(f[1], s, 1)
      BY <3>1, <3>2, MergeFirst
    <3> QED
      BY <2>3, <3>3
  <2>4. CASE k # 1
    <3>1. PICK j : j = k - 1
      OBVIOUS
    <3>2. j \in 1 .. n - 1 /\ j \in 1 .. n /\ j \in Nat /\ j > 0 /\ j + 1 = k /\ k \in 1 .. n /\ ~ (k <= j)
      BY <2>4, <3>1
    <3>3. MergedOK(f[j], s, j)
      <4>1. j \notin S
        BY <2>2, <3>2
      <4> QED
        BY <3>2, <4>1
    <3>4. f[k] = Merge(f[j], s[k])
      BY <1>3, <3>1, <3>2
    <3>5. IsRange(s[j]) /\ IsRange(s[k]) /\ s[j][1] <= s[k][1]
      <4>1. s[j][1] <= s[j + 1][1]
        BY <3>2
      <4> QED
        BY <3>2, <4>1
    <3>6. s[j][1] \in Int /\ s[j + 1] = s[k]
      BY <3>2, <3>5 DEF IsRange
    <3>7. MergedOK(Merge(f[j], s[k]), s, j + 1)
      BY <3>2, <3>3, <3>5, <3>6, MergeNext
    <3> QED
      BY <3>2, <3>4, <3>7
  <2> QED
    BY <2>3, <2>4
<1>5. n \in 1 .. n
  OBVIOUS
<1> QED
  BY <1>2, <1>4, <1>5

\* A range that is well-formed and begins in the content, or a suffix that is
\* no longer, is within the content when it is normalised.
LEMMA NormalisedWithin ==
  ASSUME NEW n \in Nat, NEW r, r[1] \in Int, r[2] \in Int, WellFormed(r), r = <<r[1], r[2]>>,
         \/ r[1] \in 0 .. n - 1
         \/ r[1] = -1 /\ r[2] \in 1 .. n
  PROVE  Within(Normalised(r, n), n)
<1> PICK a, b, c, d : a = r[1] /\ b = r[2] /\ c = Normalised(r, n)[1] /\ d = Normalised(r, n)[2]
  OBVIOUS
<1>1. /\ c = IF a = -1 THEN n - b ELSE a
      /\ d = IF a = -1 \/ b = -1 \/ b >= n THEN n - 1 ELSE b
  BY DEF Normalised
<1>2. a \in Int /\ b \in Int /\ (a # -1 /\ b # -1 => a <= b)
  BY DEF WellFormed
<1>3. 0 <= c /\ c <= d /\ d < n
  BY <1>1, <1>2
<1> QED
  BY <1>3 DEF Within

\* What range_error refuses, at least.
LEMMA RangeErrorMeans ==
  ASSUME NEW n \in Nat, NEW ranges, IsSequence(ranges), RangeError(ranges, n),
         \A i \in 1 .. Len(ranges) : /\ ranges[i][1] \in Int /\ ranges[i][2] \in Int
                                    /\ ranges[i] = <<ranges[i][1], ranges[i][2]>> /\ WellFormed(ranges[i])
  PROVE  \/ Len(ranges) > MaxRangeCount \/ Len(ranges) > 3
         \/ \E i \in 1 .. Len(ranges) :
              ranges[i][1] \notin 0 .. n - 1 /\ ~(ranges[i][1] = -1 /\ ranges[i][2] \in 1 .. n)
<1> DEFINE norm == [i \in DOMAIN ranges |-> Normalised(ranges[i], n)]
           O == {i \in DOMAIN norm : \E j \in 1 .. i - 1 : Overlap(norm[i], norm[j])}
<1>1. DOMAIN ranges = 1 .. Len(ranges) /\ Len(ranges) \in Nat
  BY SequenceIs
<1>2. DOMAIN norm = 1 .. Len(ranges) /\ \A i \in 1 .. Len(ranges) : norm[i] = Normalised(ranges[i], n)
  BY <1>1
<1>3. Len(ranges) > MaxRangeCount \/ (\E i \in DOMAIN norm : ~Within(norm[i], n)) \/ Cardinality(O) > 2
  BY DEF RangeError
<1> HIDE DEF norm
<1>4. ASSUME NEW i \in DOMAIN norm, ~Within(norm[i], n)
      PROVE  ranges[i][1] \notin 0 .. n - 1 /\ ~(ranges[i][1] = -1 /\ ranges[i][2] \in 1 .. n)
  <2>1. i \in 1 .. Len(ranges) /\ ~Within(Normalised(ranges[i], n), n)
    BY <1>2, <1>4
  <2> QED
    BY <2>1, NormalisedWithin
<1>5. ASSUME Len(ranges) <= 3 PROVE Cardinality(O) <= 2
  <2>1. O \in SUBSET (2 .. 3)
    <3>1. ASSUME NEW i \in O PROVE i \in 2 .. 3
      <4>1. i \in 1 .. Len(ranges) /\ 1 .. i - 1 # {}
        BY <1>2
      <4> QED
        BY <1>1, <1>5, <4>1
    <3> QED
      BY <3>1
  <2>2. IsFiniteSet(2 .. 3) /\ Cardinality(2 .. 3) = 2
    <3>1. PICK a \in Int, b \in Int : a = 2 /\ b = 3
      OBVIOUS
    <3>2. IsFiniteSet(a .. b) /\ Cardinality(a .. b) = IF a > b THEN 0 ELSE b - a + 1
      BY FS_Interval
    <3>3. (IF a > b THEN 0 ELSE b - a + 1) = 2
      BY <3>1
    <3> QED
      BY <3>1, <3>2, <3>3
  <2> HIDE DEF O
  <2> QED
    BY <2>1, <2>2, FS_Subset
<1>6. IsFiniteSet(O)
  <2>1. O \in SUBSET (1 .. Len(ranges))
    BY <1>2
  <2>2. IsFiniteSet(1 .. Len(ranges))
    BY <1>1, FS_Interval
  <2> HIDE DEF O
  <2> QED
    BY <2>1, <2>2, FS_Subset
<1>7. Cardinality(O) \in Nat
  BY <1>6, FS_CardinalityType
<1>8. Cardinality(O) > 2 => Len(ranges) > 3
  <2> HIDE DEF O
  <2> QED
    BY <1>1, <1>5, <1>7
<1> QED
  BY <1>2, <1>3, <1>4, <1>8

\* How a part of a multipart body is written.
Part(r) == <<r>> \o Bytes(r)

\* A part of a multipart response: its head and its bytes.
LEMMA PartIs ==
  ASSUME NEW r, IsRange(r)
  PROVE  /\ IsSequence(Part(r)) /\ Len(Part(r)) = r[2] - r[1] + 2
         /\ Part(r)[1] = r
         /\ \A i \in 1 .. r[2] - r[1] + 1 : Part(r)[1 + i] = <<r[1] + i - 1>>
<1> PICK a, b, x, y, w : a = r[1] /\ b = r[2] /\ x = <<r>> /\ y = Bytes(r) /\ w = Part(r)
  OBVIOUS
<1>1. a \in Int /\ b \in Int /\ a <= b
  BY DEF IsRange
<1>2. IsSequence(x) /\ Len(x) = 1 /\ x[1] = r
  BY OneElement
<1>3. IsSequence(y) /\ Len(y) = b - a + 1 /\ \A i \in 1 .. Len(y) : y[i] = <<a + i - 1>>
  <2>1. r[1] \in Int /\ r[2] \in Int
    BY <1>1
  <2>2. /\ IsSequence(Bytes(r))
        /\ Len(Bytes(r)) = IF r[1] <= r[2] THEN r[2] - r[1] + 1 ELSE 0
        /\ \A i \in 1 .. Len(Bytes(r)) : Bytes(r)[i] = <<r[1] + i - 1>>
    BY <2>1, BytesAre
  <2> QED
    BY <1>1, <2>2
<1>4. IsSequence(x) /\ IsSequence(y)
  BY <1>2, <1>3
<1>5. /\ IsSequence(x \o y) /\ Len(x \o y) = Len(x) + Len(y)
      /\ \A i \in 1 .. Len(x) : (x \o y)[i] = x[i]
      /\ \A i \in 1 .. Len(y) : (x \o y)[Len(x) + i] = y[i]
  BY <1>4, Concatenation
<1>6. w = x \o y
  BY DEF Part
<1>7. /\ IsSequence(w) /\ Len(w) = Len(x) + Len(y)
      /\ \A i \in 1 .. Len(x) : w[i] = x[i]
      /\ \A i \in 1 .. Len(y) : w[Len(x) + i] = y[i]
  BY <1>5, <1>6
<1>8. Len(w) = b - a + 2
  BY <1>1, <1>2, <1>3, <1>7
<1>9. w[1] = r
  <2>1. 1 \in 1 .. Len(x)
    BY <1>2
  <2> QED
    BY <1>2, <1>7, <2>1
<1>10. \A i \in 1 .. b - a + 1 : w[1 + i] = <<a + i - 1>>
  BY <1>2, <1>3, <1>7
<1> QED
  BY <1>7, <1>8, <1>9, <1>10

\* Every part has the bytes that its head says.
PartsRight(w) ==
  \A i \in PartsOf(w) : SubSeq(w, i + 1, i + Len(Bytes(w[i]))) = Bytes(w[i])

\* The bytes that are units of a body.
BytesOf(w) == {u[1] : u \in {v \in Range(w) : Len(v) = 1}}

\* A body that is right for ranges: its bytes are those of the first n ranges.
Serves(w, t, n) ==
  /\ IsSequence(w) /\ PartsRight(w)
  /\ n > 0 => w # <<>>
  /\ BytesOf(w) \subseteq Int
  /\ \A x \in Int : x \in BytesOf(w) <=> InRanges(t, n, x)

\* Bytes and heads of parts are told apart by their length.
LEMMA UnitLengths ==
  /\ Len(<<>>) = 0
  /\ \A a : Len(<<a>>) = 1 /\ <<a>>[1] = a
  /\ \A r : IsRange(r) => Len(r) = 2
<1>1. \A a : Len(<<a>>) = 1 /\ <<a>>[1] = a
  BY OneElement
<1>2. \A a, b : Len(<<a, b>>) = 2
  OBVIOUS
<1>3. Len(<<>>) = 0
  BY EmptySequence
<1> QED
  BY <1>1, <1>2, <1>3 DEF IsRange

\* The bytes of one range.
LEMMA BytesServe ==
  ASSUME NEW r, r[1] \in Int, r[2] \in Int, NEW t, NEW n \in {0, 1}, n = 1 => t[1] = r /\ r[1] <= r[2],
         n = 0 => r[2] < r[1]
  PROVE  Serves(Bytes(r), t, n)
<1> PICK a, b, w : a = r[1] /\ b = r[2] /\ w = Bytes(r)
  OBVIOUS
<1>1. /\ IsSequence(w) /\ Len(w) = IF a <= b THEN b - a + 1 ELSE 0
      /\ \A i \in 1 .. Len(w) : w[i] = <<a + i - 1>>
  BY BytesAre
<1>2. a \in Int /\ b \in Int /\ Len(w) \in Nat /\ DOMAIN w = 1 .. Len(w)
  BY <1>1, SequenceIs
<1>3. \A i \in 1 .. Len(w) : Len(w[i]) = 1 /\ w[i][1] = a + i - 1
  BY <1>1, UnitLengths
<1>4. PartsOf(w) = {}
  <2>1. ASSUME NEW i \in PartsOf(w) PROVE FALSE
    <3>1. i \in 1 .. Len(w) /\ Len(w[i]) = 2
      BY <1>2 DEF PartsOf
    <3>2. Len(w[i]) = 1
      BY <1>3, <3>1
    <3>3. 1 # 2
      OBVIOUS
    <3> QED
      BY <3>1, <3>2, <3>3, Zenon
  <2> QED
    BY <2>1
<1>5. PartsRight(w)
  BY <1>4 DEF PartsRight
<1>6. BytesOf(w) = {a + i - 1 : i \in 1 .. Len(w)}
  <2>1. ASSUME NEW x PROVE x \in BytesOf(w) <=> \E i \in 1 .. Len(w) : x = w[i][1]
    <3>1. x \in BytesOf(w) <=> \E v \in Range(w) : Len(v) = 1 /\ x = v[1]
      BY DEF BytesOf
    <3>2. \A v : v \in Range(w) <=> \E i \in 1 .. Len(w) : v = w[i]
      BY <1>2 DEF Range
    <3>3. \A i \in 1 .. Len(w) : Len(w[i]) = 1
      BY <1>3
    <3>4. ASSUME x \in BytesOf(w) PROVE \E i \in 1 .. Len(w) : x = w[i][1]
      BY <3>1, <3>2, <3>4
    <3>5. ASSUME NEW i \in 1 .. Len(w), x = w[i][1] PROVE x \in BytesOf(w)
      BY <3>1, <3>2, <3>3, <3>5
    <3> QED
      BY <3>4, <3>5
  <2>2. \A i \in 1 .. Len(w) : w[i][1] = a + i - 1
    BY <1>3
  <2>3. \A x : x \in BytesOf(w) <=> \E i \in 1 .. Len(w) : x = a + i - 1
    BY <2>1, <2>2
  <2> QED
    BY <2>3, Zenon
<1>7. BytesOf(w) = a .. b
  <2>1. \A x : x \in a .. b <=> \E i \in 1 .. Len(w) : x = a + i - 1
    <3>1. ASSUME NEW x \in a .. b PROVE \E i \in 1 .. Len(w) : x = a + i - 1
      <4>1. x - a + 1 \in 1 .. Len(w) /\ x = a + (x - a + 1) - 1
        BY <1>1, <1>2
      <4> QED
        BY <4>1
    <3>2. ASSUME NEW i \in 1 .. Len(w) PROVE a + i - 1 \in a .. b
      BY <1>1, <1>2
    <3> QED
      BY <3>1, <3>2
  <2> QED
    BY <1>6, <2>1
<1>8. \A x \in Int : x \in BytesOf(w) <=> InRanges(t, n, x)
  <2>1. CASE n = 1
    <3>1. \A i : i \in 1 .. 1 <=> i = 1
      OBVIOUS
    <3>2. \A x \in Int : InRanges(t, 1, x) <=> (a <= x /\ x <= b)
      BY <2>1, <3>1 DEF InRanges
    <3> QED
      BY <1>2, <1>7, <2>1, <3>2
  <2>2. CASE n = 0
    <3>1. \A x : ~InRanges(t, 0, x)
      BY DEF InRanges
    <3>2. a .. b = {}
      BY <1>2, <2>2
    <3> QED
      BY <1>7, <2>2, <3>1, <3>2
  <2> QED
    BY <2>1, <2>2
<1>9. n > 0 => w # <<>>
  <2>1. n > 0 => Len(w) > 0
    BY <1>1, <1>2
  <2> QED
    BY <2>1, EmptySequence
<1> QED
  BY <1>1, <1>2, <1>5, <1>7, <1>8, <1>9 DEF Serves

\* All of the content has no part.
LEMMA AllServes ==
  ASSUME NEW n \in Nat
  PROVE  /\ IsSequence(All(n)) /\ PartsRight(All(n))
         /\ All(n) = <<>> => n = 0
         /\ n = 0 => All(n) = <<>>
<1> PICK r : r = <<0, n - 1>>
  OBVIOUS
<1>1. r[1] = 0 /\ r[2] = n - 1 /\ r[1] \in Int /\ r[2] \in Int
  OBVIOUS
<1>2. All(n) = Bytes(r)
  BY DEF All
<1>3. Len(Bytes(r)) = IF r[1] <= r[2] THEN r[2] - r[1] + 1 ELSE 0
  BY <1>1, BytesAre
<1>4. Len(Bytes(r)) = n
  BY <1>1, <1>3
<1>5. PICK t : t = <<r>>
  OBVIOUS
<1>6. t[1] = r
  BY <1>5
<1>7. Serves(Bytes(r), t, IF n = 0 THEN 0 ELSE 1)
  <2>1. CASE n = 0
    <3>1. r[2] < r[1] /\ 0 \in {0, 1} /\ 0 # 1
      BY <1>1, <2>1
    <3>2. Serves(Bytes(r), t, 0)
      BY <1>1, <3>1, BytesServe
    <3> QED
      BY <2>1, <3>2
  <2>2. CASE n # 0
    <3>1. r[1] <= r[2] /\ 1 \in {0, 1} /\ 0 # 1
      BY <1>1, <2>2
    <3>2. Serves(Bytes(r), t, 1)
      BY <1>1, <1>6, <3>1, BytesServe
    <3> QED
      BY <2>2, <3>2
  <2> QED
    BY <2>1, <2>2
<1> QED
  BY <1>2, <1>4, <1>7, EmptySequence DEF Serves

\* Several ranges, and the closing delimiter.
LEMMA PartsServe ==
  ASSUME NEW t, IsSequence(t), Len(t) > 0, \A i \in 1 .. Len(t) : IsRange(t[i])
  PROVE  Serves(Parts(t), t, Len(t))
<1> PICK n : n = Len(t)
  OBVIOUS
<1> DEFINE s == [i \in DOMAIN t |-> <<t[i]>> \o Bytes(t[i])]
           f == FlattenSeq(s)
           w == Parts(t)
<1>1. n \in Nat /\ n # 0 /\ DOMAIN t = 1 .. n
  BY SequenceIs
<1>2. Len(s) = n /\ \A j \in 1 .. n : s[j] = Part(t[j])
  <2>1. s = [i \in 1 .. n |-> s[i]] /\ \A j \in 1 .. n : s[j] = <<t[j]>> \o Bytes(t[j])
    BY <1>1
  <2> HIDE DEF s
  <2> QED
    BY <1>1, <2>1, SequenceOf DEF Part
<1>3. w = f \o << <<>> >>
  BY DEF Parts
<1> HIDE DEF s
<1> DEFINE size(j) == t[j][2] - t[j][1] + 1
<1>4. ASSUME NEW j \in 1 .. n
      PROVE  /\ t[j][1] \in Int /\ t[j][2] \in Int /\ size(j) \in Nat /\ size(j) > 0
             /\ IsSequence(s[j]) /\ Len(s[j]) = size(j) + 1 /\ s[j][1] = t[j]
             /\ \A i \in 1 .. size(j) : s[j][1 + i] = <<t[j][1] + i - 1>>
  <2>1. IsRange(t[j])
    OBVIOUS
  <2>2. t[j][1] \in Int /\ t[j][2] \in Int /\ size(j) \in Nat /\ size(j) > 0
    BY <2>1 DEF IsRange
  <2>3. /\ IsSequence(Part(t[j])) /\ Len(Part(t[j])) = t[j][2] - t[j][1] + 2
        /\ Part(t[j])[1] = t[j]
        /\ \A i \in 1 .. t[j][2] - t[j][1] + 1 : Part(t[j])[1 + i] = <<t[j][1] + i - 1>>
    BY <2>1, PartIs
  <2>4. t[j][2] - t[j][1] + 2 = size(j) + 1
    BY <2>2
  <2> QED
    BY <1>2, <2>2, <2>3, <2>4
<1>5. PICK off : off[0] = 0 /\ BlocksOf(s, f, n, off)
  <2>1. \A k \in 1 .. n : IsSequence(s[k])
    BY <1>4
  <2> HIDE DEF f
  <2> QED
    BY <1>1, <1>2, <2>1, FlattenBlocks DEF f
<1> HIDE DEF f, w, size
<1>6. /\ IsSequence(f) /\ Len(f) = off[n]
      /\ \A j \in 1 .. n : /\ off[j - 1] \in Nat /\ off[j] = off[j - 1] + Len(s[j]) /\ off[j] <= off[n]
                          /\ \A i \in 1 .. Len(s[j]) : f[off[j - 1] + i] = s[j][i]
      /\ \A i \in 1 .. off[n] : \E j \in 1 .. n : off[j - 1] < i /\ i <= off[j]
  BY <1>5 DEF BlocksOf
<1>7. off[n] \in Nat
  BY <1>6, SequenceIs
<1>8. /\ IsSequence(w) /\ Len(w) = off[n] + 1 /\ w[off[n] + 1] = <<>>
      /\ \A i \in 1 .. off[n] : w[i] = f[i]
  <2>1. PICK y : y = << <<>> >>
    OBVIOUS
  <2>2. IsSequence(y) /\ Len(y) = 1 /\ y[1] = <<>>
    BY <2>1, OneElement
  <2>3. IsSequence(f) /\ IsSequence(y)
    BY <1>6, <2>2
  <2>4. /\ IsSequence(f \o y) /\ Len(f \o y) = Len(f) + Len(y)
        /\ \A i \in 1 .. Len(f) : (f \o y)[i] = f[i]
        /\ \A i \in 1 .. Len(y) : (f \o y)[Len(f) + i] = y[i]
    BY <2>3, Concatenation
  <2>5. w = f \o y
    BY <1>3, <2>1
  <2>6. 1 \in 1 .. Len(y)
    BY <2>2
  <2> QED
    BY <1>6, <2>2, <2>4, <2>5, <2>6
<1>9. ASSUME NEW j \in 1 .. n
      PROVE  /\ off[j - 1] + 1 \in 1 .. off[n] /\ w[off[j - 1] + 1] = t[j]
             /\ off[j - 1] + 1 + size(j) <= off[n]
             /\ \A i \in 1 .. size(j) : w[off[j - 1] + 1 + i] = <<t[j][1] + i - 1>>
  <2>1. /\ off[j - 1] \in Nat /\ off[j] = off[j - 1] + (size(j) + 1) /\ off[j] <= off[n]
        /\ \A i \in 1 .. size(j) + 1 : f[off[j - 1] + i] = s[j][i]
    <3>1. Len(s[j]) = size(j) + 1
      BY <1>4
    <3> QED
      BY <1>6, <3>1
  <2>2. size(j) \in Nat /\ s[j][1] = t[j] /\ \A i \in 1 .. size(j) : s[j][1 + i] = <<t[j][1] + i - 1>>
    BY <1>4
  <2>3. off[j - 1] + 1 \in 1 .. off[n] /\ 1 \in 1 .. size(j) + 1 /\ off[j - 1] + 1 + size(j) <= off[n]
    BY <1>7, <2>1, <2>2
  <2>4. w[off[j - 1] + 1] = t[j]
    BY <1>8, <2>1, <2>2, <2>3
  <2>5. ASSUME NEW i \in 1 .. size(j) PROVE w[off[j - 1] + 1 + i] = <<t[j][1] + i - 1>>
    <3>1. PICK k, q : k = off[j - 1] + 1 + i /\ q = 1 + i
      OBVIOUS
    <3>2. k \in 1 .. off[n] /\ q \in 1 .. size(j) + 1 /\ k = off[j - 1] + q
      <4>1. PICK o, z, e : o = off[j - 1] /\ z = size(j) /\ e = off[n]
        OBVIOUS
      <4>2. o \in Nat /\ z \in Nat /\ e \in Nat /\ o + 1 + z <= e /\ i \in 1 .. z
        BY <1>7, <2>1, <2>2, <2>3, <4>1
      <4>3. o + 1 + i \in 1 .. e /\ 1 + i \in 1 .. z + 1 /\ o + 1 + i = o + (1 + i)
        BY <4>2
      <4> QED
        BY <3>1, <4>1, <4>3
    <3>3. f[k] = s[j][q]
      BY <2>1, <3>2
    <3>4. w[k] = f[k]
      BY <1>8, <3>2
    <3>5. s[j][q] = <<t[j][1] + i - 1>>
      BY <2>2, <3>1
    <3> QED
      BY <3>1, <3>3, <3>4, <3>5
  <2> QED
    BY <2>3, <2>4, <2>5
<1>10. ASSUME NEW i \in DOMAIN w
       PROVE  \/ w[i] = <<>>
              \/ \E j \in 1 .. n : i = off[j - 1] + 1
              \/ \E j \in 1 .. n : \E q \in 1 .. size(j) : i = off[j - 1] + 1 + q
  <2>1. i \in 1 .. off[n] + 1
    BY <1>7, <1>8, SequenceIs
  <2>2. CASE i = off[n] + 1
    BY <1>8, <2>2
  <2>3. CASE i # off[n] + 1
    <3>1. i \in 1 .. off[n]
      BY <1>7, <2>1, <2>3
    <3>2. PICK j \in 1 .. n : off[j - 1] < i /\ i <= off[j]
      BY <1>6, <3>1
    <3>3. off[j - 1] \in Nat /\ off[j] = off[j - 1] + (size(j) + 1) /\ size(j) \in Nat
      BY <1>4, <1>6
    <3>4. CASE i = off[j - 1] + 1
      BY <3>4
    <3>5. CASE i # off[j - 1] + 1
      <4>1. PICK q : q = i - off[j - 1] - 1
        OBVIOUS
      <4>2. q \in 1 .. size(j) /\ i = off[j - 1] + 1 + q
        <5>1. PICK o, z, e : o = off[j - 1] /\ z = size(j) /\ e = off[j]
          OBVIOUS
        <5>2. o \in Nat /\ e = o + (z + 1) /\ z \in Nat /\ i \in Nat /\ o < i /\ i <= e /\ i # o + 1
          BY <1>7, <3>1, <3>2, <3>3, <3>5, <5>1
        <5>3. i - o - 1 \in 1 .. z /\ i = o + 1 + (i - o - 1)
          BY <5>2
        <5> QED
          BY <4>1, <5>1, <5>3
      <4> QED
        BY <4>2
    <3> QED
      BY <3>4, <3>5
  <2> QED
    BY <2>2, <2>3
<1>11. PartsRight(w)
  <2> SUFFICES ASSUME NEW i \in PartsOf(w)
               PROVE  SubSeq(w, i + 1, i + Len(Bytes(w[i]))) = Bytes(w[i])
    BY DEF PartsRight
  <2>1. i \in DOMAIN w /\ Len(w[i]) = 2
    BY DEF PartsOf
  <2>2. w[i] # <<>> /\ \A x : w[i] # <<x>>
    <3>1. 0 # 2 /\ 1 # 2
      OBVIOUS
    <3> QED
      BY <2>1, <3>1, UnitLengths, Zenon
  <2>3. PICK j \in 1 .. n : i = off[j - 1] + 1
    <3>1. ASSUME NEW j \in 1 .. n, NEW q \in 1 .. size(j), i = off[j - 1] + 1 + q PROVE FALSE
      <4>1. w[i] = <<t[j][1] + q - 1>>
        BY <1>9, <3>1
      <4> QED
        BY <2>2, <4>1
    <3> QED
      BY <1>10, <2>1, <2>2, <3>1
  <2>4. /\ i \in 1 .. off[n] /\ w[i] = t[j] /\ i + size(j) <= off[n]
        /\ \A q \in 1 .. size(j) : w[i + q] = <<t[j][1] + q - 1>>
    BY <1>9, <2>3
  <2>5. PICK b : b = Bytes(t[j])
    OBVIOUS
  <2>6. IsSequence(b) /\ Len(b) = size(j) /\ \A q \in 1 .. size(j) : b[q] = <<t[j][1] + q - 1>>
    <3>1. t[j][1] \in Int /\ t[j][2] \in Int
      BY <1>4
    <3>2. /\ IsSequence(Bytes(t[j]))
          /\ Len(Bytes(t[j])) = IF t[j][1] <= t[j][2] THEN t[j][2] - t[j][1] + 1 ELSE 0
          /\ \A q \in 1 .. Len(Bytes(t[j])) : Bytes(t[j])[q] = <<t[j][1] + q - 1>>
      BY <3>1, BytesAre
    <3>3. t[j][1] <= t[j][2] /\ size(j) = t[j][2] - t[j][1] + 1
      BY DEF IsRange, size
    <3>4. Len(b) = size(j)
      BY <2>5, <3>2, <3>3
    <3> QED
      BY <2>5, <3>2, <3>4
  <2>7. PICK v : v = SubSeq(w, i + 1, i + size(j))
    OBVIOUS
  <2>8. IsSequence(v) /\ Len(v) = size(j) /\ \A q \in 1 .. size(j) : v[q] = w[i + q]
    <3>1. size(j) \in Nat /\ i + 1 \in 1 .. Len(w) + 1 /\ i + size(j) \in (i + 1) - 1 .. Len(w)
      <4>1. PICK z, k : z = size(j) /\ k = off[n]
        OBVIOUS
      <4>2. /\ z \in Nat /\ z > 0 /\ k \in Nat /\ i \in 1 .. k /\ i + z <= k /\ Len(w) = k + 1
        BY <1>4, <1>7, <1>8, <2>4, <4>1
      <4>3. z \in Nat /\ i + 1 \in 1 .. k + 2 /\ i + z \in (i + 1) - 1 .. k + 1 /\ Len(w) + 1 = k + 2
        BY <4>2
      <4> QED
        BY <4>1, <4>2, <4>3
    <3>2. /\ IsSequence(v) /\ Len(v) = (i + size(j)) - (i + 1) + 1
          /\ \A q \in 1 .. (i + size(j)) - (i + 1) + 1 : v[q] = w[(i + 1) + q - 1]
      BY <1>8, <2>7, <3>1, Subsequence
    <3>3. (i + size(j)) - (i + 1) + 1 = size(j) /\ \A q \in 1 .. size(j) : (i + 1) + q - 1 = i + q
      BY <1>7, <2>4, <3>1
    <3> QED
      BY <3>2, <3>3
  <2>9. v = b
    BY <2>4, <2>6, <2>8, SequencesEqual
  <2> QED
    BY <2>4, <2>5, <2>6, <2>7, <2>9
<1>12. DOMAIN w = 1 .. off[n] + 1
  BY <1>8, SequenceIs
<1>13. ASSUME NEW u \in Range(w), Len(u) = 1
       PROVE  u[1] \in Int /\ InRanges(t, n, u[1])
  <2>1. PICK i \in DOMAIN w : u = w[i]
    BY DEF Range
  <2>2. w[i] # <<>> /\ \A r : IsRange(r) => w[i] # r
    BY <1>13, <2>1, UnitLengths
  <2>3. PICK j \in 1 .. n : \E q \in 1 .. size(j) : i = off[j - 1] + 1 + q
    <3>1. ASSUME NEW j \in 1 .. n, i = off[j - 1] + 1 PROVE FALSE
      <4>1. w[i] = t[j] /\ IsRange(t[j])
        BY <1>9, <3>1
      <4> QED
        BY <2>2, <4>1
    <3> QED
      BY <1>10, <2>1, <2>2, <3>1
  <2> PICK q \in 1 .. size(j) : i = off[j - 1] + 1 + q
    BY <2>3
  <2>4. w[i] = <<t[j][1] + q - 1>>
    BY <1>9
  <2>5. u[1] = t[j][1] + q - 1
    BY <2>1, <2>4, UnitLengths
  <2>6. u[1] \in Int /\ t[j][1] <= u[1] /\ u[1] <= t[j][2]
    BY <1>4, <2>5 DEF size
  <2> QED
    BY <2>6 DEF InRanges
<1>14. ASSUME NEW x \in Int, InRanges(t, n, x)
       PROVE  x \in BytesOf(w)
  <2>1. PICK j \in 1 .. n : t[j][1] <= x /\ x <= t[j][2]
    BY <1>14 DEF InRanges
  <2>2. PICK q : q = x - t[j][1] + 1
    OBVIOUS
  <2>3. q \in 1 .. size(j) /\ x = t[j][1] + q - 1
    <3>1. PICK a, b : a = t[j][1] /\ b = t[j][2]
      OBVIOUS
    <3>2. a \in Int /\ b \in Int /\ a <= x /\ x <= b
      BY <1>4, <2>1, <3>1
    <3>3. x - a + 1 \in 1 .. b - a + 1 /\ x = a + (x - a + 1) - 1
      BY <3>2
    <3>4. size(j) = b - a + 1 /\ q = x - a + 1
      BY <2>2, <3>1 DEF size
    <3> QED
      BY <3>1, <3>3, <3>4
  <2>4. PICK i : i = off[j - 1] + 1 + q
    OBVIOUS
  <2>5. w[i] = <<x>> /\ i \in DOMAIN w
    <3>1. i \in 1 .. off[n] + 1
      <4>1. PICK o, z, e : o = off[j - 1] /\ z = size(j) /\ e = off[n]
        OBVIOUS
      <4>2. e \in Nat /\ z \in Nat /\ o + 1 \in 1 .. e /\ o + 1 + z <= e /\ q \in 1 .. z
        BY <1>4, <1>7, <1>9, <2>3, <4>1
      <4>3. o \in Nat
        BY <1>6, <4>1
      <4>4. o + 1 + q \in 1 .. e + 1
        BY <4>2, <4>3
      <4> QED
        BY <2>4, <4>1, <4>4
    <3> QED
      BY <1>9, <1>12, <2>3, <2>4, <3>1
  <2>6. w[i] \in Range(w) /\ Len(w[i]) = 1 /\ w[i][1] = x
    BY <2>5, UnitLengths DEF Range
  <2> QED
    BY <2>6 DEF BytesOf
<1>15. BytesOf(w) \subseteq Int /\ \A x \in Int : x \in BytesOf(w) <=> InRanges(t, n, x)
  <2>1. ASSUME NEW x \in BytesOf(w) PROVE x \in Int /\ InRanges(t, n, x)
    <3>1. PICK u \in Range(w) : Len(u) = 1 /\ x = u[1]
      BY DEF BytesOf
    <3> QED
      BY <1>13, <3>1
  <2> QED
    BY <1>14, <2>1
<1>16. w # <<>>
  BY <1>7, <1>8, EmptySequence
<1> QED
  BY <1>8, <1>11, <1>15, <1>16 DEF Serves, w

\* What sorts n ranges has each of them.
Sorts(s, t, n) ==
  /\ s \in [1 .. n -> 1 .. n]
  /\ \A j \in 1 .. n : \E i \in 1 .. n : s[i] = j
  /\ \A i \in 1 .. n - 1 : t[s[i]][1] <= t[s[i + 1]][1]

\* Sorted ranges are the same ranges.
LEMMA SortedIs ==
  ASSUME NEW t, NEW n \in Nat, DOMAIN t = 1 .. n, NEW s \in Sorted(t)
  PROVE  Sorts(s, t, n)
<1>1. IsFiniteSet(1 .. n) /\ Cardinality(1 .. n) = n
  <2>1. PICK a \in Int, b \in Int : a = 1 /\ b = n
    OBVIOUS
  <2>2. IsFiniteSet(a .. b) /\ Cardinality(a .. b) = IF a > b THEN 0 ELSE b - a + 1
    BY FS_Interval
  <2>3. (IF a > b THEN 0 ELSE b - a + 1) = n
    BY <2>1
  <2> QED
    BY <2>1, <2>2, <2>3
<1>2. s \in SetToSeqs(1 .. n) /\ \A i, j \in DOMAIN s : i < j => t[s[i]][1] <= t[s[j]][1]
  BY DEF Sorted
<1>3. s \in [1 .. n -> 1 .. n] /\ \A i, j \in 1 .. n : i # j => s[i] # s[j]
  BY <1>1, <1>2 DEF SetToSeqs
<1>4. s \in Injection(1 .. n, 1 .. n)
  BY <1>3 DEF Injection, IsInjective
<1>5. s \in Surjection(1 .. n, 1 .. n)
  BY <1>1, <1>4, FS_Injection
<1>6. \A i \in 1 .. n - 1 : i \in 1 .. n /\ i + 1 \in 1 .. n /\ i < i + 1
  OBVIOUS
<1>7. \A i \in 1 .. n - 1 : t[s[i]][1] <= t[s[i + 1]][1]
  BY <1>2, <1>3, <1>6
<1> QED
  BY <1>3, <1>5, <1>7 DEF Surjection, Sorts

\* The ranges that a request is served with have the bytes of those that it asks
\* for.
LEMMA CoalescedIs ==
  ASSUME NEW n \in Nat, NEW ranges, IsSequence(ranges), NEW k, k = Len(ranges), k > 0,
         NEW norm, norm = [i \in DOMAIN ranges |-> Normalised(ranges[i], n)],
         \A i \in 1 .. k : IsRange(norm[i]),
         NEW final \in Coalesced(ranges, n)
  PROVE  /\ IsSequence(final) /\ Len(final) > 0
         /\ \A i \in 1 .. Len(final) : IsRange(final[i])
         /\ \A x \in Int : InRanges(final, Len(final), x) <=> InRanges(norm, k, x)
<1>1. k \in Nat /\ DOMAIN ranges = 1 .. k
  BY SequenceIs
<1>2. norm = [i \in 1 .. k |-> norm[i]]
  BY <1>1
<1>3. IsSequence(norm) /\ Len(norm) = k /\ DOMAIN norm = 1 .. k
  BY <1>1, <1>2, SequenceOf
<1> DEFINE f == [i \in DOMAIN ranges |-> Normalised(ranges[i], n)]
<1>4. final \in IF k <= 1 THEN {f} ELSE {Merged([i \in DOMAIN s |-> f[s[i]]]) : s \in Sorted(f)}
  BY DEF Coalesced
<1>0. f = norm
  OBVIOUS
<1> HIDE DEF f
<1>5. CASE k <= 1
  <2>1. final = norm
    BY <1>0, <1>4, <1>5
  <2> QED
    BY <1>3, <2>1
<1>6. CASE ~(k <= 1)
  <2>1. PICK s \in Sorted(f) : final = Merged([i \in DOMAIN s |-> f[s[i]]])
    BY <1>4, <1>6
  <2>2. /\ s \in [1 .. k -> 1 .. k]
        /\ \A j \in 1 .. k : \E i \in 1 .. k : s[i] = j
        /\ \A i \in 1 .. k - 1 : norm[s[i]][1] <= norm[s[i + 1]][1]
    <3>1. s \in Sorted(norm) /\ k \in Nat /\ DOMAIN norm = 1 .. k
      BY <1>0, <1>1, <1>3
    <3>2. Sorts(s, norm, k)
      BY <3>1, SortedIs
    <3> QED
      BY <3>2 DEF Sorts
  <2>3. PICK t : t = [i \in 1 .. k |-> norm[s[i]]]
    OBVIOUS
  <2>4. final = Merged(t)
    <3>1. DOMAIN s = 1 .. k
      BY <2>2
    <3> QED
      BY <1>0, <2>1, <2>3, <3>1
  <2>5. /\ t = [i \in 1 .. k |-> t[i]]
        /\ \A i \in 1 .. k : t[i] = norm[s[i]] /\ IsRange(t[i])
        /\ \A i \in 1 .. k - 1 : t[i][1] <= t[i + 1][1]
    <3>1. \A i \in 1 .. k : t[i] = norm[s[i]] /\ s[i] \in 1 .. k
      BY <2>2, <2>3
    <3>2. \A i \in 1 .. k - 1 : i \in 1 .. k /\ i + 1 \in 1 .. k
      BY <1>1
    <3>3. t = [i \in 1 .. k |-> t[i]]
      BY <2>3
    <3>4. \A i \in 1 .. k : IsRange(t[i])
      BY <3>1
    <3>5. \A i \in 1 .. k - 1 : t[i][1] <= t[i + 1][1]
      <4>1. ASSUME NEW i \in 1 .. k - 1 PROVE t[i][1] <= t[i + 1][1]
        <5>1. t[i] = norm[s[i]] /\ t[i + 1] = norm[s[i + 1]]
          BY <3>1, <3>2
        <5>2. norm[s[i]][1] <= norm[s[i + 1]][1]
          BY <2>2
        <5> QED
          BY <5>1, <5>2
      <4> QED
        BY <4>1
    <3> QED
      BY <3>1, <3>3, <3>4, <3>5
  <2>6. Len(t) = k
    BY <1>1, <2>5, SequenceOf
  <2>7. MergedOK(final, t, k)
    BY <1>1, <2>4, <2>5, <2>6, MergedIsOK
  <2>8. ASSUME NEW x \in Int PROVE InRanges(t, k, x) <=> InRanges(norm, k, x)
    <3>1. ASSUME NEW i \in 1 .. k, t[i][1] <= x, x <= t[i][2] PROVE InRanges(norm, k, x)
      <4>1. t[i] = norm[s[i]] /\ s[i] \in 1 .. k
        BY <2>2, <2>5
      <4> QED
        BY <3>1, <4>1 DEF InRanges
    <3>2. ASSUME NEW j \in 1 .. k, norm[j][1] <= x, x <= norm[j][2] PROVE InRanges(t, k, x)
      <4>1. PICK i \in 1 .. k : s[i] = j
        BY <2>2
      <4>2. t[i] = norm[j]
        BY <2>5, <4>1
      <4> QED
        BY <3>2, <4>2 DEF InRanges
    <3> QED
      BY <3>1, <3>2 DEF InRanges
  <2> QED
    BY <2>7, <2>8 DEF MergedOK
<1> QED
  BY <1>5, <1>6

\* What is selected of the content are the bytes of the ranges.
LEMMA SelectedServes ==
  ASSUME NEW t, IsSequence(t), Len(t) > 0, \A i \in 1 .. Len(t) : IsRange(t[i]), NEW n
  PROVE  Serves(Selected(t, n), t, Len(t))
<1>1. t # <<>> /\ Len(t) \in Nat
  BY EmptySequence, SequenceIs
<1>2. CASE Len(t) = 1
  <2>1. Selected(t, n) = Bytes(t[1])
    BY <1>1, <1>2 DEF Selected
  <2>2. IsRange(t[1])
    BY <1>2
  <2>3. t[1][1] \in Int /\ t[1][2] \in Int /\ t[1][1] <= t[1][2]
    BY <2>2 DEF IsRange
  <2>4. 1 \in {0, 1} /\ 1 # 0
    OBVIOUS
  <2>5. Serves(Bytes(t[1]), t, 1)
    BY <2>3, <2>4, BytesServe
  <2> QED
    BY <1>2, <2>1, <2>5
<1>3. CASE Len(t) # 1
  <2>1. Selected(t, n) = Parts(t)
    BY <1>1, <1>3 DEF Selected
  <2> QED
    BY <2>1, PartsServe
<1> QED
  BY <1>2, <1>3

\* The ranges of a request are pairs of integers.
LEMMA AskedRanges ==
  ASSUME NEW ranges \in Asked
  PROVE  /\ IsSequence(ranges) /\ Len(ranges) \in Nat /\ DOMAIN ranges = 1 .. Len(ranges)
         /\ \A i \in 1 .. Len(ranges) : /\ ranges[i][1] \in Int /\ ranges[i][2] \in Int
                                       /\ ranges[i] = <<ranges[i][1], ranges[i][2]>>
                                       /\ WellFormed(ranges[i])
<1>1. ranges \in Seq(Int \X Int) /\ \A i \in DOMAIN ranges : WellFormed(ranges[i])
  BY MessagesAssumption
<1>2. IsSequence(ranges)
  BY <1>1, TypedSequence
<1>3. Len(ranges) \in Nat /\ DOMAIN ranges = 1 .. Len(ranges)
  BY <1>2, SequenceIs
<1>4. \A i \in 1 .. Len(ranges) : ranges[i] \in Int \X Int
  BY <1>1, <1>3
<1> QED
  BY <1>1, <1>2, <1>3, <1>4

\* What is selected for a request that is not refused are the bytes asked for.
LEMMA AskedServed ==
  ASSUME asked \in Asked, asked # <<>>, ~RangeError(asked, Size_), NEW final \in Coalesced(asked, Size_)
  PROVE  LET content == Selected(final, Size_)
         IN  /\ IsSequence(content) /\ PartsRight(content) /\ content # <<>>
             /\ BytesOf(content) = AskedBytes
             /\ Size_ # 0
<1> DEFINE norm == [i \in DOMAIN asked |-> Normalised(asked[i], Size_)]
<1> PICK k, content : k = Len(asked) /\ content = Selected(final, Size_)
  OBVIOUS
<1>1. IsSequence(asked) /\ k \in Nat /\ k > 0 /\ DOMAIN asked = 1 .. k /\ Size_ \in Nat
  <2>1. Len(asked) # 0
    BY AskedRanges, EmptySequence
  <2> QED
    BY <2>1, AskedRanges, MessagesAssumption
<1>2. \A i \in 1 .. k : norm[i] = Normalised(asked[i], Size_) /\ norm[i] = <<norm[i][1], norm[i][2]>>
  BY <1>1 DEF Normalised
<1>3. \A i \in 1 .. k : Within(norm[i], Size_)
  <2>1. \A i \in DOMAIN norm : Within(norm[i], Size_)
    BY DEF RangeError
  <2>2. DOMAIN norm = 1 .. k
    BY <1>1
  <2> HIDE DEF norm
  <2> QED
    BY <2>1, <2>2
<1>4. \A i \in 1 .. k : norm[i][1] \in Int /\ norm[i][2] \in Int
  <2> SUFFICES ASSUME NEW i \in 1 .. k PROVE norm[i][1] \in Int /\ norm[i][2] \in Int
    OBVIOUS
  <2>1. asked[i][1] \in Int /\ asked[i][2] \in Int
    BY AskedRanges
  <2>2. Normalised(asked[i], Size_)[1] \in Int /\ Normalised(asked[i], Size_)[2] \in Int
    BY <1>1, <2>1 DEF Normalised
  <2> QED
    BY <1>2, <2>2
<1>5. PICK t : t = norm
  OBVIOUS
<1>6. \A i \in 1 .. k : t[i] = Normalised(asked[i], Size_) /\ IsRange(t[i]) /\ 0 <= t[i][1] /\ t[i][2] < Size_
  <2> HIDE DEF norm
  <2> QED
    BY <1>2, <1>3, <1>4, <1>5 DEF IsRange, Within
<1>7. /\ IsSequence(final) /\ Len(final) > 0
      /\ \A i \in 1 .. Len(final) : IsRange(final[i])
      /\ \A x \in Int : InRanges(final, Len(final), x) <=> InRanges(t, k, x)
  BY <1>1, <1>5, <1>6, CoalescedIs
<1>8. Serves(content, final, Len(final))
  BY <1>7, SelectedServes
<1>9. /\ IsSequence(content) /\ PartsRight(content) /\ content # <<>>
      /\ BytesOf(content) \subseteq Int
      /\ \A x \in Int : x \in BytesOf(content) <=> InRanges(t, k, x)
  BY <1>7, <1>8 DEF Serves
<1>10. AskedBytes = {x \in Int : InRanges(t, k, x)}
  <2>1. ASSUME NEW x \in AskedBytes PROVE x \in Int /\ InRanges(t, k, x)
    <3>1. PICK i \in 1 .. k : x \in Normalised(asked[i], Size_)[1] .. Normalised(asked[i], Size_)[2]
      BY <1>1 DEF AskedBytes
    <3>2. x \in t[i][1] .. t[i][2] /\ t[i][1] \in Int /\ t[i][2] \in Int
      BY <1>6, <3>1 DEF IsRange
    <3> QED
      BY <3>2 DEF InRanges
  <2>2. ASSUME NEW x \in Int, InRanges(t, k, x) PROVE x \in AskedBytes
    <3>1. PICK i \in 1 .. k : t[i][1] <= x /\ x <= t[i][2]
      BY <2>2 DEF InRanges
    <3>2. x \in t[i][1] .. t[i][2]
      BY <1>6, <3>1 DEF IsRange
    <3>3. x \in Normalised(asked[i], Size_)[1] .. Normalised(asked[i], Size_)[2]
      BY <1>6, <3>2
    <3> QED
      BY <1>1, <3>3 DEF AskedBytes
  <2> QED
    BY <2>1, <2>2
<1>11. BytesOf(content) = AskedBytes
  BY <1>9, <1>10
<1>12. Size_ # 0
  <2>1. IsRange(t[1]) /\ 0 <= t[1][1] /\ t[1][2] < Size_
    BY <1>1, <1>6
  <2> QED
    BY <1>1, <2>1 DEF IsRange
<1> QED
  BY <1>9, <1>11, <1>12

\* Of a request without ranges all is selected.
LEMMA NothingAsked ==
  ASSUME NEW n, NEW final \in Coalesced(<<>>, n)
  PROVE  final = <<>> /\ Selected(final, n) = All(n)
<1> PICK e : e = <<>>
  OBVIOUS
<1> DEFINE norm == [i \in DOMAIN e |-> Normalised(e[i], n)]
<1>1. IsSequence(e) /\ Len(e) = 0
  BY EmptySequence
<1>2. DOMAIN e = 1 .. 0
  BY <1>1, SequenceIs
<1>3. final = norm
  <2>1. final \in Coalesced(e, n) /\ Len(e) <= 1
    BY <1>1
  <2> QED
    BY <2>1 DEF Coalesced
<1>4. norm = [i \in 1 .. 0 |-> norm[i]]
  BY <1>2
<1> HIDE DEF norm
<1>5. IsSequence(norm) /\ Len(norm) = 0
  <2>1. 0 \in Nat
    OBVIOUS
  <2> QED
    BY <1>4, <2>1, SequenceOf
<1>6. final = <<>>
  BY <1>3, <1>5, EmptySequence
<1>7. Selected(<<>>, n) = All(n)
  BY DEF Selected
<1> QED
  BY <1>6, <1>7

\* What a message that answers a request for ranges holds from the beginning.
RangedOK ==
  kind = "ranged" =>
    /\ message.framing = "length"
    /\ (options[2] = "provider" => options[1] # 200 \/ asked = <<>>) =>
         /\ message.length = Len(message.content)
         /\ PartsRight(message.content)
         /\ message.content = <<>> => MayBeRefused \/ Size_ = 0
         /\ asked # <<>> /\ options[1] = -1 /\ message.content # <<>> =>
              BytesOf(message.content) = AskedBytes

\* A response to a request for ranges is as the invariant says.
LEMMA RangedMessage ==
  ASSUME RangedInit
  PROVE  MessageOK /\ RangedOK
<1> PICK given, source, statusCode :
      given = options[1] /\ source = options[2] /\ statusCode = Status(given, asked)
  OBVIOUS
<1>1. /\ asked \in Asked /\ given \in {-1, 200, 404} /\ source \in {"body", "provider"}
      /\ given = 404 => source = "body"
      /\ receiver = "client"
  <2>1. options \in {-1, 200, 404} \X {"body", "provider"} /\ options # <<404, "provider">>
    BY DEF RangedInit
  <2> QED
    BY <2>1 DEF RangedInit
<1>2. PICK response \in RangedResponses(given, source, asked, Size_) :
        message = Message("length", response.content, response.length, 0)
  BY DEF RangedInit
<1>3. /\ message.framing = "length" /\ message.content = response.content
      /\ message.length = response.length /\ message.trailers = 0
  BY <1>2 DEF Message
<1>4. statusCode = IF given # -1 THEN given ELSE IF asked = <<>> THEN 200 ELSE 206
  BY DEF Status
<1>5. SUFFICES
        /\ IsSequence(message.content) /\ message.length \in Nat
        /\ message.length = 0 => message.content = <<>>
        /\ (source = "provider" => given # 200 \/ asked = <<>>) =>
             /\ message.length = Len(message.content)
             /\ PartsRight(message.content)
             /\ message.content = <<>> => MayBeRefused \/ Size_ = 0
             /\ asked # <<>> /\ given = -1 /\ message.content # <<>> =>
                  BytesOf(message.content) = AskedBytes
  BY <1>1, <1>3 DEF MessageOK, RangedOK
<1> DEFINE refused == asked # <<>> /\ statusCode \in 200 .. 299 /\ RangeError(asked, Size_)
<1>6. CASE refused
  <2>1. response.length = 0 /\ response.content = <<>>
    BY <1>2, <1>6 DEF RangedResponses
  <2>2. MayBeRefused
    <3>1. /\ IsSequence(asked) /\ DOMAIN asked = 1 .. Len(asked)
          /\ \A i \in 1 .. Len(asked) : /\ asked[i][1] \in Int /\ asked[i][2] \in Int
                                        /\ asked[i] = <<asked[i][1], asked[i][2]>>
                                        /\ WellFormed(asked[i])
      BY <1>1, AskedRanges
    <3>2. \/ Len(asked) > MaxRangeCount \/ Len(asked) > 3
          \/ \E i \in 1 .. Len(asked) :
               asked[i][1] \notin 0 .. Size_ - 1 /\ ~(asked[i][1] = -1 /\ asked[i][2] \in 1 .. Size_)
      BY <1>6, <3>1, MessagesAssumption, RangeErrorMeans
    <3> QED
      BY <3>1, <3>2 DEF MayBeRefused
  <2>3. PartsRight(<<>>)
    <3>1. 0 \in Nat /\ 1 .. 0 = {}
      OBVIOUS
    <3>2. DOMAIN <<>> = {}
      BY <3>1, EmptySequence, SequenceIs
    <3> QED
      BY <3>2 DEF PartsRight, PartsOf
  <2> QED
    BY <1>3, <2>1, <2>2, <2>3, EmptySequence
<1>7. CASE ~refused
  <2>1. PICK final \in IF statusCode \in 200 .. 299 THEN Coalesced(asked, Size_) ELSE {asked} :
          /\ response.length = Len(Announced(statusCode, final, Size_))
          /\ response.content = Written(source, statusCode, final, Size_)
    BY <1>2, <1>7 DEF RangedResponses
  <2>2. /\ IsSequence(All(Size_)) /\ PartsRight(All(Size_)) /\ Len(All(Size_)) \in Nat
        /\ All(Size_) = <<>> => Size_ = 0
        /\ Len(All(Size_)) = 0 => All(Size_) = <<>> /\ Size_ = 0
    <3>1. Size_ \in Nat
      BY MessagesAssumption
    <3>2. /\ IsSequence(All(Size_)) /\ PartsRight(All(Size_))
          /\ All(Size_) = <<>> => Size_ = 0
      BY <3>1, AllServes
    <3>3. Len(All(Size_)) \in Nat /\ (Len(All(Size_)) = 0 => All(Size_) = <<>>)
      BY <3>2, SequenceIs, EmptySequence
    <3> QED
      BY <3>2, <3>3
  <2>3. CASE given = 404
    <3>1. statusCode = 404 /\ 404 # 206
      BY <1>4, <2>3
    <3>2. source # "provider"
      BY <1>1, <2>3
    <3>3. Announced(statusCode, final, Size_) = All(Size_) /\ Written(source, statusCode, final, Size_) = All(Size_)
      BY <3>1, <3>2 DEF Announced, Written
    <3>4. given # -1
      BY <2>3
    <3> QED
      BY <1>3, <2>1, <2>2, <3>3, <3>4
  <2>4. CASE asked = <<>> /\ given # 404
    <3>1. statusCode = 200 /\ statusCode \in 200 .. 299 /\ statusCode # 206
      BY <1>1, <1>4, <2>4
    <3>2. final \in Coalesced(<<>>, Size_)
      BY <2>1, <2>4, <3>1
    <3>3. Selected(final, Size_) = All(Size_)
      BY <3>2, NothingAsked
    <3>4. Announced(statusCode, final, Size_) = All(Size_) /\ Written(source, statusCode, final, Size_) = All(Size_)
      BY <3>1, <3>3 DEF Announced, Written
    <3> QED
      BY <1>3, <2>1, <2>2, <2>4, <3>4
  <2>5. CASE asked # <<>> /\ given # 404
    <3>1. statusCode \in 200 .. 299
      BY <1>1, <1>4, <2>5
    <3>2. final \in Coalesced(asked, Size_) /\ ~RangeError(asked, Size_)
      BY <1>7, <2>1, <2>5, <3>1
    <3> PICK content : content = Selected(final, Size_)
      OBVIOUS
    <3>3. /\ IsSequence(content) /\ PartsRight(content) /\ content # <<>>
          /\ BytesOf(content) = AskedBytes
          /\ Size_ # 0
      BY <1>1, <2>5, <3>2, AskedServed
    <3>4. Len(content) \in Nat /\ Len(content) # 0
      BY <3>3, SequenceIs, EmptySequence
    <3>5. CASE given = -1
      <4>1. statusCode = 206
        BY <1>4, <2>5, <3>5
      <4>2. Announced(statusCode, final, Size_) = content /\ Written(source, statusCode, final, Size_) = content
        BY <4>1 DEF Announced, Written
      <4> QED
        BY <1>3, <2>1, <3>3, <3>4, <4>2
    <3>6. CASE given = 200
      <4>1. statusCode # 206 /\ given # -1
        BY <1>4, <3>6
      <4>2. Announced(statusCode, final, Size_) = All(Size_)
        BY <4>1 DEF Announced
      <4>3. CASE source = "provider"
        <5>1. Written(source, statusCode, final, Size_) = content
          BY <4>3 DEF Written
        <5> QED
          BY <1>3, <2>1, <2>2, <2>5, <3>3, <3>6, <4>2, <4>3, <5>1
      <4>4. CASE source # "provider"
        <5>1. Written(source, statusCode, final, Size_) = All(Size_)
          BY <4>2, <4>4 DEF Written
        <5> QED
          BY <1>3, <2>1, <2>2, <4>1, <4>2, <5>1
      <4> QED
        BY <4>3, <4>4
    <3> QED
      BY <1>1, <2>5, <3>5, <3>6
  <2> QED
    BY <2>3, <2>4, <2>5
<1> QED
  BY <1>6, <1>7

(***************************************************************************)
(* Forms as text.                                                          *)
(***************************************************************************)
\* A header line in the text.
Pair(a, b) == <<a, b>>

\* The elements of a pair.
LEMMA PairIs ==
  ASSUME NEW a, NEW b
  PROVE  IsSequence(Pair(a, b)) /\ Len(Pair(a, b)) = 2 /\ Pair(a, b)[1] = a /\ Pair(a, b)[2] = b
<1> PICK w : w = <<a, b>>
  OBVIOUS
<1>1. w \in Seq({a, b}) /\ Len(w) = 2 /\ w[1] = a /\ w[2] = b
  OBVIOUS
<1>2. IsSequence(w)
  BY <1>1, TypedSequence
<1> QED
  BY <1>1, <1>2 DEF Pair

\* The header lines of an item, each with its end.
HeaderText(headers) == FlattenSeq([i \in DOMAIN headers |-> Pair(headers[i], "crlf")])

\* Where the header lines are in it.
LEMMA HeaderTextIs ==
  ASSUME NEW headers, IsSequence(headers)
  PROVE  LET w == HeaderText(headers)
         IN  /\ IsSequence(w) /\ Len(w) = 2 * Len(headers)
             /\ \A i \in 1 .. Len(headers) : w[2 * i - 1] = headers[i] /\ w[2 * i] = "crlf"
<1> DEFINE s == [i \in DOMAIN headers |-> Pair(headers[i], "crlf")]
<1> PICK w, n : w = HeaderText(headers) /\ n = Len(headers)
  OBVIOUS
<1>1. n \in Nat /\ DOMAIN headers = 1 .. n
  BY SequenceIs
<1>2. s = [i \in 1 .. n |-> s[i]] /\ \A i \in 1 .. n : s[i] = Pair(headers[i], "crlf")
  BY <1>1
<1>3. w = FlattenSeq(s)
  BY DEF HeaderText
<1> HIDE DEF s
<1>4. IsSequence(s) /\ Len(s) = n
  BY <1>1, <1>2, SequenceOf
<1>5. \A i \in 1 .. n : IsSequence(s[i]) /\ Len(s[i]) = 2 /\ s[i][1] = headers[i] /\ s[i][2] = "crlf"
  BY <1>2, PairIs
<1>6. PICK off : off[0] = 0 /\ BlocksOf(s, w, n, off)
  BY <1>3, <1>4, <1>5, FlattenAny
<1>7. /\ IsSequence(w) /\ Len(w) = off[n]
      /\ \A i \in 1 .. n : /\ off[i - 1] \in Nat /\ off[i] = off[i - 1] + Len(s[i])
                           /\ \A j \in 1 .. Len(s[i]) : w[off[i - 1] + j] = s[i][j]
  BY <1>6 DEF BlocksOf
<1>8. \A i \in 0 .. n : off[i] = 2 * i
  <2> DEFINE S == {i \in 0 .. n : off[i] # 2 * i}
  <2> SUFFICES ASSUME S # {} PROVE FALSE
    OBVIOUS
  <2>1. PICK i \in S : \A j \in S : i <= j
    <3>1. S \subseteq Nat
      BY <1>1
    <3> QED
      BY <3>1, LeastNatural
  <2>2. i # 0
    BY <1>6
  <2> PICK j : j = i - 1
    OBVIOUS
  <2>3. i \in 1 .. n /\ j \in 0 .. n /\ ~(i <= j) /\ i = j + 1
    BY <1>1, <2>2
  <2>4. off[j] = 2 * j
    BY <2>1, <2>3
  <2>5. off[i] = off[j] + 2
    BY <1>5, <1>7, <2>3
  <2>6. off[i] = 2 * i
    BY <2>3, <2>4, <2>5
  <2> QED
    BY <2>6
<1>9. ASSUME NEW i \in 1 .. n PROVE w[2 * i - 1] = headers[i] /\ w[2 * i] = "crlf"
  <2>1. \A j \in 1 .. 2 : w[off[i - 1] + j] = s[i][j]
    BY <1>5, <1>7
  <2>2. i - 1 \in 0 .. n /\ 2 * (i - 1) + 1 = 2 * i - 1 /\ 2 * (i - 1) + 2 = 2 * i /\ 1 \in 1 .. 2 /\ 2 \in 1 .. 2
    BY <1>1
  <2>3. off[i - 1] = 2 * (i - 1)
    BY <1>8, <2>2
  <2>4. w[2 * i - 1] = s[i][1] /\ w[2 * i] = s[i][2]
    BY <2>1, <2>2, <2>3
  <2> QED
    BY <1>5, <2>4
<1>10. Len(w) = 2 * n
  BY <1>1, <1>7, <1>8
<1> QED
  BY <1>7, <1>9, <1>10

\* An item in the text w, after its first o tokens.
ItemSize(item) == 2 * Len(item.headers) + Len(item.content) + 5

ItemAt(w, o, item) ==
  /\ w[o + 1] = "dash" /\ w[o + 2] = "boundary" /\ w[o + 3] = "crlf"
  /\ \A i \in 1 .. Len(item.headers) : w[o + 2 * i + 2] = item.headers[i] /\ w[o + 2 * i + 3] = "crlf"
  /\ w[o + 2 * Len(item.headers) + 4] = "crlf"
  /\ \A i \in 1 .. Len(item.content) : w[o + 2 * Len(item.headers) + 4 + i] = item.content[i]
  /\ w[o + ItemSize(item)] = "crlf"

\* The text of an item.
LEMMA ItemText ==
  ASSUME NEW item, IsItem(item)
  PROVE  /\ IsSequence(SerializedItem(item)) /\ Len(SerializedItem(item)) = ItemSize(item)
         /\ ItemAt(SerializedItem(item), 0, item)
         /\ Len(item.headers) \in Nat /\ Len(item.content) \in Nat
<1>0. PICK h, c, headers, content, d, t, e, w :
      /\ h = Len(item.headers) /\ c = Len(item.content) /\ headers = item.headers /\ content = item.content
      /\ d = dash_boundary_crlf_ /\ t = HeaderText(item.headers) /\ e = crlf_ /\ w = SerializedItem(item)
  OBVIOUS
<1>1. IsSequence(headers) /\ IsSequence(content) /\ h \in Nat /\ c \in Nat
  <2>1. headers \in Seq(HeaderLines) /\ IsSequence(content)
    BY <1>0 DEF IsItem
  <2>2. IsSequence(headers)
    BY <2>1, TypedSequence
  <2> QED
    BY <1>0, <2>1, <2>2, SequenceIs
<1>2. /\ IsSequence(d) /\ Len(d) = 3 /\ d[1] = "dash" /\ d[2] = "boundary" /\ d[3] = "crlf"
  BY <1>0, ThreeElements DEF dash_boundary_crlf_
<1>3. /\ IsSequence(e) /\ Len(e) = 1 /\ e[1] = "crlf"
  BY <1>0, OneElement DEF crlf_
<1>4. /\ IsSequence(t) /\ Len(t) = 2 * h
      /\ \A i \in 1 .. h : t[2 * i - 1] = headers[i] /\ t[2 * i] = "crlf"
  BY <1>0, <1>1, HeaderTextIs
<1>20. PICK w1 : w1 = d \o t
  OBVIOUS
<1>21. PICK w2 : w2 = w1 \o e
  OBVIOUS
<1>22. PICK w3 : w3 = w2 \o content
  OBVIOUS
<1>5. w = w3 \o e
  BY <1>0, <1>20, <1>21, <1>22 DEF SerializedItem, HeaderText, Pair
<1>6. /\ IsSequence(w1) /\ Len(w1) = 2 * h + 3
      /\ \A i \in 1 .. 3 : w1[i] = d[i]
      /\ \A i \in 1 .. 2 * h : w1[3 + i] = t[i]
  <2>1. IsSequence(d) /\ IsSequence(t)
    BY <1>2, <1>4
  <2>2. /\ IsSequence(d \o t) /\ Len(d \o t) = Len(d) + Len(t)
        /\ \A i \in 1 .. Len(d) : (d \o t)[i] = d[i]
        /\ \A i \in 1 .. Len(t) : (d \o t)[Len(d) + i] = t[i]
    BY <2>1, Concatenation
  <2>3. 3 + 2 * h = 2 * h + 3
    BY <1>1
  <2> QED
    BY <1>2, <1>4, <1>20, <2>2, <2>3
<1>7. /\ IsSequence(w2) /\ Len(w2) = 2 * h + 4
      /\ \A i \in 1 .. 2 * h + 3 : w2[i] = w1[i]
      /\ w2[2 * h + 4] = "crlf"
  <2>1. IsSequence(w1) /\ IsSequence(e)
    BY <1>3, <1>6
  <2>2. /\ IsSequence(w1 \o e) /\ Len(w1 \o e) = Len(w1) + Len(e)
        /\ \A i \in 1 .. Len(w1) : (w1 \o e)[i] = w1[i]
        /\ \A i \in 1 .. Len(e) : (w1 \o e)[Len(w1) + i] = e[i]
    BY <2>1, Concatenation
  <2>3. (2 * h + 3) + 1 = 2 * h + 4 /\ 1 \in 1 .. 1
    BY <1>1
  <2>4. 1 \in 1 .. Len(e)
    BY <1>3, <2>3
  <2>5. w2[2 * h + 4] = e[1]
    BY <1>3, <1>6, <1>21, <2>2, <2>3, <2>4
  <2> QED
    BY <1>3, <1>6, <1>21, <2>2, <2>3, <2>5
<1>8. /\ IsSequence(w3) /\ Len(w3) = 2 * h + 4 + c
      /\ \A i \in 1 .. 2 * h + 4 : w3[i] = w2[i]
      /\ \A i \in 1 .. c : w3[2 * h + 4 + i] = content[i]
  <2>1. IsSequence(w2) /\ IsSequence(content)
    BY <1>1, <1>7
  <2>2. /\ IsSequence(w2 \o content) /\ Len(w2 \o content) = Len(w2) + Len(content)
        /\ \A i \in 1 .. Len(w2) : (w2 \o content)[i] = w2[i]
        /\ \A i \in 1 .. Len(content) : (w2 \o content)[Len(w2) + i] = content[i]
    BY <2>1, Concatenation
  <2> QED
    <3>1. Len(w2) = 2 * h + 4 /\ Len(content) = c
      BY <1>0, <1>7
    <3>2. /\ IsSequence(w3) /\ Len(w3) = Len(w2) + Len(content)
          /\ \A i \in 1 .. Len(w2) : w3[i] = w2[i]
          /\ \A i \in 1 .. Len(content) : w3[Len(w2) + i] = content[i]
      BY <1>22, <2>2
    <3> QED
      BY <3>1, <3>2
<1>9. /\ IsSequence(w) /\ Len(w) = 2 * h + 4 + c + 1
      /\ \A i \in 1 .. 2 * h + 4 + c : w[i] = w3[i]
      /\ w[2 * h + 4 + c + 1] = "crlf"
  <2>1. IsSequence(w3) /\ IsSequence(e)
    BY <1>3, <1>8
  <2>2. /\ IsSequence(w3 \o e) /\ Len(w3 \o e) = Len(w3) + Len(e)
        /\ \A i \in 1 .. Len(w3) : (w3 \o e)[i] = w3[i]
        /\ \A i \in 1 .. Len(e) : (w3 \o e)[Len(w3) + i] = e[i]
    BY <2>1, Concatenation
  <2>3. 1 \in 1 .. Len(e)
    BY <1>3
  <2>4. w[2 * h + 4 + c + 1] = e[1]
    BY <1>3, <1>5, <1>8, <2>2, <2>3
  <2> QED
    BY <1>3, <1>5, <1>8, <2>2, <2>4
<1>10. \A i \in 1 .. 2 * h + 3 : w[i] = w1[i]
  <2>1. \A i \in 1 .. 2 * h + 3 : i \in 1 .. 2 * h + 4 /\ i \in 1 .. 2 * h + 4 + c
    BY <1>1
  <2> QED
    BY <1>7, <1>8, <1>9, <2>1
<1>11. w[1] = "dash" /\ w[2] = "boundary" /\ w[3] = "crlf"
  <2>1. \A i \in 1 .. 3 : i \in 1 .. 2 * h + 3
    BY <1>1
  <2>2. 1 \in 1 .. 3 /\ 2 \in 1 .. 3 /\ 3 \in 1 .. 3
    OBVIOUS
  <2> QED
    BY <1>2, <1>6, <1>10, <2>1, <2>2
<1>12. ASSUME NEW i \in 1 .. h PROVE w[2 * i + 2] = headers[i] /\ w[2 * i + 3] = "crlf"
  <2> PICK j, k : j = 2 * i - 1 /\ k = 2 * i
    OBVIOUS
  <2>1. j \in 1 .. 2 * h /\ k \in 1 .. 2 * h /\ 3 + j = 2 * i + 2 /\ 3 + k = 2 * i + 3
        /\ 3 + j \in 1 .. 2 * h + 3 /\ 3 + k \in 1 .. 2 * h + 3
    BY <1>1
  <2>2. w[3 + j] = t[j] /\ w[3 + k] = t[k]
    BY <1>6, <1>10, <2>1
  <2>3. t[j] = headers[i] /\ t[k] = "crlf"
    BY <1>4
  <2> QED
    BY <2>1, <2>2, <2>3
<1>13. w[2 * h + 4] = "crlf"
  <2>1. 2 * h + 4 \in 1 .. 2 * h + 4 /\ 2 * h + 4 \in 1 .. 2 * h + 4 + c
    BY <1>1
  <2> QED
    BY <1>7, <1>8, <1>9, <2>1
<1>14. \A i \in 1 .. c : w[2 * h + 4 + i] = content[i]
  <2>1. \A i \in 1 .. c : 2 * h + 4 + i \in 1 .. 2 * h + 4 + c
    BY <1>1
  <2> QED
    BY <1>8, <1>9, <2>1
<1>16. ItemSize(item) = 2 * h + 4 + c + 1
  <2>1. ItemSize(item) = 2 * h + c + 5
    BY <1>0 DEF ItemSize
  <2>2. 2 * h + c + 5 = 2 * h + 4 + c + 1
    BY <1>1
  <2> QED
    BY <2>1, <2>2
<1>15. ItemAt(w, 0, item)
  <2>1. \A i \in Nat : 0 + i = i
    OBVIOUS
  <2>2. 0 + 2 * h + 4 = 2 * h + 4 /\ 0 + ItemSize(item) = 2 * h + 4 + c + 1
    <3>1. 0 + 2 * h + 4 = 2 * h + 4 /\ 0 + (2 * h + 4 + c + 1) = 2 * h + 4 + c + 1
      BY <1>1
    <3> QED
      BY <1>16, <3>1
  <2>3. \A i \in 1 .. h : 0 + 2 * i + 2 = 2 * i + 2 /\ 0 + 2 * i + 3 = 2 * i + 3
    BY <1>1
  <2>4. 0 + 1 = 1 /\ 0 + 2 = 2 /\ 0 + 3 = 3
    OBVIOUS
  <2>5. \A i \in 1 .. h : w[0 + 2 * i + 2] = headers[i] /\ w[0 + 2 * i + 3] = "crlf"
    BY <1>12, <2>3
  <2>6. \A i \in 1 .. c : w[0 + 2 * h + 4 + i] = content[i]
    BY <1>14, <2>2
  <2>7. /\ w[0 + 1] = "dash" /\ w[0 + 2] = "boundary" /\ w[0 + 3] = "crlf"
        /\ w[0 + 2 * h + 4] = "crlf" /\ w[0 + ItemSize(item)] = "crlf"
    BY <1>9, <1>11, <1>13, <2>2, <2>4
  <2> QED
    BY <1>0, <2>5, <2>6, <2>7 DEF ItemAt
<1> QED
  BY <1>0, <1>1, <1>9, <1>15, <1>16

\* How many header lines and how much content an item has.
Lengths(item, h, c) == h = Len(item.headers) /\ c = Len(item.content)

\* The text of an item is the same wherever it is.
LEMMA ItemMoved ==
  ASSUME NEW item, NEW h \in Nat, NEW c \in Nat, Lengths(item, h, c),
         NEW v, ItemAt(v, 0, item), NEW w, NEW o \in Nat,
         \A i \in 1 .. ItemSize(item) : w[o + i] = v[i]
  PROVE  ItemAt(w, o, item)
<1>1. ItemSize(item) = 2 * h + c + 5
  BY DEF ItemSize, Lengths
<1> PICK z \in Nat : z = ItemSize(item) /\ z = 2 * h + c + 5
  BY <1>1
<1>2. z = 2 * h + c + 5 /\ z \in Nat
  OBVIOUS
<1>3. \A i \in 1 .. z : w[o + i] = v[i]
  OBVIOUS
<1>4. /\ v[1] = "dash" /\ v[2] = "boundary" /\ v[3] = "crlf"
      /\ \A i \in 1 .. h : v[2 * i + 2] = item.headers[i] /\ v[2 * i + 3] = "crlf"
      /\ v[2 * h + 4] = "crlf"
      /\ \A i \in 1 .. c : v[2 * h + 4 + i] = item.content[i]
      /\ v[z] = "crlf"
  <2>1. /\ v[0 + 1] = "dash" /\ v[0 + 2] = "boundary" /\ v[0 + 3] = "crlf"
        /\ \A i \in 1 .. h : v[0 + 2 * i + 2] = item.headers[i] /\ v[0 + 2 * i + 3] = "crlf"
        /\ v[0 + 2 * h + 4] = "crlf"
        /\ \A i \in 1 .. c : v[0 + 2 * h + 4 + i] = item.content[i]
        /\ v[0 + z] = "crlf"
    BY DEF ItemAt, Lengths
  <2>2. 0 + 1 = 1 /\ 0 + 2 = 2 /\ 0 + 3 = 3 /\ 0 + 2 * h + 4 = 2 * h + 4 /\ 0 + z = z
    BY <1>2
  <2>3. \A i \in 1 .. h : 0 + 2 * i + 2 = 2 * i + 2 /\ 0 + 2 * i + 3 = 2 * i + 3
    OBVIOUS
  <2>4. \A i \in 1 .. c : 0 + 2 * h + 4 + i = 2 * h + 4 + i
    OBVIOUS
  <2> QED
    BY <2>1, <2>2, <2>3, <2>4
<1>5. w[o + 1] = "dash" /\ w[o + 2] = "boundary" /\ w[o + 3] = "crlf" /\ w[o + z] = "crlf"
  <2>1. 1 \in 1 .. z /\ 2 \in 1 .. z /\ 3 \in 1 .. z /\ z \in 1 .. z
    BY <1>2
  <2> QED
    BY <1>3, <1>4, <2>1
<1>6. ASSUME NEW i \in 1 .. h PROVE w[o + 2 * i + 2] = item.headers[i] /\ w[o + 2 * i + 3] = "crlf"
  <2> PICK j, k : j = 2 * i + 2 /\ k = 2 * i + 3
    OBVIOUS
  <2>1. j \in 1 .. z /\ k \in 1 .. z /\ o + j = o + 2 * i + 2 /\ o + k = o + 2 * i + 3
    BY <1>2
  <2>2. w[o + j] = v[j] /\ w[o + k] = v[k]
    BY <1>3, <2>1
  <2> QED
    BY <1>4, <2>1, <2>2
<1>7. w[o + 2 * h + 4] = "crlf"
  <2> PICK j : j = 2 * h + 4
    OBVIOUS
  <2>1. j \in 1 .. z /\ o + j = o + 2 * h + 4
    BY <1>2
  <2> QED
    BY <1>3, <1>4, <2>1
<1>8. ASSUME NEW i \in 1 .. c PROVE w[o + 2 * h + 4 + i] = item.content[i]
  <2> PICK j : j = 2 * h + 4 + i
    OBVIOUS
  <2>1. j \in 1 .. z /\ o + j = o + 2 * h + 4 + i
    BY <1>2
  <2> QED
    BY <1>3, <1>4, <2>1
<1> QED
  BY <1>5, <1>6, <1>7, <1>8 DEF ItemAt, Lengths

\* The text w of a form and what follows it; off says where the items end.
Layout(w, items, epilogue, off) ==
  /\ IsSequence(w) /\ off[0] = 0
  /\ \A k \in 0 .. Len(items) : off[k] \in Nat /\ off[k] <= off[Len(items)]
  /\ \A k \in 1 .. Len(items) :
       off[k] = off[k - 1] + ItemSize(items[k]) /\ ItemAt(w, off[k - 1], items[k])
  /\ w[off[Len(items)] + 1] = "dash" /\ w[off[Len(items)] + 2] = "boundary"
  /\ w[off[Len(items)] + 3] = "dash" /\ w[off[Len(items)] + 4] = "crlf"
  /\ Len(w) = off[Len(items)] + 4 + Len(epilogue)
  /\ \A i \in 1 .. Len(epilogue) : w[off[Len(items)] + 4 + i] = epilogue[i]

\* The text of a form is laid out so.
LEMMA FormLayout ==
  ASSUME NEW items, IsSequence(items), \A i \in DOMAIN items : IsItem(items[i]),
         NEW epilogue, IsSequence(epilogue)
  PROVE  \E off : Layout(Serialized(items) \o epilogue, items, epilogue, off)
<1> DEFINE s == [i \in DOMAIN items |-> SerializedItem(items[i])]
<1>1. PICK n, f, l, x, w : /\ n = Len(items) /\ f = FlattenSeq(s) /\ l = <<"dash", "boundary", "dash", "crlf">>
                           /\ x = f \o l /\ w = x \o epilogue
  OBVIOUS
<1>2. w = Serialized(items) \o epilogue
  BY <1>1 DEF Serialized
<1>3. n \in Nat /\ DOMAIN items = 1 .. n /\ Len(epilogue) \in Nat
  BY <1>1, SequenceIs
<1>4. s = [i \in 1 .. n |-> s[i]] /\ \A i \in 1 .. n : s[i] = SerializedItem(items[i])
  BY <1>3
<1> HIDE DEF s
<1>5. IsSequence(s) /\ Len(s) = n
  BY <1>3, <1>4, SequenceOf
<1>6. \A i \in 1 .. n : /\ IsSequence(s[i]) /\ Len(s[i]) = ItemSize(items[i]) /\ ItemAt(s[i], 0, items[i])
                        /\ Len(items[i].headers) \in Nat /\ Len(items[i].content) \in Nat
  BY <1>3, <1>4, ItemText
<1>7. PICK off : off[0] = 0 /\ BlocksOf(s, f, n, off)
  BY <1>1, <1>5, <1>6, FlattenAny
<1>8. /\ IsSequence(f) /\ Len(f) = off[n]
      /\ \A i \in 1 .. n : /\ off[i - 1] \in Nat /\ off[i] = off[i - 1] + Len(s[i]) /\ off[i] <= off[n]
                           /\ \A j \in 1 .. Len(s[i]) : f[off[i - 1] + j] = s[i][j]
  BY <1>7 DEF BlocksOf
<1>9. IsSequence(l) /\ Len(l) = 4 /\ l[1] = "dash" /\ l[2] = "boundary" /\ l[3] = "dash" /\ l[4] = "crlf"
  BY <1>1, FourElements
<1>10. PICK z : z = off[n]
  OBVIOUS
<1>11. z \in Nat
  BY <1>8, <1>10, SequenceIs
<1>12. /\ IsSequence(x) /\ Len(x) = z + 4
       /\ \A i \in 1 .. z : x[i] = f[i]
       /\ x[z + 1] = "dash" /\ x[z + 2] = "boundary" /\ x[z + 3] = "dash" /\ x[z + 4] = "crlf"
  <2>1. IsSequence(f) /\ IsSequence(l)
    BY <1>8, <1>9
  <2>2. /\ IsSequence(f \o l) /\ Len(f \o l) = Len(f) + Len(l)
        /\ \A i \in 1 .. Len(f) : (f \o l)[i] = f[i]
        /\ \A i \in 1 .. Len(l) : (f \o l)[Len(f) + i] = l[i]
    BY <2>1, Concatenation
  <2>3. /\ IsSequence(x) /\ Len(x) = z + 4
        /\ \A i \in 1 .. z : x[i] = f[i]
        /\ \A i \in 1 .. 4 : x[z + i] = l[i]
    BY <1>1, <1>8, <1>9, <1>10, <2>2
  <2>4. 1 \in 1 .. 4 /\ 2 \in 1 .. 4 /\ 3 \in 1 .. 4 /\ 4 \in 1 .. 4
    OBVIOUS
  <2> QED
    BY <1>9, <2>3, <2>4
<1>13. /\ IsSequence(w) /\ Len(w) = z + 4 + Len(epilogue)
       /\ \A i \in 1 .. z + 4 : w[i] = x[i]
       /\ \A i \in 1 .. Len(epilogue) : w[z + 4 + i] = epilogue[i]
  <2>1. /\ IsSequence(x \o epilogue) /\ Len(x \o epilogue) = Len(x) + Len(epilogue)
        /\ \A i \in 1 .. Len(x) : (x \o epilogue)[i] = x[i]
        /\ \A i \in 1 .. Len(epilogue) : (x \o epilogue)[Len(x) + i] = epilogue[i]
    <3>1. IsSequence(x) /\ IsSequence(epilogue)
      BY <1>12
    <3> QED
      BY <3>1, Concatenation
  <2> QED
    BY <1>1, <1>12, <2>1
<1>14. w[z + 1] = "dash" /\ w[z + 2] = "boundary" /\ w[z + 3] = "dash" /\ w[z + 4] = "crlf"
  <2>1. z + 1 \in 1 .. z + 4 /\ z + 2 \in 1 .. z + 4 /\ z + 3 \in 1 .. z + 4 /\ z + 4 \in 1 .. z + 4
    BY <1>11
  <2> QED
    BY <1>12, <1>13, <2>1
<1>15. \A i \in 1 .. z : w[i] = f[i]
  <2>1. \A i \in 1 .. z : i \in 1 .. z + 4
    BY <1>11
  <2> QED
    BY <1>12, <1>13, <2>1
<1>16. ASSUME NEW k \in 0 .. n PROVE off[k] \in Nat /\ off[k] <= z
  <2>1. CASE k = 0
    BY <1>7, <1>11, <2>1
  <2>2. CASE k # 0
    <3>1. k \in 1 .. n
      BY <1>3, <2>2
    <3>2. off[k - 1] \in Nat /\ off[k] = off[k - 1] + Len(s[k]) /\ off[k] <= z /\ Len(s[k]) \in Nat
      BY <1>6, <1>8, <1>10, <3>1, SequenceIs
    <3> QED
      BY <3>2
  <2> QED
    BY <2>1, <2>2
<1>17. ASSUME NEW k \in 1 .. n PROVE off[k] = off[k - 1] + ItemSize(items[k]) /\ ItemAt(w, off[k - 1], items[k])
  <2>1. PICK o, v, item : o = off[k - 1] /\ v = s[k] /\ item = items[k]
    OBVIOUS
  <2>2. /\ o \in Nat /\ off[k] = o + ItemSize(item) /\ off[k] <= z
        /\ \A j \in 1 .. ItemSize(item) : f[o + j] = v[j]
    BY <1>6, <1>8, <1>10, <2>1
  <2>3. ItemSize(item) \in Nat
    BY <1>6, <2>1, SequenceIs
  <2>4. \A j \in 1 .. ItemSize(item) : o + j \in 1 .. z
    BY <1>11, <2>2, <2>3
  <2>5. \A j \in 1 .. ItemSize(item) : w[o + j] = v[j]
    BY <1>15, <2>2, <2>4
  <2>6. ItemAt(v, 0, item) /\ Len(item.headers) \in Nat /\ Len(item.content) \in Nat
    BY <1>6, <2>1
  <2>7. ItemAt(w, o, item)
    <3>1. PICK h \in Nat, c \in Nat : Lengths(item, h, c)
      BY <2>6 DEF Lengths
    <3> QED
      BY <2>2, <2>5, <2>6, <3>1, ItemMoved
  <2> QED
    BY <2>1, <2>2, <2>7
<1>18. Layout(w, items, epilogue, off)
  BY <1>1, <1>7, <1>10, <1>13, <1>14, <1>16, <1>17 DEF Layout
<1> QED
  BY <1>2, <1>18

(***************************************************************************)
(* Messages.                                                               *)
(***************************************************************************)
\* The parser's state and the kind of the message.
ParserOK ==
  /\ state_ \in 0 .. 4 /\ is_valid_ \in BOOLEAN /\ parsing \in {"at rest", "in parse", "failed"}
  /\ kind \in {"plain", "ranged", "form"}
  /\ kind # "ranged" => Fits

MessagesInv == MessageOK /\ ContentInv /\ ParserOK /\ RangedOK

\* A plain message is one that the writer and the reader are about.
LEMMA PlainMessage ==
  ASSUME PlainInit
  PROVE  MessageOK /\ Fits /\ RangedOK
<1>1. PICK framing \in {"length", "chunked", "close"}, content \in Contents, trailers \in 0 .. MaxTrailers :
        /\ receiver \in IF framing = "close" THEN {"client", "handle"} ELSE {"server", "client", "handle"}
        /\ message = Message(framing, content, IF framing = "length" THEN Len(content) ELSE 0, trailers)
  BY DEF PlainInit
<1>2. /\ message.framing = framing /\ message.content = content /\ message.trailers = trailers
      /\ message.length = IF framing = "length" THEN Len(content) ELSE 0
  BY <1>1 DEF Message
<1>3. IsSequence(content) /\ Len(content) \in Nat /\ (Len(content) = 0 => content = <<>>) /\ trailers \in Nat
  <2>1. IsSequence(content) /\ MaxTrailers \in Nat
    BY MessagesAssumption
  <2> QED
    BY <2>1, SequenceIs, EmptySequence
<1>4. MessageOK
  BY <1>1, <1>2, <1>3 DEF MessageOK
<1>5. Fits
  BY <1>2 DEF Fits
<1>6. kind = "plain"
  BY DEF PlainInit
<1> QED
  BY <1>4, <1>5, <1>6 DEF RangedOK

\* And so is a form.
LEMMA FormMessage ==
  ASSUME FormInit
  PROVE  MessageOK /\ Fits /\ RangedOK
<1>1. PICK text : text = Serialized(asked) \o options /\ message = Message("length", text, Len(text), 0)
  BY DEF FormInit
<1>2. asked \in Items /\ options \in Epilogues /\ receiver = "server" /\ kind = "form"
  BY DEF FormInit
<1>3. IsSequence(text)
  <2>1. PICK off : Layout(text, asked, options, off)
    BY <1>1, <1>2, MessagesAssumption, FormLayout
  <2> QED
    BY <2>1 DEF Layout
<1>4. Len(text) \in Nat /\ (Len(text) = 0 => text = <<>>)
  BY <1>3, SequenceIs, EmptySequence
<1>5. /\ message.framing = "length" /\ message.content = text /\ message.length = Len(text)
      /\ message.trailers = 0
  BY <1>1 DEF Message
<1> QED
  BY <1>2, <1>3, <1>4, <1>5 DEF MessageOK, Fits, RangedOK

\* Before anything is written nothing is read.
LEMMA ContentInvInit ==
  ASSUME MessageOK, ContentInit
  PROVE  ContentInv
<1>1. /\ IsSequence(wire) /\ Len(wire) = 0 /\ IsSequence(body) /\ Len(body) = 0 /\ wire = <<>> /\ body = <<>>
      /\ writer = "head" /\ offset = 0 /\ reader = "head" /\ rest = 0 /\ result = "none"
  BY EmptySequence DEF ContentInit
<1>2. Len(message.content) \in Nat
  BY SequenceIs DEF MessageOK
<1>3. PlacesInv
  BY <1>1, <1>2 DEF PlacesInv
<1>4. BodyInv
  <2>1. 1 .. 0 = {} /\ 0 <= Len(message.content)
    BY <1>2
  <2> QED
    BY <1>1, <2>1 DEF BodyInv
<1>5. PlainInv
  <2>1. WrittenTotal = 0
    BY <1>1 DEF WrittenTotal
  <2>2. WireFrom(0)
    <3>1. 1 .. 0 = {} /\ 0 + 0 = 0
      OBVIOUS
    <3> QED
      BY <1>1, <2>1, <3>1 DEF WireFrom
  <2>3. ReaderAt(0)
    BY <1>1 DEF ReaderAt
  <2>4. 0 \in Nat
    OBVIOUS
  <2> QED
    BY <2>2, <2>3, <2>4 DEF PlainInv
<1>6. ChunkedInv
  <2>1. PICK at, pos : at = [i \in 0 .. 0 |-> "head"] /\ pos = [i \in 0 .. 0 |-> 0]
    OBVIOUS
  <2>2. at[0] = "head" /\ pos[0] = 0
    BY <2>1
  <2>3. 1 .. 0 = {} /\ \A i \in 0 .. 0 : i = 0
    OBVIOUS
  <2>4. Run(at, pos, pos, wire)
    BY <1>1, <1>2, <2>2, <2>3 DEF Run
  <2>5. EndsAt(at[Len(wire)], pos[Len(wire)])
    BY <1>1, <2>2 DEF EndsAt
  <2> QED
    BY <1>1, <2>2, <2>4, <2>5 DEF ChunkedInv
<1> QED
  BY <1>3, <1>4, <1>5, <1>6 DEF ContentInv

\* The invariant holds at first.
LEMMA MessagesInvInit ==
  ASSUME MessagesInit
  PROVE  MessagesInv
<1>1. MessageOK /\ RangedOK /\ kind \in {"plain", "ranged", "form"} /\ (kind # "ranged" => Fits)
  <2>1. CASE PlainInit
    BY <2>1, PlainMessage DEF PlainInit
  <2>2. CASE RangedInit
    BY <2>2, RangedMessage DEF RangedInit
  <2>3. CASE FormInit
    BY <2>3, FormMessage DEF FormInit
  <2> QED
    BY <2>1, <2>2, <2>3 DEF MessagesInit
<1>2. ContentInv
  BY <1>1, ContentInvInit DEF MessagesInit
<1>3. ParserOK
  <2>1. state_ = 0 /\ is_valid_ = FALSE /\ parsing = "at rest"
    BY DEF MessagesInit, FormsInit
  <2>2. is_valid_ \in BOOLEAN
    BY <2>1, Zenon
  <2>3. state_ \in 0 .. 4
    <3>1. state_ = 0
      BY <2>1
    <3>2. 0 \in 0 .. 4
      OBVIOUS
    <3> QED
      BY <3>1, <3>2
  <2> QED
    BY <1>1, <2>1, <2>2, <2>3 DEF ParserOK
<1> QED
  BY <1>1, <1>2, <1>3 DEF MessagesInv

\* No step changes the message, its reader or what it is made of.
LEMMA MessageStays ==
  ASSUME [MessagesNext]_messagesVars
  PROVE  UNCHANGED <<message, receiver, limit, kind, asked, options>>
<1>1. CASE WritesContent
  <2>1. UNCHANGED <<message, receiver, limit>>
    BY <1>1 DEF WritesContent, ContentWriter, WriteHead, ProviderWrites, NothingToWrite,
                ProviderWritesNothing, ProviderDone, ProviderFails, Close, WriteNext, Write
  <2> QED
    BY <1>1, <2>1 DEF WritesContent, requestVars
<1>2. CASE ReadsContent
  <2>1. UNCHANGED <<message, receiver, limit>>
    BY <1>2 DEF ReadsContent, ContentReader, ReadHead, ReadLength, Skip, ReadUntilClose, ReadSize,
                ReadChunk, ReadChunkEnd, ReadTrailers, ReadEndOfFile, Read
  <2> QED
    BY <1>2, <2>1 DEF ReadsContent, requestVars
<1>3. CASE Parses
  BY <1>3 DEF Parses, contentVars, requestVars
<1>4. CASE ParseFails
  BY <1>4 DEF ParseFails, requestVars
<1>5. CASE UNCHANGED messagesVars
  BY <1>5 DEF messagesVars, contentVars, requestVars
<1> QED
  BY <1>1, <1>2, <1>3, <1>4, <1>5 DEF MessagesNext

\* The content between writer and reader, step by step.
LEMMA ContentInvNext ==
  ASSUME MessageOK, ContentInv, [MessagesNext]_messagesVars
  PROVE  ContentInv'
<1>1. CASE WritesContent
  <2>1. CASE WriteHead
    BY <2>1, WriteHeadKeeps
  <2>2. CASE ProviderWrites
    BY <2>2, ProviderWritesKeeps
  <2>3. CASE NothingToWrite
    <3>1. /\ writer = "content" /\ writer' = "ended" /\ message.framing = "length" /\ message.content = <<>>
          /\ UNCHANGED <<offset, message, receiver, limit, wire, readerVars>>
      BY <2>3 DEF NothingToWrite
    <3>2. offset = Len(message.content)
      <4>1. offset \in 0 .. Len(message.content) /\ Len(message.content) = 0
        BY <3>1, EmptySequence DEF ContentInv, PlacesInv
      <4> QED
        BY <4>1
    <3>3. message.framing # "chunked"
      BY <3>1
    <3> QED
      BY <3>1, <3>2, <3>3, WriterStopsKeeps
  <2>4. CASE ProviderWritesNothing
    <3>1. /\ writer = "content" /\ writer' = "cut"
          /\ UNCHANGED <<offset, message, receiver, limit, wire, readerVars>>
      BY <2>4 DEF ProviderWritesNothing
    <3> QED
      BY <3>1, WriterStopsKeeps
  <2>5. CASE ProviderDone
    BY <2>5, ProviderDoneKeeps
  <2>6. CASE ProviderFails
    <3>1. /\ writer = "content" /\ writer' = "failed"
          /\ UNCHANGED <<offset, message, receiver, limit, wire, readerVars>>
      BY <2>6 DEF ProviderFails
    <3> QED
      BY <3>1, WriterStopsKeeps
  <2>7. CASE Close
    <3>1. /\ writer \in {"ended", "cut", "failed"} /\ writer' = "closed"
          /\ UNCHANGED <<offset, message, receiver, limit, wire, readerVars>>
      BY <2>7 DEF Close
    <3> QED
      BY <3>1, WriterStopsKeeps
  <2>8. CASE WriteNext
    BY <2>8, WriteNextKeeps
  <2> QED
    BY <1>1, <2>1, <2>2, <2>3, <2>4, <2>5, <2>6, <2>7, <2>8 DEF WritesContent, ContentWriter
<1>2. CASE ReadsContent
  <2>1. CASE ReadHead
    BY <2>1, ReadHeadKeeps
  <2>2. CASE ReadLength
    BY <2>2, ReadLengthKeeps
  <2>3. CASE Skip
    BY <2>3, SkipKeeps
  <2>4. CASE ReadUntilClose
    BY <2>4, ReadUntilCloseKeeps
  <2>5. CASE ReadSize
    BY <2>5, ReadSizeKeeps
  <2>6. CASE ReadChunk
    BY <2>6, ReadChunkKeeps
  <2>7. CASE ReadChunkEnd
    BY <2>7, ReadChunkEndKeeps
  <2>8. CASE ReadTrailers
    BY <2>8, ReadTrailersKeeps
  <2>9. CASE ReadEndOfFile
    BY <2>9, ReadEndOfFileKeeps
  <2> QED
    BY <1>2, <2>1, <2>2, <2>3, <2>4, <2>5, <2>6, <2>7, <2>8, <2>9 DEF ReadsContent, ContentReader
<1>3. CASE ParseFails
  <2>1. ReaderEnds("error") /\ UNCHANGED <<message, receiver, limit, writerVars, wire>>
    BY <1>3 DEF ParseFails
  <2> QED
    BY <2>1, ReaderEndsKeeps
<1>4. CASE Parses \/ UNCHANGED messagesVars
  <2>1. /\ UNCHANGED <<message, receiver, limit, wire, writer, offset, reader, rest, body, result>>
    BY <1>4 DEF Parses, messagesVars, contentVars, writerVars, readerVars
  <2>2. PlacesInv'
    BY <2>1 DEF ContentInv, PlacesInv
  <2>3. BodyInv'
    BY <2>1 DEF ContentInv, BodyInv, Fits
  <2>4. PlainInv'
    <3> SUFFICES ASSUME message.framing # "chunked", Fits
                 PROVE  \E r \in Nat : WireFrom(r)' /\ ReaderAt(r)'
      BY <2>1 DEF PlainInv, Fits
    <3>1. PICK r \in Nat : WireFrom(r) /\ ReaderAt(r)
      BY DEF ContentInv, PlainInv
    <3>2. WireFrom(r)'
      BY <2>1, <3>1 DEF WireFrom, WrittenTotal, Streamed
    <3>3. ReaderAt(r)'
      BY <2>1, <3>1 DEF ReaderAt
    <3> QED
      BY <3>2, <3>3
  <2>5. ChunkedInv'
    <3> SUFFICES ASSUME message.framing = "chunked", Tracked
                 PROVE  ChunkedInv'
      BY <2>1 DEF ChunkedInv, Tracked
    <3>1. PICK at, pos, rem : /\ Run(at, pos, rem, wire)
                              /\ at[0] = reader /\ pos[0] = Len(body)
                              /\ reader = "chunk" => rem[0] = rest /\ rest > 0
                              /\ EndsAt(at[Len(wire)], pos[Len(wire)])
      BY DEF ContentInv, ChunkedInv
    <3>2. Run(at, pos, rem, wire)'
      <4>1. Run(at, pos, rem, wire')
        BY <2>1, <3>1
      <4> QED
        BY <2>1, <4>1, RunStays
    <3>3. EndsAt(at[Len(wire)], pos[Len(wire)])'
      BY <2>1, <3>1 DEF EndsAt
    <3> QED
      BY <2>1, <3>1, <3>2, <3>3 DEF ChunkedInv
  <2> QED
    BY <2>2, <2>3, <2>4, <2>5 DEF ContentInv
<1> QED
  BY <1>1, <1>2, <1>3, <1>4 DEF MessagesNext

\* Every step keeps the invariant.
LEMMA MessagesInvNext ==
  ASSUME MessagesInv, [MessagesNext]_messagesVars
  PROVE  MessagesInv'
<1>1. UNCHANGED <<message, receiver, limit, kind, asked, options>>
  BY MessageStays
<1>2. MessageOK'
  BY <1>1 DEF MessagesInv, MessageOK
<1>3. ContentInv'
  BY ContentInvNext DEF MessagesInv
<1>4. RangedOK'
  <2>1. MayBeRefused' = MayBeRefused /\ AskedBytes' = AskedBytes
    BY <1>1 DEF MayBeRefused, AskedBytes
  <2>2. RangedOK
    BY DEF MessagesInv
  <2>3. PartsRight(message.content)' = PartsRight(message.content) /\ BytesOf(message.content)' = BytesOf(message.content)
    BY <1>1 DEF PartsRight, PartsOf, BytesOf
  <2> QED
    BY <1>1, <2>1, <2>2, <2>3 DEF RangedOK
<1>5. ParserOK'
  <2> DEFINE typed == state_ \in 0 .. 4 /\ is_valid_ \in BOOLEAN /\ parsing \in {"at rest", "in parse", "failed"}
  <2>1. typed'
    <3>1. typed
      BY DEF MessagesInv, ParserOK
    <3>2. ASSUME UNCHANGED formVars PROVE typed'
      BY <3>1, <3>2 DEF formVars
    <3>3. ASSUME NEW piece, Parse(piece) PROVE typed'
      <4>1. state_' = state_ /\ is_valid_' = is_valid_ /\ parsing' \in {"at rest", "in parse"}
        BY <3>3 DEF Parse
      <4> QED
        BY <3>1, <4>1
    <3>4. ASSUME ParserTurn PROVE typed'
      <4>1. ASSUME NEW q \in 0 .. 4, Turn(q) PROVE parsing' \in {"at rest", "in parse"}
        BY <4>1 DEF Turn
      <4>2. ASSUME NEW q \in 0 .. 4, NeedMore(q) PROVE typed'
        BY <3>1, <4>2 DEF NeedMore
      <4>3. ASSUME Reject PROVE typed'
        <5>1. state_' = state_ /\ is_valid_' = FALSE /\ parsing' = "failed"
          BY <4>3 DEF Reject
        <5>2. is_valid_' \in BOOLEAN
          BY <5>1, Zenon
        <5> QED
          BY <3>1, <5>1, <5>2
      <4>4. 0 \in 0 .. 4 /\ 1 \in 0 .. 4 /\ 2 \in 0 .. 4 /\ 3 \in 0 .. 4 /\ 4 \in 0 .. 4
        OBVIOUS
      <4>5. CASE InitialBoundary
        <5>1. NeedMore(0) \/ (Turn(0) /\ state_' = 1 /\ is_valid_' = is_valid_)
          BY <4>5 DEF InitialBoundary
        <5> QED
          BY <3>1, <4>1, <4>2, <4>4, <5>1
      <4>6. CASE NewEntry
        <5>1. Turn(1) /\ state_' = 2 /\ is_valid_' = is_valid_
          BY <4>6 DEF NewEntry
        <5> QED
          BY <3>1, <4>1, <4>4, <5>1
      <4>7. CASE Headers
        <5>1. \/ NeedMore(2) \/ Reject
              \/ Turn(2) /\ state_' \in {state_, 3} /\ is_valid_' = is_valid_
          BY <4>7 DEF Headers, ParseHeader, EndOfHeaders, RejectHeader
        <5> QED
          BY <3>1, <4>1, <4>2, <4>3, <4>4, <5>1
      <4>8. CASE Body
        <5>1. \/ Turn(3) /\ state_' = 4 /\ is_valid_' = is_valid_
              \/ parsing' = "at rest" /\ state_' = state_ /\ is_valid_' = is_valid_
          BY <4>8 DEF Body, EndOfBody, PartOfBody
        <5> QED
          BY <3>1, <4>1, <4>4, <5>1
      <4>9. CASE Boundary
        <5>1. \/ NeedMore(4)
              \/ Turn(4) /\ state_' = 1 /\ is_valid_' = is_valid_
              \/ Turn(4) /\ state_' = state_ /\ is_valid_' = TRUE
          BY <4>9 DEF Boundary
        <5>2. TRUE \in BOOLEAN
          OBVIOUS
        <5>3. is_valid_' = TRUE => is_valid_' \in BOOLEAN
          BY Zenon
        <5> QED
          BY <3>1, <4>1, <4>2, <4>4, <5>1, <5>3
      <4> QED
        BY <3>4, <4>5, <4>6, <4>7, <4>8, <4>9 DEF ParserTurn
    <3>5. \/ UNCHANGED formVars \/ (\E piece : Parse(piece)) \/ ParserTurn
      <4>1. ReadsContent => UNCHANGED formVars \/ \E piece : Parse(piece)
        BY DEF ReadsContent
      <4>2. WritesContent => UNCHANGED formVars
        BY DEF WritesContent
      <4>3. Parses => ParserTurn
        BY DEF Parses
      <4>4. ParseFails => UNCHANGED formVars
        BY DEF ParseFails
      <4>5. UNCHANGED messagesVars => UNCHANGED formVars
        BY DEF messagesVars
      <4> QED
        BY <4>1, <4>2, <4>3, <4>4, <4>5 DEF MessagesNext
    <3> HIDE DEF typed
    <3> QED
      BY <3>2, <3>3, <3>4, <3>5
  <2> QED
    BY <1>1, <2>1 DEF MessagesInv, ParserOK, Fits
<1> QED
  BY <1>2, <1>3, <1>4, <1>5 DEF MessagesInv

\* What the reader leaves on the wire.
LEMMA LeavesNext ==
  ASSUME MessagesInv
  PROVE  LeavesNextMessage
<1> DEFINE Ended == /\ result \in {"success", "too large"} /\ receiver # "handle" /\ message.framing # "close"
                    /\ ~(result = "too large" /\ message.framing = "chunked") /\ Fits
<1> SUFFICES ASSUME Ended PROVE wire \in {<<>>, <<Line("next")>>}
  <2>1. result \in {"none", "success", "error", "too large"}
    BY DEF MessagesInv, ContentInv, PlacesInv
  <2> QED
    BY <2>1 DEF LeavesNextMessage, Fits
<1> HIDE DEF Ended
<1>1. /\ MessageOK /\ PlacesInv /\ PlainInv /\ ChunkedInv
  BY DEF MessagesInv, ContentInv
<1>2. IsSequence(wire) /\ Len(wire) \in Nat
  BY <1>1, SequenceIs DEF PlacesInv
<1>3. SUFFICES Len(wire) <= 1 /\ (Len(wire) = 1 => wire[1] = Line("next"))
  <2>1. CASE Len(wire) = 0
    BY <1>2, <2>1, EmptySequence
  <2>2. CASE Len(wire) # 0
    <3>1. Len(wire) = 1 /\ wire[1] = Line("next")
      <4>1. Len(wire) <= 1 /\ Len(wire) # 0
        BY <1>3, <2>2
      <4>2. Len(wire) = 1
        <5>1. \A n \in Nat : n <= 1 /\ n # 0 => n = 1
          OBVIOUS
        <5> QED
          BY <1>2, <4>1, <5>1, Zenon
      <4> QED
        BY <1>3, <4>2
    <3>2. PICK v : v = <<Line("next")>>
      OBVIOUS
    <3>3. IsSequence(v) /\ Len(v) = 1 /\ v[1] = Line("next")
      BY <3>2, OneElement
    <3>4. \A i \in 1 .. 1 : i = 1
      OBVIOUS
    <3>5. wire = v
      BY <1>2, <3>1, <3>3, <3>4, SequencesEqual
    <3> QED
      BY <3>2, <3>5
  <2> QED
    BY <2>1, <2>2
<1>4. CASE message.framing # "chunked"
  <2>1. PICK r \in Nat : WireFrom(r) /\ ReaderAt(r)
    BY <1>1, <1>4 DEF PlainInv, Ended
  <2>2. message.framing = "length"
    BY <1>1, <1>4 DEF MessageOK, Ended
  <2>3. CASE wire = <<>>
    <3>1. Len(wire) = 0
      BY <2>3, EmptySequence
    <3> QED
      BY <3>1
  <2>4. CASE wire # <<>>
    <3>1. PICK l \in Nat : l = Len(message.content)
      BY <1>1, SequenceIs DEF MessageOK
    <3>2. r = 1 + l
      BY <2>1, <2>2, <2>4, <3>1 DEF ReaderAt, Ended
    <3>3. offset \in 0 .. l
      BY <1>1, <3>1 DEF PlacesInv
    <3>4. r + Len(wire) = WrittenTotal /\ \A i \in 1 .. Len(wire) : wire[i] = Streamed(r + i)
      BY <2>1 DEF WireFrom
    <3>5. WrittenTotal <= l + 2
      BY <3>3 DEF WrittenTotal
    <3>6. Len(wire) <= 1
      <4>1. WrittenTotal \in Int
        BY <3>3 DEF WrittenTotal
      <4> QED
        BY <1>2, <3>2, <3>4, <3>5, <4>1
    <3>7. Len(wire) = 1 => wire[1] = Streamed(l + 2)
      <4>1. 1 \in 1 .. 1 /\ r + 1 = l + 2
        BY <3>2
      <4> QED
        BY <3>4, <4>1
    <3>8. Streamed(l + 2) = Line("next")
      <4>1. l + 2 # 1
        OBVIOUS
      <4> QED
        BY <3>1, <4>1 DEF Streamed
    <3> QED
      BY <3>6, <3>7, <3>8
  <2> QED
    BY <2>3, <2>4
<1>5. CASE message.framing = "chunked"
  <2>1. result = "success" /\ reader = "done" /\ Tracked
    BY <1>1, <1>5 DEF PlacesInv, Tracked, Ended
  <2>2. PICK at, pos, rem : Run(at, pos, rem, wire) /\ at[0] = reader
    BY <1>1, <1>5, <2>1 DEF ChunkedInv
  <2>3. ASSUME Len(wire) >= 1 PROVE wire[1] = Line("next") /\ at[1] = "next"
    <3>1. 1 \in 1 .. Len(wire) /\ 1 - 1 = 0
      BY <1>2, <2>3
    <3>2. ChunkStep(wire[1], at[0], pos[0], rem[0], at[1], pos[1], rem[1])
      BY <2>2, <3>1 DEF Run
    <3> QED
      BY <2>1, <2>2, <3>2 DEF ChunkStep
  <2>4. ASSUME Len(wire) >= 2 PROVE FALSE
    <3>1. 2 \in 1 .. Len(wire) /\ 2 - 1 = 1 /\ Len(wire) >= 1
      BY <1>2, <2>4
    <3>2. ChunkStep(wire[2], at[1], pos[1], rem[1], at[2], pos[2], rem[2])
      BY <2>2, <3>1 DEF Run
    <3>3. at[1] = "next"
      BY <2>3, <3>1
    <3> QED
      BY <3>2, <3>3 DEF ChunkStep
  <2>5. Len(wire) <= 1
    BY <1>2, <2>4
  <2>6. Len(wire) = 1 => wire[1] = Line("next")
    <3>1. Len(wire) = 1 => Len(wire) >= 1
      OBVIOUS
    <3> QED
      BY <2>3, <3>1
  <2> QED
    BY <2>5, <2>6
<1> QED
  BY <1>4, <1>5

\* What has been handed over is a beginning of the content.
LEMMA BodyIs ==
  ASSUME MessagesInv, Fits
  PROVE  /\ IsPrefix(body, message.content)
         /\ result = "success" /\ message.framing # "close" => body = message.content
<1>1. IsSequence(body) /\ IsSequence(message.content)
  BY DEF MessagesInv, MessageOK, ContentInv, PlacesInv
<1>2. /\ Len(body) <= Len(message.content)
      /\ \A i \in 1 .. Len(body) : body[i] = message.content[i]
      /\ result = "success" /\ message.framing # "close" => Len(body) = Len(message.content)
  BY DEF MessagesInv, ContentInv, BodyInv
<1>3. Len(body) \in Nat /\ Len(message.content) \in Nat
  BY <1>1, SequenceIs
<1>4. PICK v, w : v = SubSeq(body, 1, Len(body)) /\ w = SubSeq(message.content, 1, Len(body))
  OBVIOUS
<1>5. 1 \in 1 .. Len(body) + 1 /\ 1 \in 1 .. Len(message.content) + 1
      /\ Len(body) \in 1 - 1 .. Len(body) /\ Len(body) \in 1 - 1 .. Len(message.content)
  BY <1>2, <1>3
<1>6. \A i \in 1 .. Len(body) - 1 + 1 : i \in 1 .. Len(body) /\ 1 + i - 1 = i
  BY <1>3
<1>7. IsSequence(v) /\ Len(v) = Len(body) - 1 + 1 /\ \A i \in 1 .. Len(body) - 1 + 1 : v[i] = body[1 + i - 1]
  BY <1>1, <1>4, <1>5, Subsequence
<1>8. IsSequence(w) /\ Len(w) = Len(body) - 1 + 1 /\ \A i \in 1 .. Len(body) - 1 + 1 : w[i] = message.content[1 + i - 1]
  BY <1>1, <1>4, <1>5, Subsequence
<1>9. \A i \in 1 .. Len(body) - 1 + 1 : v[i] = w[i]
  BY <1>2, <1>6, <1>7, <1>8
<1>10. v = w
  BY <1>7, <1>8, <1>9, SequencesEqual
<1>11. result = "success" /\ message.framing # "close" => body = message.content
  BY <1>1, <1>2, SequencesEqual
<1> QED
  BY <1>2, <1>4, <1>10, <1>11 DEF IsPrefix

\* The types.
LEMMA MessagesTyped ==
  ASSUME MessagesInv
  PROVE  MessagesTypeOK
<1>1. PlacesInv /\ MessageOK
  BY DEF MessagesInv, ContentInv
<1>2. ParserOK
  BY DEF MessagesInv
<1>3. /\ receiver \in {"server", "client", "handle"}
      /\ writer \in {"head", "content", "ended", "cut", "failed", "closed", "next"}
      /\ offset \in 0 .. Len(message.content)
      /\ reader \in {"head", "length", "skip", "until close", "size", "chunk", "trailers", "done"}
      /\ rest \in Nat
      /\ result \in {"none", "success", "error", "too large"}
  BY <1>1 DEF PlacesInv, MessageOK
<1> QED
  BY <1>2, <1>3, Zenon DEF MessagesTypeOK, ParserOK

\* In whatever pieces a body is written and read, what is handed over is a
\* beginning of it in its order, and all of it if the reader ends well and a
\* framing could tell; and the connection is left at the beginning of the next
\* message (httplib.h:5556, 5628, 7946, 10451, 10633).
THEOREM MessagesUntruncated == MessagesSpec => []Untruncated
<1>1. MessagesInit => MessagesInv
  BY MessagesInvInit
<1>2. MessagesInv /\ [MessagesNext]_messagesVars => MessagesInv'
  BY MessagesInvNext
<1>3. MessagesInv => Untruncated
  <2> SUFFICES ASSUME MessagesInv PROVE Untruncated
    OBVIOUS
  <2>1. MessagesTypeOK
    BY MessagesTyped
  <2>2. LeavesNextMessage
    BY LeavesNext
  <2>3. kind # "ranged" => IsPrefix(body, message.content)
    BY BodyIs DEF MessagesInv, ParserOK
  <2>4. result = "success" /\ message.framing # "close" /\ message.length \in {0, Len(message.content)}
          => body = message.content
    <3> SUFFICES ASSUME result = "success", message.framing # "close",
                        message.length \in {0, Len(message.content)}
                 PROVE  body = message.content
      OBVIOUS
    <3>1. Fits
      BY EmptySequence DEF Fits, MessagesInv, MessageOK
    <3> QED
      BY <3>1, BodyIs
  <2>5. (reader = "done") = (result # "none")
    BY DEF MessagesInv, ContentInv, PlacesInv
  <2> QED
    BY <2>1, <2>2, <2>3, <2>4, <2>5 DEF Untruncated
<1> QED
  BY <1>1, <1>2, <1>3, PTL DEF MessagesSpec

\* A response to a request for ranges announces its length, every part has the
\* bytes it says, and what the client gets are the bytes asked for and no other;
\* what can be served is (httplib.h:6724-6997, 9311).
THEOREM MessagesRangesServed == MessagesSpec => []RangesServed
<1>1. MessagesInit => MessagesInv
  BY MessagesInvInit
<1>2. MessagesInv /\ [MessagesNext]_messagesVars => MessagesInv'
  BY MessagesInvNext
<1>3. MessagesInv => RangesServed
  <2> SUFFICES ASSUME MessagesInv, kind = "ranged", options[2] = "provider" => options[1] # 200 \/ asked = <<>>
               PROVE  /\ message.length = Len(message.content)
                      /\ PartsRight(message.content)
                      /\ message.content = <<>> => MayBeRefused \/ Size_ = 0
                      /\ result = "success" /\ asked # <<>> /\ options[1] = -1 /\ body # <<>> =>
                           BytesOf(body) = AskedBytes
    BY DEF RangesServed, PartsRight, BytesOf
  <2>1. /\ message.framing = "length"
        /\ message.length = Len(message.content)
        /\ PartsRight(message.content)
        /\ message.content = <<>> => MayBeRefused \/ Size_ = 0
        /\ asked # <<>> /\ options[1] = -1 /\ message.content # <<>> => BytesOf(message.content) = AskedBytes
    BY DEF MessagesInv, RangedOK
  <2>2. Fits
    BY <2>1 DEF Fits
  <2>3. result = "success" => body = message.content
    BY <2>1, <2>2, BodyIs
  <2> QED
    BY <2>1, <2>3
<1> QED
  BY <1>1, <1>2, <1>3, PTL DEF MessagesSpec

(***************************************************************************)
(* The parser's buffer.                                                    *)
(***************************************************************************)
\* The text is in the buffer, after its first i tokens.
Occurs(text, i) ==
  i \in Nat /\ i + Len(text) <= Len(buf_) /\ \A j \in 1 .. Len(text) : buf_[i + j] = text[j]

\* Find finds the first occurrence.
FindsFirst(text) ==
  /\ Find(text) \in 0 .. Len(buf_)
  /\ Found(text) => Occurs(text, Find(text))
  /\ \A i : Occurs(text, i) => Found(text) /\ Find(text) <= i

\* buf_find does that.
LEMMA FindIs ==
  ASSUME IsSequence(buf_), NEW text, IsSequence(text), Len(text) > 0
  PROVE  FindsFirst(text)
<1>1. PICK n \in Nat, m \in Nat : n = Len(buf_) /\ m = Len(text)
  BY SequenceIs
<1>2. m > 0
  BY <1>1
<1> DEFINE O == {i \in 0 .. Len(buf_) - Len(text) : SubSeq(buf_, i + 1, i + Len(text)) = text}
           S == {Len(buf_)} \cup O
<1>3. Find(text) = Min(S)
  BY DEF Find
<1>4. \A i : i \in O <=> Occurs(text, i)
  <2>1. ASSUME NEW i \in 0 .. n - m
        PROVE  SubSeq(buf_, i + 1, i + m) = text <=> \A j \in 1 .. m : buf_[i + j] = text[j]
    <3>1. PICK v : v = SubSeq(buf_, i + 1, i + m)
      OBVIOUS
    <3>2. IsSequence(v) /\ Len(v) = m /\ \A j \in 1 .. m : v[j] = buf_[i + j]
      <4>1. i + 1 \in 1 .. n + 1 /\ i + m \in (i + 1) - 1 .. n
        BY <1>2
      <4>2. /\ IsSequence(v) /\ Len(v) = (i + m) - (i + 1) + 1
            /\ \A j \in 1 .. (i + m) - (i + 1) + 1 : v[j] = buf_[(i + 1) + j - 1]
        BY <1>1, <3>1, <4>1, Subsequence
      <4>3. (i + m) - (i + 1) + 1 = m /\ \A j \in 1 .. m : (i + 1) + j - 1 = i + j
        OBVIOUS
      <4> QED
        BY <4>2, <4>3
    <3>3. v = text <=> \A j \in 1 .. m : v[j] = text[j]
      <4>1. (\A j \in 1 .. m : v[j] = text[j]) => v = text
        BY <1>1, <3>2, SequencesEqual
      <4> QED
        BY <4>1
    <3> QED
      BY <3>1, <3>2, <3>3
  <2>2. \A i : i \in 0 .. n - m <=> i \in Nat /\ i + m <= n
    OBVIOUS
  <2> QED
    BY <1>1, <2>1, <2>2 DEF Occurs
<1> HIDE DEF O
<1>5. O \subseteq 0 .. n - m
  <2>1. \A i : Occurs(text, i) => i \in Nat /\ i + m <= n
    BY <1>1 DEF Occurs
  <2> QED
    BY <1>4, <2>1
<1>6. \A i \in O : i < n /\ i \in 0 .. n
  BY <1>2, <1>5
<1>7. S \subseteq Nat /\ S # {}
  <2>1. \A i \in O : i \in Nat
    BY <1>5
  <2>2. Len(buf_) \in Nat
    BY <1>1
  <2> QED
    BY <2>1, <2>2
<1>8. PICK x \in S : \A y \in S : x <= y
  BY <1>7, LeastNatural
<1>9. Min(S) \in S /\ \A y \in S : Min(S) <= y
  BY <1>8 DEF Min
<1>10. PICK f : f = Find(text)
  OBVIOUS
<1>11. /\ f = n \/ f \in O
       /\ f <= n /\ \A y \in O : f <= y
  BY <1>1, <1>3, <1>9, <1>10
<1>12. f \in 0 .. n
  <2>1. n \in 0 .. n
    OBVIOUS
  <2> QED
    BY <1>6, <1>11, <2>1
<1>13. Found(text) <=> f < n
  BY <1>1, <1>10 DEF Found
<1>14. f < n => f \in O
  BY <1>11
<1>15. \A i \in O : f < n
  BY <1>6, <1>11, <1>12
<1> QED
  BY <1>1, <1>4, <1>10, <1>11, <1>12, <1>13, <1>14, <1>15 DEF FindsFirst

\* The texts that are looked for.
LEMMA CrlfFound ==
  ASSUME IsSequence(buf_)
  PROVE  /\ Find(crlf_) \in 0 .. Len(buf_)
         /\ Found(crlf_) => Find(crlf_) + 1 <= Len(buf_) /\ buf_[Find(crlf_) + 1] = "crlf"
         /\ \A i \in 1 .. Len(buf_) : buf_[i] = "crlf" => Found(crlf_) /\ Find(crlf_) <= i - 1
<1>1. IsSequence(crlf_) /\ Len(crlf_) = 1 /\ crlf_[1] = "crlf"
  BY OneElement DEF crlf_
<1>2. FindsFirst(crlf_)
  <2>1. Len(crlf_) > 0
    BY <1>1
  <2> QED
    BY <1>1, <2>1, FindIs
<1>3. \A j \in 1 .. 1 : j = 1
  OBVIOUS
<1>4. PICK f : f = Find(crlf_)
  OBVIOUS
<1>5. f \in 0 .. Len(buf_) /\ Len(buf_) \in Nat
  BY <1>2, <1>4, SequenceIs DEF FindsFirst
<1>6. ASSUME Found(crlf_) PROVE f + 1 <= Len(buf_) /\ buf_[f + 1] = "crlf"
  <2>1. f + 1 <= Len(buf_) /\ \A j \in 1 .. 1 : buf_[f + j] = crlf_[j]
    BY <1>1, <1>2, <1>4, <1>6 DEF FindsFirst, Occurs
  <2>2. 1 \in 1 .. 1
    OBVIOUS
  <2> QED
    BY <1>1, <2>1, <2>2
<1>7. ASSUME NEW i \in 1 .. Len(buf_), buf_[i] = "crlf"
      PROVE  Found(crlf_) /\ f <= i - 1
  <2>1. PICK k : k = i - 1
    OBVIOUS
  <2>2. k \in Nat /\ k + 1 <= Len(buf_) /\ k + 1 = i
    BY <1>5, <2>1
  <2>3. Occurs(crlf_, k)
    BY <1>1, <1>3, <1>7, <2>2 DEF Occurs
  <2> QED
    BY <1>2, <1>4, <2>1, <2>3 DEF FindsFirst
<1> QED
  BY <1>4, <1>5, <1>6, <1>7

\* The same of a text of three tokens.
LEMMA ThreeFound ==
  ASSUME IsSequence(buf_), NEW a, NEW b, NEW c, NEW text, text = <<a, b, c>>
  PROVE  /\ Find(text) \in 0 .. Len(buf_)
         /\ Found(text) => /\ Find(text) + 3 <= Len(buf_) /\ buf_[Find(text) + 1] = a
                           /\ buf_[Find(text) + 2] = b /\ buf_[Find(text) + 3] = c
         /\ \A i \in Nat : i + 3 <= Len(buf_) /\ buf_[i + 1] = a /\ buf_[i + 2] = b /\ buf_[i + 3] = c
              => Found(text) /\ Find(text) <= i
<1>1. IsSequence(text) /\ Len(text) = 3 /\ text[1] = a /\ text[2] = b /\ text[3] = c
  BY ThreeElements
<1>2. FindsFirst(text)
  <2>1. Len(text) > 0
    BY <1>1
  <2> QED
    BY <1>1, <2>1, FindIs
<1>3. \A j \in 1 .. 3 : j = 1 \/ j = 2 \/ j = 3
  OBVIOUS
<1>4. 1 \in 1 .. 3 /\ 2 \in 1 .. 3 /\ 3 \in 1 .. 3
  OBVIOUS
<1>5. PICK f : f = Find(text)
  OBVIOUS
<1>6. f \in 0 .. Len(buf_) /\ Len(buf_) \in Nat
  BY <1>2, <1>5, SequenceIs DEF FindsFirst
<1>7. ASSUME Found(text) PROVE f + 3 <= Len(buf_) /\ buf_[f + 1] = a /\ buf_[f + 2] = b /\ buf_[f + 3] = c
  <2>1. f + 3 <= Len(buf_) /\ \A j \in 1 .. 3 : buf_[f + j] = text[j]
    BY <1>1, <1>2, <1>5, <1>7 DEF FindsFirst, Occurs
  <2> QED
    BY <1>1, <1>4, <2>1
<1>8. ASSUME NEW i \in Nat, i + 3 <= Len(buf_), buf_[i + 1] = a, buf_[i + 2] = b, buf_[i + 3] = c
      PROVE  Found(text) /\ f <= i
  <2>1. Occurs(text, i)
    BY <1>1, <1>3, <1>8 DEF Occurs
  <2> QED
    BY <1>2, <1>5, <2>1 DEF FindsFirst
<1> QED
  BY <1>5, <1>6, <1>7, <1>8

\* The buffer is what has been read of the text after its first p tokens.
BufferAt(p) ==
  /\ p \in Nat /\ Len(buf_) \in Nat /\ p + Len(buf_) = Len(body) /\ IsSequence(buf_)
  /\ \A i \in 1 .. Len(buf_) : buf_[i] = message.content[p + i]

\* What is erased has been consumed.
LEMMA ErasedAt ==
  ASSUME NEW p, BufferAt(p), NEW n \in 0 .. Len(buf_), Erase(n), body' = body, message' = message
  PROVE  BufferAt(p + n)'
<1>1. PICK l \in Nat : l = Len(buf_)
  BY DEF BufferAt
<1>2. p \in Nat /\ p + l = Len(body) /\ IsSequence(buf_) /\ \A i \in 1 .. l : buf_[i] = message.content[p + i]
  BY <1>1 DEF BufferAt
<1>3. n \in 0 .. l /\ n + 1 \in 1 .. l + 1 /\ l \in (n + 1) - 1 .. l
  BY <1>1
<1>4. /\ IsSequence(buf_') /\ Len(buf_') = l - (n + 1) + 1
      /\ \A i \in 1 .. l - (n + 1) + 1 : buf_'[i] = buf_[(n + 1) + i - 1]
  <2>1. buf_' = SubSeq(buf_, n + 1, l)
    BY <1>1 DEF Erase
  <2> QED
    BY <1>1, <1>2, <1>3, <2>1, Subsequence
<1>7. p \in Nat /\ n \in Nat /\ n <= l
  BY <1>2, <1>3
<1>5. l - (n + 1) + 1 = l - n /\ l - n \in Nat /\ p + n \in Nat /\ (p + n) + (l - n) = p + l
  BY <1>7
<1>6. ASSUME NEW i \in 1 .. l - n PROVE buf_'[i] = message.content[(p + n) + i]
  <2>1. PICK k : k = n + i
    OBVIOUS
  <2>2. k = (n + 1) + i - 1 /\ k \in 1 .. l /\ p + k = (p + n) + i
    BY <1>7, <2>1
  <2> QED
    BY <1>2, <1>4, <1>5, <2>2
<1> QED
  BY <1>2, <1>4, <1>5, <1>6 DEF BufferAt

(***************************************************************************)
(* The parser between the items.                                           *)
(***************************************************************************)
\* An item of the form: it begins after o tokens of the text, has h header
\* lines, and c tokens of content.
Place(off, k, o, h, c) ==
  /\ k \in 1 .. Len(asked) /\ o = off[k - 1] /\ Lengths(asked[k], h, c)

\* What the text has there, and that the boundary is not in the content.
Tokens(k, o, h, c) ==
  /\ o \in Nat /\ h \in Nat /\ c \in Nat /\ k \in 1 .. Len(asked) /\ Len(asked) \in Nat
  /\ message.content[o + 1] = "dash" /\ message.content[o + 2] = "boundary" /\ message.content[o + 3] = "crlf"
  /\ \A i \in 1 .. h : /\ message.content[o + 2 * i + 2] = asked[k].headers[i]
                       /\ message.content[o + 2 * i + 3] = "crlf"
                       /\ asked[k].headers[i] \in HeaderLines
  /\ message.content[o + 2 * h + 4] = "crlf"
  /\ \A i \in 1 .. c : message.content[o + 2 * h + 4 + i] = asked[k].content[i]
  /\ \A i \in 1 .. c - 2 :
       ~(asked[k].content[i] = "crlf" /\ asked[k].content[i + 1] = "dash" /\ asked[k].content[i + 2] = "boundary")
  /\ message.content[o + 2 * h + c + 5] = "crlf"
  /\ message.content[o + 2 * h + c + 6] = "dash" /\ message.content[o + 2 * h + c + 7] = "boundary"
  /\ message.content[o + 2 * h + c + 8] = IF k = Len(asked) THEN "dash" ELSE "crlf"
  /\ o + 2 * h + c + 9 <= Len(message.content)

\* The text of the form that is sent.
IsForm(off) ==
  /\ IsSequence(asked) /\ \A i \in DOMAIN asked : IsItem(asked[i])
  /\ IsSequence(options)
  /\ Layout(message.content, asked, options, off)

\* An item has a place.
LEMMA PlaceExists ==
  ASSUME NEW off, IsForm(off), NEW k \in 1 .. Len(asked)
  PROVE  \E o, h, c \in Nat : Place(off, k, o, h, c) /\ off[k] = o + 2 * h + c + 5
<1>1. DOMAIN asked = 1 .. Len(asked) /\ Len(asked) \in Nat
  BY SequenceIs DEF IsForm
<1>2. Len(asked[k].headers) \in Nat /\ Len(asked[k].content) \in Nat
  <2>1. IsItem(asked[k])
    BY <1>1 DEF IsForm
  <2> QED
    BY <2>1, ItemText
<1>3. PICK h \in Nat, c \in Nat : Lengths(asked[k], h, c)
  BY <1>2 DEF Lengths
<1>4. k - 1 \in 0 .. Len(asked)
  BY <1>1
<1>5. off[k - 1] \in Nat /\ off[k] = off[k - 1] + ItemSize(asked[k])
  BY <1>4 DEF IsForm, Layout
<1>6. ItemSize(asked[k]) = 2 * h + c + 5
  BY <1>3 DEF ItemSize, Lengths
<1>7. PICK o \in Nat : o = off[k - 1]
  BY <1>5
<1>8. o + (2 * h + c + 5) = o + 2 * h + c + 5
  BY <1>7
<1>9. off[k] = o + 2 * h + c + 5
  BY <1>5, <1>6, <1>7, <1>8
<1>10. Place(off, k, o, h, c)
  BY <1>3, <1>7 DEF Place
<1> QED
  BY <1>9, <1>10

\* The tokens at the place of an item.
LEMMA TokensAt ==
  ASSUME NEW off, IsForm(off), NEW k, NEW o, NEW h, NEW c, Place(off, k, o, h, c)
  PROVE  Tokens(k, o, h, c) /\ off[k] = o + 2 * h + c + 5 /\ off[k] <= off[Len(asked)]
<1>1. k \in 1 .. Len(asked) /\ DOMAIN asked = 1 .. Len(asked) /\ Len(asked) \in Nat
  BY SequenceIs DEF IsForm, Place
<1>2. PICK n, item, w : n = Len(asked) /\ item = asked[k] /\ w = message.content
  OBVIOUS
<1>3. IsItem(item)
  BY <1>1, <1>2 DEF IsForm
<1>4. h \in Nat /\ c \in Nat /\ h = Len(item.headers) /\ c = Len(item.content)
  BY <1>2, <1>3, ItemText DEF Place, Lengths
<1>18. h \in Nat /\ c \in Nat
  BY <1>4
<1>5. /\ o \in Nat /\ o = off[k - 1] /\ off[k] \in Nat /\ off[k] <= off[n] /\ off[n] \in Nat
      /\ off[k] = o + ItemSize(item) /\ ItemAt(w, o, item)
  <2>1. k - 1 \in 0 .. n /\ k \in 0 .. n /\ n \in 0 .. n
    BY <1>1, <1>2
  <2> QED
    BY <1>1, <1>2, <2>1 DEF IsForm, Layout, Place
<1>19. o \in Nat /\ off[k] \in Nat /\ off[k] <= off[n] /\ off[n] \in Nat
  BY <1>5
<1>20. k \in 1 .. n /\ n \in Nat
  BY <1>1, <1>2
<1>6. ItemSize(item) = 2 * h + c + 5
  BY <1>4 DEF ItemSize
<1>7. /\ w[o + 1] = "dash" /\ w[o + 2] = "boundary" /\ w[o + 3] = "crlf"
      /\ \A i \in 1 .. h : w[o + 2 * i + 2] = item.headers[i] /\ w[o + 2 * i + 3] = "crlf"
      /\ w[o + 2 * h + 4] = "crlf"
      /\ \A i \in 1 .. c : w[o + 2 * h + 4 + i] = item.content[i]
      /\ w[o + (2 * h + c + 5)] = "crlf"
  BY <1>4, <1>5, <1>6 DEF ItemAt
<1>8. \A i \in 1 .. h : item.headers[i] \in HeaderLines
  BY <1>3, <1>4 DEF IsItem
<1>9. PICK z : z = off[k]
  OBVIOUS
<1>10. z \in Nat /\ z = o + 2 * h + c + 5
  <2>1. o + (2 * h + c + 5) = o + 2 * h + c + 5
    BY <1>18, <1>19
  <2> QED
    BY <1>5, <1>6, <1>9, <2>1
<1>11. w[o + 2 * h + c + 5] = "crlf"
  <2>1. o + (2 * h + c + 5) = o + 2 * h + c + 5
    BY <1>18, <1>19
  <2> QED
    BY <1>7, <2>1
<1>12. w[z + 1] = "dash" /\ w[z + 2] = "boundary" /\ w[z + 3] = IF k = n THEN "dash" ELSE "crlf"
  <2>1. CASE k = n
    BY <1>2, <1>9, <2>1 DEF IsForm, Layout
  <2>2. CASE k # n
    <3>1. PICK j : j = k + 1
      OBVIOUS
    <3>2. j \in 1 .. n /\ j - 1 = k
      BY <1>20, <2>2, <3>1
    <3>3. ItemAt(w, z, asked[j])
      BY <1>2, <1>9, <3>2 DEF IsForm, Layout
    <3> QED
      BY <2>2, <3>3 DEF ItemAt
  <2> QED
    BY <2>1, <2>2
<1>13. z + 1 = o + 2 * h + c + 6 /\ z + 2 = o + 2 * h + c + 7 /\ z + 3 = o + 2 * h + c + 8
       /\ z + 4 = o + 2 * h + c + 9
  BY <1>18, <1>19, <1>10
<1>14. z + 4 <= Len(w)
  <2>1. Len(w) = off[n] + 4 + Len(options) /\ Len(options) \in Nat
    BY <1>2, SequenceIs DEF IsForm, Layout
  <2> QED
    BY <1>5, <1>9, <2>1
<1>15. ASSUME NEW i \in 1 .. c - 2
       PROVE  ~(item.content[i] = "crlf" /\ item.content[i + 1] = "dash" /\ item.content[i + 2] = "boundary")
  <2>1. PICK s : s = item.content
    OBVIOUS
  <2>2. IsSequence(s) /\ Len(s) = c /\ SubSeq(s, i, i + 2) # crlf_dash_boundary_
    BY <1>3, <1>4, <2>1 DEF IsItem
  <2>3. PICK v, b : v = SubSeq(s, i, i + 2) /\ b = crlf_dash_boundary_
    OBVIOUS
  <2>4. i \in 1 .. c + 1 /\ i + 2 \in i - 1 .. c /\ (i + 2) - i + 1 = 3
    BY <1>4
  <2>5. IsSequence(v) /\ Len(v) = 3 /\ \A j \in 1 .. 3 : v[j] = s[i + j - 1]
    <3>1. /\ IsSequence(v) /\ Len(v) = (i + 2) - i + 1
          /\ \A j \in 1 .. (i + 2) - i + 1 : v[j] = s[i + j - 1]
      BY <2>2, <2>3, <2>4, Subsequence
    <3> QED
      BY <2>4, <3>1
  <2>6. IsSequence(b) /\ Len(b) = 3 /\ b[1] = "crlf" /\ b[2] = "dash" /\ b[3] = "boundary"
    BY <2>3, ThreeElements DEF crlf_dash_boundary_
  <2>7. v[1] = s[i] /\ v[2] = s[i + 1] /\ v[3] = s[i + 2]
    <3>1. 1 \in 1 .. 3 /\ 2 \in 1 .. 3 /\ 3 \in 1 .. 3 /\ i + 1 - 1 = i /\ i + 2 - 1 = i + 1 /\ i + 3 - 1 = i + 2
      BY <1>4
    <3> QED
      BY <2>5, <3>1
  <2>8. ASSUME s[i] = "crlf", s[i + 1] = "dash", s[i + 2] = "boundary" PROVE FALSE
    <3>1. \A j \in 1 .. 3 : j = 1 \/ j = 2 \/ j = 3
      OBVIOUS
    <3>2. \A j \in 1 .. 3 : v[j] = b[j]
      BY <2>6, <2>7, <2>8, <3>1
    <3>3. v = b
      BY <2>5, <2>6, <3>2, SequencesEqual
    <3> QED
      BY <2>2, <2>3, <3>3
  <2> QED
    BY <2>1, <2>8
<1>16. Tokens(k, o, h, c)
  <2>1. w[o + 2 * h + c + 6] = "dash" /\ w[o + 2 * h + c + 7] = "boundary"
        /\ w[o + 2 * h + c + 8] = IF k = n THEN "dash" ELSE "crlf"
    BY <1>12, <1>13
  <2>2. o + 2 * h + c + 9 <= Len(w)
    BY <1>13, <1>14
  <2> QED
    BY <1>2, <1>7, <1>8, <1>11, <1>15, <1>18, <1>19, <1>20, <2>1, <2>2 DEF Tokens
<1> QED
  BY <1>2, <1>5, <1>9, <1>10, <1>16

\* The first k items, and no others, have been handed over.
ItemsBefore(k) == IsSequence(entries) /\ Len(entries) = k /\ \A j \in 1 .. k : entries[j] = asked[j]

\* In the header lines of the item, after p tokens of the text.
InHeaders(k, o, h, p) ==
  /\ ItemsBefore(k - 1)
  /\ IsSequence(file_) /\ Len(file_) \in 0 .. h /\ p = o + 2 * Len(file_) + 3
  /\ \A i \in 1 .. Len(file_) : file_[i] = asked[k].headers[i]

\* In its content.
InContent(k, o, h, c, p) ==
  /\ IsSequence(entries) /\ Len(entries) = k /\ \A j \in 1 .. k - 1 : entries[j] = asked[j]
  /\ \E part : /\ entries[k] = [headers |-> asked[k].headers, content |-> part]
               /\ IsSequence(part) /\ Len(part) \in 0 .. c /\ p = o + 2 * h + 4 + Len(part)
               /\ \A i \in 1 .. Len(part) : part[i] = asked[k].content[i]

InItem(k, o, h, c, p) ==
  \/ state_ = 1 /\ p = o + 3 /\ ItemsBefore(k - 1)
  \/ state_ = 2 /\ InHeaders(k, o, h, p)
  \/ state_ = 3 /\ InContent(k, o, h, c, p)
  \/ state_ = 4 /\ p = o + 2 * h + c + 7 /\ ItemsBefore(k)

\* After the last boundary.
InEpilogue(off, p) ==
  /\ ItemsBefore(Len(asked)) /\ state_ \in {1, 2, 4}
  /\ p \in Nat /\ p >= off[Len(asked)] + 3
  /\ state_ # 4 => p >= off[Len(asked)] + 4 /\ message.content[p] = "crlf"
  /\ Len(asked) > 0 => is_valid_ = TRUE \/ parsing = "failed"

\* Where the parser is when it has consumed p tokens.
Parsed(off, p) ==
  \/ state_ = 0 /\ p = 0 /\ ItemsBefore(0) /\ is_valid_ = FALSE
  \/ is_valid_ = FALSE /\ \E k, o, h, c : Place(off, k, o, h, c) /\ InItem(k, o, h, c, p)
  \/ InEpilogue(off, p)

ParsedAt(off, p) == BufferAt(p) /\ Parsed(off, p)

\* A step that consumes nothing.
LEMMA NothingParsed ==
  ASSUME NEW off, NEW p, Parsed(off, p),
         UNCHANGED <<state_, file_, entries, message, asked>>,
         is_valid_' = is_valid_ \/ (is_valid_' = FALSE /\ parsing' = "failed"),
         parsing = "failed" => parsing' = "failed"
  PROVE  Parsed(off, p)'
<1>1. \A k : ItemsBefore(k) => ItemsBefore(k)'
  BY DEF ItemsBefore
<1>2. CASE state_ = 0 /\ p = 0 /\ ItemsBefore(0) /\ is_valid_ = FALSE
  <2>1. state_' = 0 /\ p = 0 /\ ItemsBefore(0)' /\ is_valid_' = FALSE
    BY <1>1, <1>2, Zenon
  <2> QED
    BY <2>1, Zenon DEF Parsed
<1>3. ASSUME is_valid_ = FALSE, NEW k, NEW o, NEW h, NEW c, Place(off, k, o, h, c), InItem(k, o, h, c, p)
      PROVE  Parsed(off, p)'
  <2>1. is_valid_' = FALSE
    BY <1>3, Zenon
  <2>2. Place(off, k, o, h, c)'
    BY <1>3 DEF Place, Lengths
  <2>3. InItem(k, o, h, c, p)'
    <3>1. ItemsBefore(k) => ItemsBefore(k)'
      BY <1>1
    <3>2. ItemsBefore(k - 1) => ItemsBefore(k - 1)'
      BY <1>1
    <3>3. InHeaders(k, o, h, p) => InHeaders(k, o, h, p)'
      BY <3>2 DEF InHeaders
    <3>4. InContent(k, o, h, c, p) => InContent(k, o, h, c, p)'
      BY DEF InContent
    <3> QED
      BY <1>3, <3>1, <3>2, <3>3, <3>4 DEF InItem
  <2> QED
    BY <2>1, <2>2, <2>3, Zenon DEF Parsed
<1>4. CASE InEpilogue(off, p)
  <2>1. /\ ItemsBefore(Len(asked)) /\ state_ \in {1, 2, 4}
        /\ p \in Nat /\ p >= off[Len(asked)] + 3
        /\ state_ # 4 => p >= off[Len(asked)] + 4 /\ message.content[p] = "crlf"
        /\ Len(asked) > 0 => is_valid_ = TRUE \/ parsing = "failed"
    BY <1>4 DEF InEpilogue
  <2>2. Len(asked) > 0 => is_valid_' = TRUE \/ parsing' = "failed"
    BY <2>1, Zenon
  <2>3. ItemsBefore(Len(asked))'
    BY <1>1, <2>1
  <2>4. (Len(asked) > 0 => is_valid_ = TRUE \/ parsing = "failed")'
    BY <2>2
  <2> QED
    BY <2>1, <2>3, <2>4 DEF InEpilogue, Parsed
<1> QED
  BY <1>2, <1>3, <1>4, Zenon DEF Parsed

\* What the steps of the parser leave alone, and where they begin.
Turning(off, p) ==
  /\ IsForm(off) /\ Unmistakable(options)
  /\ Len(body) <= Len(message.content)
  /\ ParsedAt(off, p)
  /\ parsing = "in parse" /\ buf_ # <<>>
  /\ UNCHANGED <<message, body, asked, options>>

\* A turn that needs more than there is, or refuses the form.
LEMMA NeedMoreParsed ==
  ASSUME NEW off, NEW p, Turning(off, p), NEW q, NeedMore(q) \/ (Reject /\ UNCHANGED <<state_, file_>>)
  PROVE  ParsedAt(off, p)'
<1>1. /\ UNCHANGED <<message, body, asked, options, buf_, state_, file_, entries>>
      /\ is_valid_' = is_valid_ \/ (is_valid_' = FALSE /\ parsing' = "failed")
      /\ parsing = "in parse"
  BY Zenon DEF NeedMore, Reject, Turning
<1>2. parsing = "failed" => parsing' = "failed"
  BY <1>1
<1>3. BufferAt(p)'
  BY <1>1 DEF Turning, ParsedAt, BufferAt
<1>4. Parsed(off, p)'
  BY <1>1, <1>2, NothingParsed DEF Turning, ParsedAt
<1> QED
  BY <1>3, <1>4 DEF ParsedAt

\* No text but the items before the epilogue; an entry begins.
LEMMA FirstBoundaryParsed ==
  ASSUME NEW off, NEW p, Turning(off, p), state_ = 0, InitialBoundary
  PROVE  \E q : ParsedAt(off, q)'
<1>1. CASE ~Found(dash_boundary_crlf_)
  <2>1. NeedMore(0)
    BY <1>1 DEF InitialBoundary
  <2> QED
    BY <2>1, NeedMoreParsed
<1>2. CASE Found(dash_boundary_crlf_)
  <2>1. PICK f : f = Find(dash_boundary_crlf_)
    OBVIOUS
  <2>2. /\ Erase(f + 3) /\ state_' = 1 /\ UNCHANGED <<file_, entries, is_valid_>>
        /\ UNCHANGED <<message, body, asked, options>>
    <3>1. Len(dash_boundary_crlf_) = 3
      BY ThreeElements DEF dash_boundary_crlf_
    <3> QED
      BY <1>2, <2>1, <3>1 DEF InitialBoundary, Turning
  <2>3. /\ IsSequence(buf_) /\ BufferAt(p) /\ IsForm(off)
    BY DEF Turning, ParsedAt, BufferAt
  <2>4. /\ f \in 0 .. Len(buf_) /\ f + 3 <= Len(buf_) /\ buf_[f + 1] = "dash"
        /\ buf_[f + 2] = "boundary" /\ buf_[f + 3] = "crlf"
        /\ \A i \in Nat : i + 3 <= Len(buf_) /\ buf_[i + 1] = "dash" /\ buf_[i + 2] = "boundary" /\ buf_[i + 3] = "crlf"
              => f <= i
    BY <1>2, <2>1, <2>3, ThreeFound DEF dash_boundary_crlf_
  <2>5. p = 0 /\ ItemsBefore(0) /\ is_valid_ = FALSE
    <3>1. \A k, o, h, c : ~InItem(k, o, h, c, p)
      BY DEF InItem
    <3>2. ~InEpilogue(off, p)
      BY DEF InEpilogue
    <3> QED
      BY <3>1, <3>2, Zenon DEF Turning, ParsedAt, Parsed
  <2>6. PICK l \in Nat : l = Len(buf_)
    BY <2>3, SequenceIs
  <2>7. f \in Nat /\ f + 3 <= l /\ f + 3 \in 0 .. l
    BY <2>4, <2>6
  <2>8. \A i \in 1 .. l : buf_[i] = message.content[i]
    <3>1. \A i \in 1 .. l : buf_[i] = message.content[0 + i]
      BY <2>3, <2>5, <2>6 DEF BufferAt
    <3>2. \A i \in 1 .. l : 0 + i = i
      OBVIOUS
    <3> QED
      BY <3>1, <3>2
  <2>9. BufferAt(f + 3)'
    <3>1. BufferAt(0 + (f + 3))'
      BY <2>2, <2>3, <2>5, <2>6, <2>7, ErasedAt
    <3>2. 0 + (f + 3) = f + 3
      BY <2>7
    <3> QED
      BY <3>1, <3>2
  <2>10. ItemsBefore(0)' /\ is_valid_' = FALSE
    <3>1. ItemsBefore(0)'
      BY <2>2, <2>5 DEF ItemsBefore
    <3> QED
      BY <2>2, <2>5, <3>1, Zenon
  <2>11. Len(asked) \in Nat /\ off[0] = 0
    BY <2>3, SequenceIs DEF IsForm, Layout
  <2>12. CASE Len(asked) > 0
    <3>1. 1 \in 1 .. Len(asked) /\ 1 - 1 = 0
      BY <2>11, <2>12
    <3>2. PICK o, h, c \in Nat : Place(off, 1, o, h, c)
      BY <2>3, <3>1, PlaceExists
    <3>3. o = 0
      BY <2>11, <3>1, <3>2 DEF Place
    <3>4. Tokens(1, 0, h, c)
      BY <2>3, <3>2, <3>3, TokensAt
    <3>5. message.content[1] = "dash" /\ message.content[2] = "boundary" /\ message.content[3] = "crlf"
      <4>1. 0 + 1 = 1 /\ 0 + 2 = 2 /\ 0 + 3 = 3
        OBVIOUS
      <4> QED
        BY <3>4, <4>1 DEF Tokens
    <3>6. 3 <= l /\ 1 \in 1 .. l /\ 2 \in 1 .. l /\ 3 \in 1 .. l
      BY <2>7
    <3>7. f <= 0
      <4>1. buf_[1] = "dash" /\ buf_[2] = "boundary" /\ buf_[3] = "crlf"
        BY <2>8, <3>5, <3>6
      <4>2. 0 \in Nat /\ 0 + 3 <= Len(buf_) /\ 0 + 1 = 1 /\ 0 + 2 = 2 /\ 0 + 3 = 3
        BY <2>6, <3>6
      <4> QED
        BY <2>4, <4>1, <4>2
    <3>8. f + 3 = 0 + 3
      BY <2>7, <3>7
    <3>9. InItem(1, 0, h, c, f + 3)'
      <4>1. 1 - 1 = 0
        OBVIOUS
      <4> QED
        BY <2>2, <2>10, <3>8, <4>1 DEF InItem
    <3>10. Place(off, 1, 0, h, c)'
      BY <2>2, <3>2, <3>3 DEF Place, Lengths
    <3>11. Parsed(off, f + 3)'
      BY <2>10, <3>9, <3>10, Zenon DEF Parsed
    <3> QED
      BY <2>9, <3>11 DEF ParsedAt
  <2>13. CASE Len(asked) = 0
    <3>1. off[Len(asked)] = 0
      BY <2>11, <2>13
    <3>2. message.content[3] = "dash"
      <4>1. 0 + 3 = 3
        OBVIOUS
      <4> QED
        BY <2>3, <3>1, <4>1 DEF IsForm, Layout
    <3>3. message.content[f + 3] = "crlf"
      <4>1. f + 3 \in 1 .. l
        BY <2>7
      <4> QED
        BY <2>4, <2>8, <4>1
    <3>4. f + 3 # 3
      BY <3>2, <3>3
    <3>5. f + 3 \in Nat /\ f + 3 >= 0 + 3 /\ f + 3 >= 0 + 4
      BY <2>7, <3>4
    <3>6. ~(Len(asked) > 0)
      BY <2>13
    <3>7. state_' \in {1, 2, 4}
      BY <2>2
    <3>8. InEpilogue(off, f + 3)'
      BY <2>2, <2>10, <2>13, <3>1, <3>3, <3>5, <3>6, <3>7 DEF InEpilogue
    <3>9. Parsed(off, f + 3)'
      BY <3>8 DEF Parsed
    <3> QED
      BY <2>9, <3>9 DEF ParsedAt
  <2> QED
    BY <2>11, <2>12, <2>13
<1> QED
  BY <1>1, <1>2

\* The parser is in an item.
LEMMA ItemParsed ==
  ASSUME NEW off, NEW q, BufferAt(q)', NEW k, NEW o, NEW h, NEW c, Place(off, k, o, h, c), asked' = asked,
         is_valid_' = FALSE, InItem(k, o, h, c, q)'
  PROVE  ParsedAt(off, q)'
<1>1. Place(off, k, o, h, c)'
  BY DEF Place, Lengths
<1>2. Parsed(off, q)'
  BY <1>1, Zenon DEF Parsed
<1> QED
  BY <1>2 DEF ParsedAt

\* It stays in the epilogue.
LEMMA EpilogueParsed ==
  ASSUME NEW off, NEW p, Turning(off, p), InEpilogue(off, p),
         NEW q, BufferAt(q)', q >= off[Len(asked)] + 3,
         entries' = entries, state_' \in {1, 2, 4}, is_valid_' = is_valid_ \/ is_valid_' = TRUE,
         state_' # 4 => q >= off[Len(asked)] + 4 /\ message.content[q] = "crlf"
  PROVE  ParsedAt(off, q)'
<1>1. UNCHANGED <<message, asked>> /\ parsing = "in parse"
  BY DEF Turning
<1>2. Len(asked) > 0 => is_valid_' = TRUE
  <2>1. "in parse" # "failed"
    OBVIOUS
  <2>2. Len(asked) > 0 => is_valid_ = TRUE \/ parsing = "failed"
    BY DEF InEpilogue
  <2> QED
    BY <1>1, <2>1, <2>2, Zenon
<1>3. (Len(asked) > 0 => is_valid_ = TRUE \/ parsing = "failed")'
  BY <1>1, <1>2
<1>4. ItemsBefore(Len(asked))'
  BY <1>1 DEF InEpilogue, ItemsBefore
<1>5. q \in Nat
  BY DEF BufferAt
<1>6. InEpilogue(off, q)'
  BY <1>1, <1>3, <1>4, <1>5 DEF InEpilogue
<1>7. Parsed(off, q)'
  BY <1>6, Zenon DEF Parsed
<1> QED
  BY <1>7 DEF ParsedAt

\* Once the parser has found a boundary it is in an item or after the last one.
LEMMA ItemOrEpilogue ==
  ASSUME NEW off, NEW p, Turning(off, p), state_ # 0
  PROVE  \/ is_valid_ = FALSE /\ \E k, o, h, c : Place(off, k, o, h, c) /\ InItem(k, o, h, c, p)
         \/ InEpilogue(off, p)
BY Zenon DEF Turning, ParsedAt, Parsed

\* An item begins.
LEMMA NewEntryParsed ==
  ASSUME NEW off, NEW p, Turning(off, p), NewEntry
  PROVE  \E q : ParsedAt(off, q)'
<1>1. /\ UNCHANGED <<buf_, entries, is_valid_, message, body, asked, options>>
      /\ state_ = 1 /\ state_' = 2 /\ file_' = <<>>
  BY DEF NewEntry, Turn, Turning
<1>2. BufferAt(p)'
  BY <1>1 DEF Turning, ParsedAt, BufferAt
<1>3. state_ # 0
  BY <1>1
<1>4. ASSUME is_valid_ = FALSE, NEW k, NEW o, NEW h, NEW c, Place(off, k, o, h, c), InItem(k, o, h, c, p)
      PROVE  ParsedAt(off, p)'
  <2>1. p = o + 3 /\ ItemsBefore(k - 1)
    BY <1>1, <1>4 DEF InItem
  <2>2. o \in Nat /\ h \in Nat
    BY <1>4, TokensAt DEF Turning, Tokens
  <2>3. IsSequence(file_') /\ Len(file_') = 0
    BY <1>1, EmptySequence
  <2>4. 0 \in 0 .. h /\ o + 3 = o + 2 * 0 + 3 /\ 1 .. 0 = {}
    BY <2>2
  <2>5. ItemsBefore(k - 1)'
    BY <1>1, <2>1 DEF ItemsBefore
  <2>6. InHeaders(k, o, h, p)'
    BY <2>1, <2>3, <2>4, <2>5 DEF InHeaders
  <2>7. InItem(k, o, h, c, p)'
    BY <1>1, <2>6 DEF InItem
  <2>8. is_valid_' = FALSE
    BY <1>1, <1>4, Zenon
  <2> QED
    BY <1>1, <1>2, <1>4, <2>7, <2>8, ItemParsed
<1>5. CASE InEpilogue(off, p)
  <2>1. /\ p >= off[Len(asked)] + 3 /\ p >= off[Len(asked)] + 4 /\ message.content[p] = "crlf"
    BY <1>1, <1>5 DEF InEpilogue
  <2>2. state_' \in {1, 2, 4}
    BY <1>1
  <2>3. is_valid_' = is_valid_
    BY <1>1
  <2> QED
    BY <1>1, <1>2, <1>5, <2>1, <2>2, <2>3, EpilogueParsed
<1> QED
  BY <1>3, <1>4, <1>5, ItemOrEpilogue

\* The first token of the buffer.
LEMMA BufferHead ==
  ASSUME NEW off, NEW p, Turning(off, p)
  PROVE  /\ IsSequence(buf_) /\ Len(buf_) \in Nat /\ Len(buf_) >= 1 /\ Head(buf_) = buf_[1]
         /\ p \in Nat /\ p + Len(buf_) = Len(body)
         /\ \A i \in 1 .. Len(buf_) : buf_[i] = message.content[p + i]
         /\ buf_[1] = message.content[p + 1]
<1>1. /\ IsSequence(buf_) /\ Len(buf_) \in Nat /\ buf_ # <<>> /\ p \in Nat /\ p + Len(buf_) = Len(body)
      /\ \A i \in 1 .. Len(buf_) : buf_[i] = message.content[p + i]
  BY DEF Turning, ParsedAt, BufferAt
<1>2. Head(buf_) = buf_[1] /\ 1 \in 1 .. Len(buf_)
  BY <1>1, FirstElement
<1> QED
  BY <1>1, <1>2

\* Where the epilogue has no header and no empty line, neither is in the buffer.
LEMMA EpilogueText ==
  ASSUME NEW off, NEW p, Turning(off, p), InEpilogue(off, p), state_ # 4
  PROVE  Head(buf_) \notin HeaderLines /\ Head(buf_) # "crlf"
<1>1. PICK l, z, m, e : l = Len(buf_) /\ z = off[Len(asked)] /\ m = Len(options) /\ e = Head(buf_)
  OBVIOUS
<1>2. /\ l \in Nat /\ l >= 1 /\ p \in Nat /\ p + l = Len(body) /\ e = message.content[p + 1]
  BY <1>1, BufferHead
<1>3. z \in Nat /\ m \in Nat
  <2>1. Len(asked) \in Nat
    BY SequenceIs DEF Turning, IsForm
  <2>2. Len(asked) \in 0 .. Len(asked)
    BY <2>1
  <2> QED
    BY <1>1, <2>2, SequenceIs DEF Turning, IsForm, Layout
<1>4. p >= z + 4 /\ message.content[p] = "crlf"
  BY <1>1 DEF InEpilogue
<1>5. Len(message.content) = z + 4 + m /\ \A i \in 1 .. m : message.content[z + 4 + i] = options[i]
  BY <1>1 DEF Turning, IsForm, Layout
<1>6. Len(body) <= Len(message.content)
  BY DEF Turning
<1>7. p + l <= z + 4 + m
  BY <1>2, <1>5, <1>6
<1>8. PICK i : i = p + 1 - (z + 4)
  OBVIOUS
<1>9. i \in 1 .. m /\ z + 4 + i = p + 1
  BY <1>2, <1>3, <1>4, <1>7, <1>8
<1>10. e = options[i]
  BY <1>2, <1>5, <1>9
<1>11. DOMAIN options = 1 .. m
  BY <1>1, SequenceIs DEF Turning, IsForm
<1>12. options[i] \notin HeaderLines /\ (options[i] = "crlf" => i > 1 /\ options[i - 1] # "crlf")
  BY <1>9, <1>11 DEF Turning, Unmistakable
<1>13. ASSUME i > 1 PROVE options[i - 1] = "crlf"
  <2>1. i - 1 \in 1 .. m /\ z + 4 + (i - 1) = p
    BY <1>2, <1>3, <1>9, <1>13
  <2> QED
    BY <1>4, <1>5, <2>1
<1> QED
  BY <1>1, <1>10, <1>12, <1>13

\* The next token after j header lines of an item.
LEMMA NextHeader ==
  ASSUME NEW off, NEW p, Turning(off, p), NEW k, NEW o, NEW h, NEW c, Place(off, k, o, h, c),
         InHeaders(k, o, h, p), NEW j, j = Len(file_)
  PROVE  /\ j \in 0 .. h /\ p = o + 2 * j + 3 /\ o \in Nat /\ h \in Nat
         /\ j < h => j + 1 \in 1 .. h /\ Head(buf_) = asked[k].headers[j + 1] /\ Head(buf_) \in HeaderLines
         /\ j < h /\ Len(buf_) >= 2 => buf_[2] = "crlf"
         /\ j = h => Head(buf_) = "crlf"
<1>1. PICK w, e, l : w = message.content /\ e = Head(buf_) /\ l = Len(buf_)
  OBVIOUS
<1>2. l \in Nat /\ p \in Nat /\ e = w[p + 1] /\ \A i \in 1 .. l : buf_[i] = w[p + i]
  BY <1>1, BufferHead
<1>3. Tokens(k, o, h, c)
  BY TokensAt DEF Turning
<1>4. o \in Nat /\ h \in Nat /\ j \in 0 .. h
  BY <1>3 DEF Tokens, InHeaders
<1>5. p = o + 2 * j + 3
  BY DEF InHeaders
<1>6. ASSUME j < h
      PROVE  j + 1 \in 1 .. h /\ e = asked[k].headers[j + 1] /\ e \in HeaderLines /\ (l >= 2 => buf_[2] = "crlf")
  <2>1. j + 1 \in 1 .. h /\ o + 2 * (j + 1) + 2 = o + 2 * j + 3 + 1 /\ o + 2 * (j + 1) + 3 = o + 2 * j + 3 + 2
    BY <1>4, <1>6
  <2>2. /\ w[o + 2 * (j + 1) + 2] = asked[k].headers[j + 1]
        /\ w[o + 2 * (j + 1) + 3] = "crlf"
        /\ asked[k].headers[j + 1] \in HeaderLines
    BY <1>1, <1>3, <2>1 DEF Tokens
  <2>3. l >= 2 => 2 \in 1 .. l
    BY <1>2
  <2> QED
    BY <1>2, <1>5, <2>1, <2>2, <2>3
<1>7. ASSUME j = h PROVE e = "crlf"
  <2>1. o + 2 * h + 4 = o + 2 * h + 3 + 1
    BY <1>4
  <2>2. w[o + 2 * h + 4] = "crlf"
    BY <1>1, <1>3 DEF Tokens
  <2>3. p = o + 2 * h + 3
    BY <1>5, <1>7
  <2> QED
    BY <1>2, <2>1, <2>2, <2>3
<1> QED
  BY <1>1, <1>4, <1>5, <1>6, <1>7

\* What ParseHeader takes is the next header line of the item.
LEMMA HeaderParsed ==
  ASSUME NEW off, NEW p, Turning(off, p), state_ = 2, ParseHeader
  PROVE  \E q : ParsedAt(off, q)'
<1>1. /\ Found(crlf_) /\ Find(crlf_) = 1 /\ Head(buf_) \in HeaderLines /\ Erase(2)
      /\ file_' = Append(file_, Head(buf_))
      /\ UNCHANGED <<state_, entries, is_valid_, message, body, asked, options>>
  BY DEF ParseHeader, Turning
<1>2. IsSequence(buf_) /\ Len(buf_) \in Nat
  BY BufferHead
<1>3. Len(buf_) >= 2
  <2>1. Find(crlf_) + 1 <= Len(buf_)
    BY <1>1, <1>2, CrlfFound
  <2> QED
    BY <1>1, <1>2, <2>1
<1>4. 2 \in 0 .. Len(buf_)
  BY <1>2, <1>3
<1>5. BufferAt(p + 2)'
  BY <1>1, <1>4, ErasedAt DEF Turning, ParsedAt
<1>6. state_ # 0
  OBVIOUS
<1>7. ASSUME is_valid_ = FALSE, NEW k, NEW o, NEW h, NEW c, Place(off, k, o, h, c), InItem(k, o, h, c, p)
      PROVE  ParsedAt(off, p + 2)'
  <2>1. InHeaders(k, o, h, p)
    BY <1>7 DEF InItem
  <2>2. PICK j, f, e : j = Len(file_) /\ f = file_ /\ e = Head(buf_)
    OBVIOUS
  <2>3. /\ j \in 0 .. h /\ p = o + 2 * j + 3 /\ o \in Nat /\ h \in Nat
        /\ j < h => j + 1 \in 1 .. h /\ Head(buf_) = asked[k].headers[j + 1] /\ Head(buf_) \in HeaderLines
        /\ j = h => Head(buf_) = "crlf"
    BY <1>7, <2>1, <2>2, NextHeader
  <2>4. j # h
    BY <1>1, <2>3, FormsAssumption
  <2>5. j < h /\ j + 1 \in 0 .. h /\ p + 2 = o + 2 * (j + 1) + 3 /\ j \in Nat
    BY <2>3, <2>4
  <2>6. e = asked[k].headers[j + 1]
    BY <2>2, <2>3, <2>5
  <2>7. PICK g : g = Append(f, e)
    OBVIOUS
  <2>8. IsSequence(f) /\ Len(f) = j /\ \A i \in 1 .. j : f[i] = asked[k].headers[i]
    BY <2>1, <2>2 DEF InHeaders
  <2>9. IsSequence(g) /\ Len(g) = j + 1 /\ g[j + 1] = e /\ \A i \in 1 .. j : g[i] = f[i]
    BY <2>7, <2>8, AppendIs
  <2>10. ASSUME NEW i \in 1 .. j + 1 PROVE g[i] = asked[k].headers[i]
    <3>1. i = j + 1 \/ i \in 1 .. j
      BY <2>5
    <3> QED
      BY <2>6, <2>8, <2>9, <3>1
  <2>11. file_' = g
    BY <1>1, <2>2, <2>7
  <2>12. ItemsBefore(k - 1)'
    BY <1>1, <2>1 DEF InHeaders, ItemsBefore
  <2>13. InHeaders(k, o, h, p + 2)'
    BY <1>1, <2>5, <2>9, <2>10, <2>11, <2>12 DEF InHeaders
  <2>14. InItem(k, o, h, c, p + 2)'
    BY <1>1, <2>13 DEF InItem
  <2>15. is_valid_' = FALSE
    BY <1>1, <1>7, Zenon
  <2> QED
    BY <1>1, <1>5, <1>7, <2>14, <2>15, ItemParsed
<1>8. CASE InEpilogue(off, p)
  BY <1>1, <1>8, EpilogueText
<1> QED
  BY <1>6, <1>7, <1>8, ItemOrEpilogue

\* The header lines end where those of the item do.
LEMMA EndOfHeadersParsed ==
  ASSUME NEW off, NEW p, Turning(off, p), state_ = 2, EndOfHeaders
  PROVE  \E q : ParsedAt(off, q)'
<1>1. /\ Found(crlf_) /\ Find(crlf_) = 0 /\ Erase(1) /\ state_' = 3
      /\ entries' = Append(entries, [headers |-> file_, content |-> <<>>])
      /\ UNCHANGED <<is_valid_, message, body, asked, options>>
  BY DEF EndOfHeaders, Turning
<1>2. IsSequence(buf_) /\ Len(buf_) \in Nat /\ Len(buf_) >= 1 /\ Head(buf_) = buf_[1]
  BY BufferHead
<1>3. Head(buf_) = "crlf"
  <2>1. buf_[Find(crlf_) + 1] = "crlf"
    BY <1>1, <1>2, CrlfFound
  <2>2. Find(crlf_) + 1 = 1
    BY <1>1
  <2> QED
    BY <1>2, <2>1, <2>2
<1>4. 1 \in 0 .. Len(buf_)
  BY <1>2
<1>5. BufferAt(p + 1)'
  BY <1>1, <1>4, ErasedAt DEF Turning, ParsedAt
<1>6. state_ # 0
  OBVIOUS
<1>7. ASSUME is_valid_ = FALSE, NEW k, NEW o, NEW h, NEW c, Place(off, k, o, h, c), InItem(k, o, h, c, p)
      PROVE  ParsedAt(off, p + 1)'
  <2>1. InHeaders(k, o, h, p)
    BY <1>7 DEF InItem
  <2>2. PICK j : j = Len(file_)
    OBVIOUS
  <2>3. /\ j \in 0 .. h /\ p = o + 2 * j + 3 /\ o \in Nat /\ h \in Nat
        /\ j < h => Head(buf_) \in HeaderLines
    BY <1>7, <2>1, <2>2, NextHeader
  <2>4. j = h
    <3>1. ~(j < h)
      BY <1>3, <2>3, FormsAssumption
    <3> QED
      BY <2>3, <3>1
  <2>5. Tokens(k, o, h, c)
    BY <1>7, TokensAt DEF Turning
  <2>6. c \in Nat /\ k \in 1 .. Len(asked) /\ Len(asked) \in Nat
    BY <2>5 DEF Tokens
  <2>7. p + 1 = o + 2 * h + 4 + 0 /\ 0 \in 0 .. c /\ 1 .. 0 = {}
    BY <2>3, <2>4, <2>6
  <2>8. file_ = asked[k].headers
    <3>1. IsItem(asked[k])
      <4>1. k \in DOMAIN asked
        BY <2>6, SequenceIs DEF Turning, IsForm
      <4> QED
        BY <4>1 DEF Turning, IsForm
    <3>2. PICK f, g : f = file_ /\ g = asked[k].headers
      OBVIOUS
    <3>3. IsSequence(g)
      <4>1. g \in Seq(HeaderLines)
        BY <3>1, <3>2 DEF IsItem
      <4> QED
        BY <4>1, TypedSequence
    <3>4. Len(g) = h
      BY <1>7, <3>2 DEF Place, Lengths
    <3>5. IsSequence(f) /\ Len(f) = h /\ \A i \in 1 .. h : f[i] = g[i]
      BY <2>1, <2>2, <2>4, <3>2 DEF InHeaders
    <3>6. f = g
      BY <3>3, <3>4, <3>5, SequencesEqual
    <3> QED
      BY <3>2, <3>6
  <2>9. PICK e, b, d : e = entries /\ b = [headers |-> asked[k].headers, content |-> <<>>] /\ d = Append(e, b)
    OBVIOUS
  <2>10. entries' = d
    BY <1>1, <2>8, <2>9
  <2>11. IsSequence(e) /\ Len(e) = k - 1 /\ \A i \in 1 .. k - 1 : e[i] = asked[i]
    BY <2>1, <2>9 DEF InHeaders, ItemsBefore
  <2>12. IsSequence(d) /\ Len(d) = k /\ d[k] = b /\ \A i \in 1 .. k - 1 : d[i] = asked[i]
    <3>1. (k - 1) + 1 = k
      BY <2>6
    <3> QED
      BY <2>9, <2>11, <3>1, AppendIs
  <2>13. InContent(k, o, h, c, p + 1)'
    <3>1. PICK part : part = <<>>
      OBVIOUS
    <3>2. IsSequence(part) /\ Len(part) = 0
      BY <3>1, EmptySequence
    <3>3. d[k] = [headers |-> asked[k].headers, content |-> part]
      BY <2>9, <2>12, <3>1
    <3> QED
      BY <1>1, <2>7, <2>10, <2>12, <3>2, <3>3 DEF InContent
  <2>14. InItem(k, o, h, c, p + 1)'
    BY <1>1, <2>13 DEF InItem
  <2>15. is_valid_' = FALSE
    BY <1>1, <1>7, Zenon
  <2> QED
    BY <1>1, <1>5, <1>7, <2>14, <2>15, ItemParsed
<1>8. CASE InEpilogue(off, p)
  BY <1>3, <1>8, EpilogueText
<1> QED
  BY <1>6, <1>7, <1>8, ItemOrEpilogue

\* A turn over the header lines.
LEMMA HeadersParsed ==
  ASSUME NEW off, NEW p, Turning(off, p), state_ = 2, Headers
  PROVE  \E q : ParsedAt(off, q)'
<1>1. CASE ParseHeader
  BY <1>1, HeaderParsed
<1>2. CASE EndOfHeaders
  BY <1>2, EndOfHeadersParsed
<1>3. CASE RejectHeader
  <2>1. Reject /\ UNCHANGED <<state_, file_>>
    BY <1>3 DEF RejectHeader, Reject
  <2> QED
    BY <2>1, NeedMoreParsed
<1>4. CASE ~Found(crlf_) /\ NeedMore(2)
  BY <1>4, NeedMoreParsed
<1> QED
  BY <1>1, <1>2, <1>3, <1>4 DEF Headers

\* What has been handed over of the content of an item: the first m tokens.
HasContent(k, m) ==
  /\ IsSequence(entries) /\ Len(entries) = k /\ \A j \in 1 .. k - 1 : entries[j] = asked[j]
  /\ \E part : /\ entries[k] = [headers |-> asked[k].headers, content |-> part]
               /\ IsSequence(part) /\ Len(part) = m
               /\ \A i \in 1 .. m : part[i] = asked[k].content[i]

\* More of the content is handed over.
LEMMA ContentAdded ==
  ASSUME NEW k \in Nat, k > 0, NEW m \in Nat, HasContent(k, m), IsSequence(buf_), NEW n \in 0 .. Len(buf_),
         \A i \in 1 .. n : buf_[i] = asked[k].content[m + i],
         AddContent(n), asked' = asked
  PROVE  HasContent(k, m + n)'
<1>1. PICK e, b, s : e = entries /\ b = buf_ /\ s = asked[k].content
  OBVIOUS
<1>2. IsSequence(e) /\ Len(e) = k /\ \A j \in 1 .. k - 1 : e[j] = asked[j]
  BY <1>1 DEF HasContent
<1>3. PICK part : /\ e[k] = [headers |-> asked[k].headers, content |-> part]
                  /\ IsSequence(part) /\ Len(part) = m /\ \A i \in 1 .. m : part[i] = s[i]
  BY <1>1 DEF HasContent
<1>4. PICK v : v = SubSeq(b, 1, n)
  OBVIOUS
<1>5. Len(b) \in Nat /\ n \in 0 .. Len(b) /\ n \in Nat
  BY <1>1, SequenceIs
<1>6. IsSequence(v) /\ Len(v) = n /\ \A i \in 1 .. n : v[i] = b[i]
  <2>1. 1 \in 1 .. Len(b) + 1 /\ n \in 1 - 1 .. Len(b) /\ n - 1 + 1 = n /\ \A i \in 1 .. n : 1 + i - 1 = i
    BY <1>5
  <2>2. IsSequence(v) /\ Len(v) = n - 1 + 1 /\ \A i \in 1 .. n - 1 + 1 : v[i] = b[1 + i - 1]
    BY <1>1, <1>4, <2>1, Subsequence
  <2> QED
    BY <2>1, <2>2
<1>7. PICK w : w = part \o v
  OBVIOUS
<1>8. /\ IsSequence(w) /\ Len(w) = m + n
      /\ \A i \in 1 .. m : w[i] = part[i]
      /\ \A i \in 1 .. n : w[m + i] = v[i]
  <2>1. /\ IsSequence(w) /\ Len(w) = Len(part) + Len(v)
        /\ \A i \in 1 .. Len(part) : w[i] = part[i]
        /\ \A i \in 1 .. Len(v) : w[Len(part) + i] = v[i]
    <3>1. IsSequence(part) /\ IsSequence(v)
      BY <1>3, <1>6
    <3>2. /\ IsSequence(part \o v) /\ Len(part \o v) = Len(part) + Len(v)
          /\ \A i \in 1 .. Len(part) : (part \o v)[i] = part[i]
          /\ \A i \in 1 .. Len(v) : (part \o v)[Len(part) + i] = v[i]
      BY <3>1, Concatenation
    <3> QED
      BY <1>7, <3>2
  <2> QED
    BY <1>3, <1>6, <2>1
<1>9. ASSUME NEW i \in 1 .. m + n PROVE w[i] = s[i]
  <2>1. CASE i \in 1 .. m
    BY <1>3, <1>8, <2>1
  <2>2. CASE i \notin 1 .. m
    <3>1. PICK j : j = i - m
      OBVIOUS
    <3>2. j \in 1 .. n /\ m + j = i
      BY <1>5, <2>2, <3>1
    <3>3. w[m + j] = v[j] /\ v[j] = b[j] /\ b[j] = s[m + j]
      BY <1>1, <1>6, <1>8, <3>2
    <3> QED
      BY <3>2, <3>3
  <2> QED
    BY <2>1, <2>2
<1>10. PICK d : d = entries'
  OBVIOUS
<1>11. d = [e EXCEPT ![k].content = w]
  <2>1. d = [e EXCEPT ![k].content = e[k].content \o v]
    BY <1>1, <1>2, <1>4, <1>10 DEF AddContent
  <2>2. e[k].content = part
    BY <1>3
  <2> QED
    BY <1>7, <2>1, <2>2
<1>12. DOMAIN e = 1 .. k /\ k \in 1 .. k
  BY <1>2, SequenceIs
<1>13. d = [i \in 1 .. k |-> d[i]] /\ d[k] = [e[k] EXCEPT !.content = w] /\ \A i \in 1 .. k - 1 : d[i] = e[i]
  <2>1. e = [i \in 1 .. k |-> e[i]]
    BY <1>2, SequenceIs
  <2>2. \A i \in 1 .. k - 1 : i \in 1 .. k /\ i # k
    OBVIOUS
  <2> QED
    BY <1>11, <1>12, <2>1, <2>2
<1>14. d[k] = [headers |-> asked[k].headers, content |-> w]
  BY <1>3, <1>13
<1>15. IsSequence(d) /\ Len(d) = k
  BY <1>13, SequenceOf
<1>16. \A j \in 1 .. k - 1 : d[j] = asked[j]
  BY <1>2, <1>13
<1> QED
  BY <1>1, <1>8, <1>9, <1>10, <1>14, <1>15, <1>16 DEF HasContent

\* In the content of an item: how much of it is in the buffer, and where the
\* boundary is.
LEMMA ContentText ==
  ASSUME NEW off, NEW p, Turning(off, p), NEW k, NEW o, NEW h, NEW c, Place(off, k, o, h, c),
         NEW m \in 0 .. c, p = o + 2 * h + 4 + m
  PROVE  /\ c \in Nat /\ Len(buf_) \in Nat /\ o \in Nat /\ h \in Nat
         /\ \A i \in 1 .. Len(buf_) : m + i <= c => buf_[i] = asked[k].content[m + i]
         /\ Found(crlf_dash_boundary_) =>
              /\ m + Find(crlf_dash_boundary_) = c /\ Find(crlf_dash_boundary_) + 3 <= Len(buf_)
              /\ Find(crlf_dash_boundary_) \in Nat
         /\ ~Found(crlf_dash_boundary_) => m + Len(buf_) < c + 3
<1>1. PICK w, s, b, f, l : /\ w = message.content /\ s = asked[k].content /\ b = buf_
                           /\ f = Find(crlf_dash_boundary_) /\ l = Len(buf_)
  OBVIOUS
<1>2. l \in Nat /\ p \in Nat /\ IsSequence(b) /\ \A i \in 1 .. l : b[i] = w[p + i]
  BY <1>1, BufferHead
<1>3. Tokens(k, o, h, c)
  BY TokensAt DEF Turning
<1>4. o \in Nat /\ h \in Nat /\ c \in Nat
  BY <1>3 DEF Tokens
<1>5. PICK z : z = o + 2 * h + 4
  OBVIOUS
<1>6. z \in Nat /\ p = z + m /\ m \in Nat
  BY <1>4, <1>5
<1>7. /\ \A i \in 1 .. c : w[z + i] = s[i]
      /\ \A i \in 1 .. c - 2 : ~(s[i] = "crlf" /\ s[i + 1] = "dash" /\ s[i + 2] = "boundary")
      /\ w[z + c + 1] = "crlf" /\ w[z + c + 2] = "dash" /\ w[z + c + 3] = "boundary"
  <2>1. z + c + 1 = o + 2 * h + c + 5 /\ z + c + 2 = o + 2 * h + c + 6 /\ z + c + 3 = o + 2 * h + c + 7
    BY <1>4, <1>5
  <2> QED
    BY <1>1, <1>3, <1>5, <2>1 DEF Tokens
<1>8. ASSUME NEW n \in 1 .. l, m + n <= c PROVE b[n] = s[m + n]
  <2>1. m + n \in 1 .. c /\ p + n = z + (m + n)
    BY <1>2, <1>4, <1>6, <1>8
  <2> QED
    BY <1>2, <1>7, <2>1
<1>9. /\ f \in 0 .. l
      /\ Found(crlf_dash_boundary_) => /\ f + 3 <= l /\ b[f + 1] = "crlf"
                                       /\ b[f + 2] = "dash" /\ b[f + 3] = "boundary"
      /\ \A i \in Nat : i + 3 <= l /\ b[i + 1] = "crlf" /\ b[i + 2] = "dash" /\ b[i + 3] = "boundary"
           => Found(crlf_dash_boundary_) /\ f <= i
  BY <1>1, <1>2, ThreeFound DEF crlf_dash_boundary_
<1>10. PICK g : g = c - m
  OBVIOUS
<1>11. g \in Nat /\ m + g = c
  BY <1>4, <1>6, <1>10
<1>12. ASSUME g + 3 <= l PROVE b[g + 1] = "crlf" /\ b[g + 2] = "dash" /\ b[g + 3] = "boundary"
  <2>1. /\ g + 1 \in 1 .. l /\ g + 2 \in 1 .. l /\ g + 3 \in 1 .. l
        /\ p + (g + 1) = z + c + 1 /\ p + (g + 2) = z + c + 2 /\ p + (g + 3) = z + c + 3
    BY <1>2, <1>4, <1>6, <1>11, <1>12
  <2> QED
    BY <1>2, <1>7, <2>1
<1>13. ASSUME ~Found(crlf_dash_boundary_) PROVE m + l < c + 3
  <2>1. ~(g + 3 <= l)
    BY <1>9, <1>11, <1>12, <1>13
  <2> QED
    BY <1>2, <1>4, <1>6, <1>11, <2>1
<1>14. ASSUME Found(crlf_dash_boundary_) PROVE m + f = c /\ f + 3 <= l /\ f \in Nat
  <2>1. f \in Nat /\ f + 3 <= l /\ b[f + 1] = "crlf" /\ b[f + 2] = "dash" /\ b[f + 3] = "boundary"
    BY <1>2, <1>9, <1>14
  <2>2. f <= g
    <3>1. CASE g + 3 <= l
      BY <1>9, <1>11, <1>12, <3>1
    <3>2. CASE ~(g + 3 <= l)
      BY <1>2, <1>11, <2>1, <3>2
    <3> QED
      BY <3>1, <3>2
  <2>3. ASSUME f < g PROVE FALSE
    <3>1. PICK i : i = m + f + 1
      OBVIOUS
    <3>2. /\ i \in 1 .. c /\ f + 1 \in 1 .. l /\ f + 2 \in 1 .. l /\ f + 3 \in 1 .. l
          /\ p + (f + 1) = z + i /\ p + (f + 2) = z + (i + 1) /\ p + (f + 3) = z + (i + 2)
      <4>1. m \in Nat /\ f \in Nat /\ g \in Nat /\ z \in Nat /\ l \in Nat /\ f + 3 <= l /\ f < g
        BY <1>2, <1>6, <1>11, <2>1, <2>3
      <4>2. /\ m + f + 1 \in 1 .. m + g /\ f + 1 \in 1 .. l /\ f + 2 \in 1 .. l /\ f + 3 \in 1 .. l
            /\ z + m + (f + 1) = z + (m + f + 1) /\ z + m + (f + 2) = z + (m + f + 1 + 1)
            /\ z + m + (f + 3) = z + (m + f + 1 + 2)
        BY <4>1
      <4> QED
        BY <1>6, <1>11, <3>1, <4>2
    <3>3. w[z + i] = "crlf" /\ w[z + (i + 1)] = "dash" /\ w[z + (i + 2)] = "boundary"
      BY <1>2, <2>1, <3>2
    <3>4. CASE i <= c - 2
      <4>1. i \in 1 .. c - 2 /\ i + 1 \in 1 .. c /\ i + 2 \in 1 .. c
        BY <1>4, <3>2, <3>4
      <4> QED
        BY <1>7, <3>2, <3>3, <4>1
    <3>5. CASE i = c - 1
      <4>1. z + (i + 2) = z + c + 1
        BY <1>4, <1>6, <3>5
      <4>2. "crlf" # "boundary"
        OBVIOUS
      <4> QED
        BY <1>7, <3>3, <4>1, <4>2
    <3>6. CASE i = c
      <4>1. z + (i + 1) = z + c + 1
        BY <1>4, <1>6, <3>6
      <4>2. "crlf" # "dash"
        OBVIOUS
      <4> QED
        BY <1>7, <3>3, <4>1, <4>2
    <3>7. i <= c - 2 \/ i = c - 1 \/ i = c
      BY <1>4, <3>2
    <3> QED
      BY <3>4, <3>5, <3>6, <3>7
  <2>4. f = g
    BY <1>11, <2>1, <2>2, <2>3
  <2> QED
    BY <1>11, <2>1, <2>4
<1> QED
  BY <1>1, <1>2, <1>4, <1>8, <1>13, <1>14

\* In the content of an item, of which m tokens have been handed over.
ContentAt(off, p, k, o, h, c, m) ==
  Place(off, k, o, h, c) /\ Tokens(k, o, h, c) /\ m \in 0 .. c /\ HasContent(k, m) /\ p = o + 2 * h + 4 + m

\* That is where the parser is in its third state.
LEMMA ContentPlace ==
  ASSUME NEW off, NEW p, Turning(off, p), state_ = 3
  PROVE  /\ is_valid_ = FALSE
         /\ \E k, o, h, c, m : ContentAt(off, p, k, o, h, c, m)
<1>1. state_ # 0 /\ ~InEpilogue(off, p)
  BY DEF InEpilogue
<1>2. is_valid_ = FALSE
  BY <1>1, ItemOrEpilogue, Zenon
<1>3. PICK k, o, h, c : Place(off, k, o, h, c) /\ InItem(k, o, h, c, p)
  BY <1>1, ItemOrEpilogue, Zenon
<1>4. Tokens(k, o, h, c)
  BY <1>3, TokensAt DEF Turning
<1>5. InContent(k, o, h, c, p)
  BY <1>3 DEF InItem
<1>6. PICK m : m \in 0 .. c /\ HasContent(k, m) /\ p = o + 2 * h + 4 + m
  BY <1>5 DEF InContent, HasContent
<1>7. ContentAt(off, p, k, o, h, c, m)
  BY <1>3, <1>4, <1>6 DEF ContentAt
<1> QED
  BY <1>2, <1>7

\* Part of the content has been consumed.
LEMMA ContentParsed ==
  ASSUME NEW off, NEW q, BufferAt(q)', NEW k, NEW o, NEW h, NEW c, Place(off, k, o, h, c), asked' = asked,
         is_valid_' = FALSE, state_' = 3, NEW m \in 0 .. c, HasContent(k, m)', q = o + 2 * h + 4 + m
  PROVE  ParsedAt(off, q)'
<1>3. PICK part : /\ (entries[k] = [headers |-> asked[k].headers, content |-> part])'
                  /\ IsSequence(part) /\ Len(part) = m
                  /\ (\A i \in 1 .. m : part[i] = asked[k].content[i])'
  BY DEF HasContent
<1>4. PICK r : r = Len(part)
  OBVIOUS
<1>5. r \in 0 .. c /\ q = o + 2 * h + 4 + r /\ (\A i \in 1 .. r : part[i] = asked[k].content[i])'
  BY <1>3, <1>4
<1>1. InContent(k, o, h, c, q)'
  BY <1>3, <1>4, <1>5 DEF InContent, HasContent
<1>2. InItem(k, o, h, c, q)'
  BY <1>1 DEF InItem
<1> QED
  BY <1>2, ItemParsed

\* All of the content makes the item.
LEMMA ContentIsItem ==
  ASSUME NEW off, IsForm(off), NEW k, NEW o, NEW h, NEW c, Place(off, k, o, h, c), asked' = asked, HasContent(k, c)'
  PROVE  ItemsBefore(k)'
<1>1. k \in 1 .. Len(asked) /\ Len(asked) \in Nat /\ k \in DOMAIN asked
  BY SequenceIs DEF IsForm, Place
<1>2. PICK a : a = asked[k]
  OBVIOUS
<1>3. IsItem(a) /\ Len(a.content) = c
  BY <1>1, <1>2 DEF IsForm, Place, Lengths
<1>4. PICK part : /\ entries'[k] = [headers |-> a.headers, content |-> part]
                  /\ IsSequence(part) /\ Len(part) = c /\ \A i \in 1 .. c : part[i] = a.content[i]
  BY <1>2 DEF HasContent
<1>5. a.content = part
  <2>1. PICK s : s = a.content
    OBVIOUS
  <2>2. IsSequence(s) /\ Len(s) = c
    BY <1>3, <2>1 DEF IsItem
  <2>3. part = s
    BY <1>4, <2>1, <2>2, SequencesEqual
  <2> QED
    BY <2>1, <2>3
<1>6. a = [headers |-> a.headers, content |-> a.content]
  BY <1>3 DEF IsItem
<1>7. entries'[k] = asked[k]
  BY <1>2, <1>4, <1>5, <1>6
<1>8. \A j \in 1 .. k : j = k \/ j \in 1 .. k - 1
  BY <1>1
<1> QED
  BY <1>7, <1>8 DEF HasContent, ItemsBefore

\* The end of the content is found where the content ends.
LEMMA EndOfBodyParsed ==
  ASSUME NEW off, NEW p, Turning(off, p), state_ = 3, EndOfBody
  PROVE  \E q : ParsedAt(off, q)'
<1>1. PICK f, l : f = Find(crlf_dash_boundary_) /\ l = Len(buf_)
  OBVIOUS
<1>2. /\ Found(crlf_dash_boundary_) /\ AddContent(f) /\ Erase(f + 3) /\ state_' = 4
      /\ UNCHANGED <<is_valid_, message, body, asked, options>>
  <2>1. Len(crlf_dash_boundary_) = 3
    BY ThreeElements DEF crlf_dash_boundary_
  <2> QED
    BY <1>1, <2>1 DEF EndOfBody, Turning
<1>20. PICK k, o, h, c, m : ContentAt(off, p, k, o, h, c, m)
  BY ContentPlace
<1>21. Place(off, k, o, h, c) /\ m \in 0 .. c /\ p = o + 2 * h + 4 + m
  BY <1>20 DEF ContentAt
<1>3. /\ Place(off, k, o, h, c) /\ m \in 0 .. c /\ HasContent(k, m) /\ p = o + 2 * h + 4 + m
  BY <1>20 DEF ContentAt
<1>22. k \in 1 .. Len(asked)
  BY <1>20 DEF ContentAt, Place
<1>23. /\ c \in Nat /\ Len(buf_) \in Nat /\ o \in Nat /\ h \in Nat
       /\ \A i \in 1 .. Len(buf_) : m + i <= c => buf_[i] = asked[k].content[m + i]
       /\ Found(crlf_dash_boundary_) =>
            /\ m + Find(crlf_dash_boundary_) = c /\ Find(crlf_dash_boundary_) + 3 <= Len(buf_)
            /\ Find(crlf_dash_boundary_) \in Nat
       /\ ~Found(crlf_dash_boundary_) => m + Len(buf_) < c + 3
  BY <1>21, ContentText, Zenon
<1>4. /\ c \in Nat /\ l \in Nat /\ o \in Nat /\ h \in Nat
      /\ \A n \in 1 .. l : m + n <= c => buf_[n] = asked[k].content[m + n]
      /\ m + f = c /\ f + 3 <= l /\ f \in Nat
  BY <1>1, <1>2, <1>23, Zenon
<1>5. IsSequence(buf_) /\ p \in Nat
  BY BufferHead
<1>6. /\ m \in Nat /\ f \in 0 .. l /\ f + 3 \in 0 .. l
      /\ p + (f + 3) = o + 2 * h + c + 7
      /\ \A i \in 1 .. f : i \in 1 .. l /\ m + i <= c
  BY <1>3, <1>4
<1>7. BufferAt(p + (f + 3))'
  BY <1>1, <1>2, <1>6, ErasedAt DEF Turning, ParsedAt
<1>8. HasContent(k, c)'
  <2>1. k \in Nat /\ k > 0
    BY <1>22
  <2>2. \A i \in 1 .. f : buf_[i] = asked[k].content[m + i]
    BY <1>4, <1>6
  <2>3. f \in 0 .. Len(buf_)
    BY <1>1, <1>6
  <2>4. HasContent(k, m + f)'
    BY <1>2, <1>3, <1>5, <1>6, <2>1, <2>2, <2>3, ContentAdded
  <2> QED
    BY <1>4, <2>4
<1>9. ItemsBefore(k)'
  <2>1. IsForm(off)
    BY DEF Turning
  <2> QED
    BY <1>2, <1>3, <1>8, <2>1, ContentIsItem
<1>10. InItem(k, o, h, c, p + (f + 3))'
  BY <1>2, <1>6, <1>9 DEF InItem
<1>11. is_valid_' = FALSE
  BY <1>2, ContentPlace, Zenon
<1> QED
  BY <1>2, <1>3, <1>7, <1>10, <1>11, ItemParsed

\* What is content in any case is handed over.
LEMMA PartOfBodyParsed ==
  ASSUME NEW off, NEW p, Turning(off, p), state_ = 3, PartOfBody
  PROVE  \E q : ParsedAt(off, q)'
<1>1. PICK l : l = Len(buf_)
  OBVIOUS
<1>9. PICK n : n = l - 3
  OBVIOUS
<1>2. /\ ~Found(crlf_dash_boundary_) /\ state_' = 3
      /\ n > 0 => AddContent(n) /\ Erase(n)
      /\ ~(n > 0) => UNCHANGED <<buf_, entries>>
      /\ UNCHANGED <<is_valid_, message, body, asked, options>>
  <2>1. Len(crlf_dash_boundary_) = 3
    BY ThreeElements DEF crlf_dash_boundary_
  <2> QED
    BY <1>1, <1>9, <2>1 DEF PartOfBody, Turning
<1>20. PICK k, o, h, c, m : ContentAt(off, p, k, o, h, c, m)
  BY ContentPlace
<1>21. Place(off, k, o, h, c) /\ m \in 0 .. c /\ p = o + 2 * h + 4 + m
  BY <1>20 DEF ContentAt
<1>3. /\ Place(off, k, o, h, c) /\ m \in 0 .. c /\ HasContent(k, m) /\ p = o + 2 * h + 4 + m
  BY <1>20 DEF ContentAt
<1>22. k \in 1 .. Len(asked)
  BY <1>20 DEF ContentAt, Place
<1>23. /\ c \in Nat /\ Len(buf_) \in Nat /\ o \in Nat /\ h \in Nat
       /\ \A i \in 1 .. Len(buf_) : m + i <= c => buf_[i] = asked[k].content[m + i]
       /\ Found(crlf_dash_boundary_) =>
            /\ m + Find(crlf_dash_boundary_) = c /\ Find(crlf_dash_boundary_) + 3 <= Len(buf_)
            /\ Find(crlf_dash_boundary_) \in Nat
       /\ ~Found(crlf_dash_boundary_) => m + Len(buf_) < c + 3
  BY <1>21, ContentText, Zenon
<1>4. /\ c \in Nat /\ l \in Nat /\ o \in Nat /\ h \in Nat
      /\ \A i \in 1 .. l : m + i <= c => buf_[i] = asked[k].content[m + i]
      /\ m + l < c + 3
  BY <1>1, <1>2, <1>23, Zenon
<1>5. IsSequence(buf_) /\ p \in Nat /\ BufferAt(p)
  BY BufferHead DEF Turning, ParsedAt
<1>6. is_valid_' = FALSE
  BY <1>2, ContentPlace, Zenon
<1>7. CASE n > 0
  <2>1. /\ m \in Nat /\ n \in 0 .. l /\ m + n \in 0 .. c
        /\ p + n = o + 2 * h + 4 + (m + n)
        /\ \A i \in 1 .. n : i \in 1 .. l /\ m + i <= c
    BY <1>3, <1>4, <1>7, <1>9
  <2>2. BufferAt(p + n)'
    BY <1>1, <1>2, <1>5, <1>7, <2>1, ErasedAt
  <2>3. HasContent(k, m + n)'
    <3>1. k \in Nat /\ k > 0
      BY <1>22
    <3>2. \A i \in 1 .. n : buf_[i] = asked[k].content[m + i]
      BY <1>4, <2>1
    <3>3. n \in 0 .. Len(buf_)
      BY <1>1, <2>1
    <3> QED
      BY <1>2, <1>3, <1>5, <1>7, <2>1, <3>1, <3>2, <3>3, ContentAdded
  <2> QED
    BY <1>2, <1>3, <1>6, <2>1, <2>2, <2>3, ContentParsed
<1>8. CASE ~(n > 0)
  <2>1. BufferAt(p)'
    BY <1>2, <1>5, <1>8 DEF BufferAt
  <2>2. HasContent(k, m)'
    BY <1>2, <1>3, <1>8 DEF HasContent
  <2> QED
    BY <1>2, <1>3, <1>6, <2>1, <2>2, ContentParsed
<1> QED
  BY <1>7, <1>8

\* A turn after a boundary.
LEMMA BoundaryParsed ==
  ASSUME NEW off, NEW p, Turning(off, p), Boundary
  PROVE  \E q : ParsedAt(off, q)'
<1>1. CASE NeedMore(4)
  BY <1>1, NeedMoreParsed
<1>2. BufferAt(p) /\ IsForm(off)
  BY DEF Turning, ParsedAt
<1>3. /\ Len(buf_) \in Nat /\ Len(buf_) >= 1 /\ Head(buf_) = buf_[1] /\ IsSequence(buf_)
      /\ p \in Nat /\ p + Len(buf_) = Len(body) /\ buf_[1] = message.content[p + 1]
  BY BufferHead
<1>4. PICK n, z : n = Len(asked) /\ z = off[n]
  OBVIOUS
<1>5. n \in Nat /\ z \in Nat
  <2>1. n \in Nat
    BY <1>2, <1>4, SequenceIs DEF IsForm
  <2>2. n \in 0 .. n
    BY <2>1
  <2> QED
    BY <1>2, <1>4, <2>1, <2>2 DEF IsForm, Layout
\* Before the epilogue the parser is after the boundary that ends an item.
<1>6. ASSUME state_ = 4, is_valid_ = FALSE, NEW k, NEW o, NEW h, NEW c,
             Place(off, k, o, h, c), InItem(k, o, h, c, p)
      PROVE  /\ k \in 1 .. n /\ ItemsBefore(k) /\ off[k] \in Nat /\ p = off[k] + 2
             /\ Head(buf_) = IF k = n THEN "dash" ELSE "crlf"
  <2>1. p = o + 2 * h + c + 7 /\ ItemsBefore(k)
    BY <1>6 DEF InItem
  <2>2. Tokens(k, o, h, c) /\ off[k] = o + 2 * h + c + 5
    BY <1>2, <1>6, TokensAt
  <2>3. o \in Nat /\ h \in Nat /\ c \in Nat /\ k \in 1 .. n
    BY <1>4, <2>2 DEF Tokens
  <2>4. o + 2 * h + c + 7 + 1 = o + 2 * h + c + 8 /\ o + 2 * h + c + 5 + 2 = o + 2 * h + c + 7
        /\ o + 2 * h + c + 5 \in Nat
    BY <2>3
  <2>5. message.content[o + 2 * h + c + 8] = IF k = n THEN "dash" ELSE "crlf"
    BY <1>4, <2>2 DEF Tokens
  <2> QED
    BY <1>3, <2>1, <2>2, <2>3, <2>4, <2>5
<1>7. CASE /\ Head(buf_) = "crlf" /\ Erase(1) /\ Turn(4) /\ state_' = 1
           /\ UNCHANGED <<file_, entries, is_valid_>>
  <2>1. /\ Head(buf_) = "crlf" /\ Erase(1) /\ state_ = 4 /\ state_' = 1
        /\ UNCHANGED <<entries, is_valid_, message, body, asked, options>>
    BY <1>7 DEF Turn, Turning
  <2>2. BufferAt(p + 1)'
    <3>1. 1 \in 0 .. Len(buf_)
      BY <1>3
    <3> QED
      BY <1>2, <2>1, <3>1, ErasedAt
  <2>3. ASSUME is_valid_ = FALSE, NEW k, NEW o, NEW h, NEW c, Place(off, k, o, h, c), InItem(k, o, h, c, p)
        PROVE  ParsedAt(off, p + 1)'
    <3>1. /\ k \in 1 .. n /\ ItemsBefore(k) /\ off[k] \in Nat /\ p = off[k] + 2
          /\ Head(buf_) = IF k = n THEN "dash" ELSE "crlf"
      BY <1>6, <2>1, <2>3
    <3>2. k # n
      BY <2>1, <3>1
    <3>3. PICK j : j = k + 1
      OBVIOUS
    <3>4. j \in 1 .. n /\ j - 1 = k /\ p + 1 = off[k] + 3
      BY <1>5, <3>1, <3>2, <3>3
    <3>5. PICK a, b, d \in Nat : Place(off, j, a, b, d)
      BY <1>2, <1>4, <3>4, PlaceExists
    <3>6. a = off[k]
      BY <3>4, <3>5 DEF Place
    <3>7. ItemsBefore(j - 1)'
      BY <2>1, <3>1, <3>4 DEF ItemsBefore
    <3>8. InItem(j, a, b, d, p + 1)'
      BY <2>1, <3>4, <3>6, <3>7 DEF InItem
    <3>9. is_valid_' = FALSE
      BY <2>1, <2>3, Zenon
    <3> QED
      BY <2>1, <2>2, <3>5, <3>8, <3>9, ItemParsed
  <2>4. CASE InEpilogue(off, p)
    <3>1. p >= z + 3
      BY <1>4, <2>4 DEF InEpilogue
    <3>2. p + 1 >= z + 3 /\ p + 1 >= z + 4
      BY <1>3, <1>5, <3>1
    <3>3. message.content[p + 1] = "crlf"
      BY <1>3, <2>1
    <3>4. state_' \in {1, 2, 4}
      BY <2>1
    <3> QED
      BY <1>4, <2>1, <2>2, <2>4, <3>2, <3>3, <3>4, EpilogueParsed
  <2>5. state_ # 0
    BY <2>1
  <2> QED
    BY <2>3, <2>4, <2>5, ItemOrEpilogue
<1>8. CASE /\ Head(buf_) = "dash" /\ buf_' = <<>> /\ Turn(4) /\ is_valid_' = TRUE
           /\ UNCHANGED <<state_, file_, entries>>
  <2>1. /\ Head(buf_) = "dash" /\ buf_' = <<>> /\ state_ = 4 /\ state_' = 4
        /\ UNCHANGED <<entries, message, body, asked, options>>
    BY <1>8 DEF Turn, Turning
  <2>2. is_valid_' = TRUE
    BY <1>8
  <2>3. PICK q : q = Len(body)
    OBVIOUS
  <2>4. q \in Nat /\ q >= p + 1
    BY <1>3, <2>3
  <2>5. BufferAt(q)'
    <3>1. IsSequence(buf_') /\ Len(buf_') = 0
      BY <2>1, EmptySequence
    <3>2. q + 0 = Len(body') /\ 1 .. 0 = {} /\ 0 \in Nat
      BY <2>1, <2>3, <2>4
    <3> QED
      BY <2>4, <3>1, <3>2 DEF BufferAt
  <2>6. ASSUME is_valid_ = FALSE, NEW k, NEW o, NEW h, NEW c, Place(off, k, o, h, c), InItem(k, o, h, c, p)
        PROVE  ParsedAt(off, q)'
    <3>1. /\ k \in 1 .. n /\ ItemsBefore(k) /\ off[k] \in Nat /\ p = off[k] + 2
          /\ Head(buf_) = IF k = n THEN "dash" ELSE "crlf"
      BY <1>6, <2>1, <2>6
    <3>2. k = n
      BY <2>1, <3>1
    <3>3. q >= z + 3 /\ ItemsBefore(n)
      BY <1>4, <2>4, <3>1, <3>2
    <3>4. ItemsBefore(Len(asked))'
      BY <1>4, <2>1, <3>3 DEF ItemsBefore
    <3>5. (Len(asked) > 0 => is_valid_ = TRUE \/ parsing = "failed")'
      BY <2>2
    <3>6. InEpilogue(off, q)'
      BY <1>4, <2>1, <2>4, <3>3, <3>4, <3>5 DEF InEpilogue
    <3>7. Parsed(off, q)'
      BY <3>6, Zenon DEF Parsed
    <3> QED
      BY <2>5, <3>7 DEF ParsedAt
  <2>7. CASE InEpilogue(off, p)
    <3>1. p >= z + 3
      BY <1>4, <2>7 DEF InEpilogue
    <3>2. q >= z + 3
      BY <1>3, <1>5, <2>4, <3>1
    <3>3. state_' \in {1, 2, 4} /\ state_' = 4
      BY <2>1
    <3> QED
      BY <1>4, <2>1, <2>2, <2>5, <2>7, <3>2, <3>3, EpilogueParsed
  <2>8. state_ # 0
    BY <2>1
  <2> QED
    BY <2>6, <2>7, <2>8, ItemOrEpilogue
<1> QED
  BY <1>1, <1>7, <1>8 DEF Boundary

\* Every turn leaves the parser where the form says.
LEMMA TurnParsed ==
  ASSUME NEW off, NEW p, Turning(off, p), ParserTurn
  PROVE  \E q : ParsedAt(off, q)'
<1>1. CASE InitialBoundary
  <2>1. state_ = 0
    BY <1>1 DEF InitialBoundary, NeedMore, Turn
  <2> QED
    BY <1>1, <2>1, FirstBoundaryParsed
<1>2. CASE NewEntry
  BY <1>2, NewEntryParsed
<1>3. CASE Headers
  <2>1. state_ = 2
    BY <1>3 DEF Headers, ParseHeader, EndOfHeaders, RejectHeader, NeedMore, Turn
  <2> QED
    BY <1>3, <2>1, HeadersParsed
<1>4. CASE Body
  BY <1>4, EndOfBodyParsed, PartOfBodyParsed DEF Body
<1>5. CASE Boundary
  BY <1>5, BoundaryParsed
<1> QED
  BY <1>1, <1>2, <1>3, <1>4, <1>5 DEF ParserTurn

\* More of the content has been read.
ReadsOn(a, b) ==
  IsSequence(a) /\ IsSequence(b) /\ Len(a) <= Len(b) /\ \A i \in 1 .. Len(b) : b[i] = message.content[i]

\* parse() has returned true.
AtRest == parsing = "at rest"

\* It is called with what has been read.
HandsOver == AtRest /\ Parse(SubSeq(body', Len(body) + 1, Len(body')))

\* What has been read goes to the end of the buffer.
LEMMA ReadParsed ==
  ASSUME NEW off, NEW p, ParsedAt(off, p), ReadsOn(body, body'),
         UNCHANGED <<message, asked, options>>, HandsOver
  PROVE  ParsedAt(off, p)'
<1>1. PICK a, b, v : a = body /\ b = body' /\ v = SubSeq(b, Len(a) + 1, Len(b))
  OBVIOUS
<1>2. PICK l, m, n : l = Len(buf_) /\ m = Len(a) /\ n = Len(b)
  OBVIOUS
<1>13. IsSequence(a) /\ IsSequence(b) /\ m <= n /\ \A i \in 1 .. n : b[i] = message.content[i]
  BY <1>1, <1>2 DEF ReadsOn
<1>3. l \in Nat /\ p \in Nat /\ p + l = m /\ IsSequence(buf_) /\ \A i \in 1 .. l : buf_[i] = message.content[p + i]
  BY <1>1, <1>2 DEF ParsedAt, BufferAt
<1>4. m \in Nat /\ n \in Nat /\ m <= n
  BY <1>2, <1>13, SequenceIs
<1>5. IsSequence(v) /\ Len(v) = n - m /\ \A i \in 1 .. n - m : v[i] = b[m + i]
  <2>1. m + 1 \in 1 .. n + 1 /\ n \in (m + 1) - 1 .. n /\ n - (m + 1) + 1 = n - m
        /\ \A i \in 1 .. n - m : (m + 1) + i - 1 = m + i
    BY <1>4
  <2>2. /\ IsSequence(v) /\ Len(v) = n - (m + 1) + 1
        /\ \A i \in 1 .. n - (m + 1) + 1 : v[i] = b[(m + 1) + i - 1]
    BY <1>1, <1>2, <1>13, <2>1, Subsequence
  <2> QED
    BY <2>1, <2>2
<1>6. PICK c, w : c = buf_ /\ w = c \o v
  OBVIOUS
<1>7. /\ IsSequence(w) /\ Len(w) = Len(c) + Len(v)
      /\ \A i \in 1 .. Len(c) : w[i] = c[i]
      /\ \A i \in 1 .. Len(v) : w[Len(c) + i] = v[i]
  <2>1. IsSequence(c) /\ IsSequence(v)
    BY <1>3, <1>5, <1>6
  <2>2. /\ IsSequence(c \o v) /\ Len(c \o v) = Len(c) + Len(v)
        /\ \A i \in 1 .. Len(c) : (c \o v)[i] = c[i]
        /\ \A i \in 1 .. Len(v) : (c \o v)[Len(c) + i] = v[i]
    BY <2>1, Concatenation
  <2> QED
    BY <1>6, <2>2
<1>8. buf_' = w /\ UNCHANGED <<state_, file_, entries, is_valid_>>
  BY <1>1, <1>6 DEF HandsOver, Parse
<1>9. Len(w) = l + (n - m) /\ l + (n - m) \in Nat /\ p + (l + (n - m)) = n
  <2>1. l + (n - m) \in Nat /\ p + (l + (n - m)) = n
    BY <1>3, <1>4
  <2>2. Len(w) = l + (n - m)
    BY <1>2, <1>5, <1>6, <1>7
  <2> QED
    BY <2>1, <2>2
<1>10. ASSUME NEW i \in 1 .. l + (n - m) PROVE w[i] = message.content[p + i]
  <2>1. CASE i \in 1 .. l
    BY <1>2, <1>3, <1>6, <1>7, <2>1
  <2>2. CASE i \notin 1 .. l
    <3>1. PICK j : j = i - l
      OBVIOUS
    <3>2. j \in 1 .. n - m /\ l + j = i /\ m + j = p + i /\ p + i \in 1 .. n
      BY <1>3, <1>4, <2>2, <3>1
    <3>3. w[l + j] = v[j] /\ v[j] = b[m + j]
      BY <1>2, <1>5, <1>6, <1>7, <3>2
    <3>4. b[p + i] = message.content[p + i]
      BY <1>13, <3>2
    <3> QED
      BY <3>2, <3>3, <3>4
  <2> QED
    BY <2>1, <2>2
<1>11. BufferAt(p)'
  BY <1>1, <1>2, <1>3, <1>7, <1>8, <1>9, <1>10 DEF BufferAt
<1>12. Parsed(off, p)'
  <2>1. parsing = "failed" => parsing' = "failed"
    BY DEF HandsOver, AtRest
  <2>2. is_valid_' = is_valid_ \/ (is_valid_' = FALSE /\ parsing' = "failed")
    BY <1>8
  <2> QED
    BY <1>8, <2>1, <2>2, NothingParsed DEF ParsedAt
<1> QED
  BY <1>11, <1>12 DEF ParsedAt

\* A form that has items, and not too many, and no epilogue is not refused.
LEMMA NotRejected ==
  ASSUME NEW off, NEW p, Turning(off, p), options = <<>>, Len(asked) \in 1 .. MaxFiles, RejectHeader
  PROVE  FALSE
<1>1. /\ state_ = 2 /\ Found(crlf_)
      /\ IF Find(crlf_) = 0 THEN Len(entries) >= MaxFiles
         ELSE Find(crlf_) > 1 \/ Head(buf_) \notin HeaderLines
  BY DEF RejectHeader
<1>2. PICK f, l, e : f = Find(crlf_) /\ l = Len(buf_) /\ e = Head(buf_)
  OBVIOUS
<1>3. /\ l \in Nat /\ l >= 1 /\ p \in Nat /\ p + l = Len(body) /\ IsSequence(buf_) /\ e = buf_[1]
  BY <1>2, BufferHead
<1>4. /\ f \in 0 .. l /\ f + 1 <= l /\ buf_[f + 1] = "crlf"
      /\ \A i \in 1 .. l : buf_[i] = "crlf" => f <= i - 1
  BY <1>1, <1>2, <1>3, CrlfFound
<1>5. ASSUME is_valid_ = FALSE, NEW k, NEW o, NEW h, NEW c, Place(off, k, o, h, c), InItem(k, o, h, c, p)
      PROVE  FALSE
  <2>1. InHeaders(k, o, h, p)
    BY <1>1, <1>5 DEF InItem
  <2>2. PICK j : j = Len(file_)
    OBVIOUS
  <2>3. /\ j \in 0 .. h /\ h \in Nat
        /\ j < h => e \in HeaderLines
        /\ j < h /\ l >= 2 => buf_[2] = "crlf"
        /\ j = h => e = "crlf"
    BY <1>2, <1>5, <2>1, <2>2, NextHeader
  <2>4. CASE j < h
    <3>1. e # "crlf" /\ e \in HeaderLines
      BY <2>3, <2>4, FormsAssumption
    <3>2. f # 0
      <4>1. f = 0 => f + 1 = 1
        OBVIOUS
      <4> QED
        BY <1>3, <1>4, <3>1, <4>1
    <3>3. l >= 2 /\ 2 \in 1 .. l
      BY <1>3, <1>4, <3>2
    <3>4. f <= 2 - 1
      BY <1>4, <2>3, <2>4, <3>3
    <3>5. f = 1
      BY <1>4, <3>2, <3>4
    <3> QED
      BY <1>1, <1>2, <3>1, <3>5
  <2>5. CASE j = h
    <3>1. 1 \in 1 .. l
      BY <1>3
    <3>2. f <= 1 - 1
      BY <1>3, <1>4, <2>3, <2>5, <3>1
    <3>3. f = 0
      BY <1>4, <3>2
    <3>4. k \in 1 .. Len(asked) /\ Len(entries) = k - 1
      BY <1>5, <2>1 DEF Place, InHeaders, ItemsBefore
    <3>5. k - 1 < MaxFiles
      BY <3>4, FormsAssumption
    <3> QED
      BY <1>1, <1>2, <3>3, <3>4, <3>5, FormsAssumption
  <2> QED
    BY <2>3, <2>4, <2>5
<1>6. CASE InEpilogue(off, p)
  <2>1. PICK z, w, b : z = off[Len(asked)] /\ w = Len(message.content) /\ b = Len(body)
    OBVIOUS
  <2>2. z \in Nat /\ w = z + 4 + 0
    <3>1. Len(asked) \in 0 .. Len(asked)
      OBVIOUS
    <3>2. Len(options) = 0
      BY EmptySequence
    <3> QED
      BY <2>1, <3>1, <3>2 DEF Turning, IsForm, Layout
  <2>3. b <= w
    BY <2>1 DEF Turning
  <2>4. p >= z + 4
    BY <1>1, <1>6, <2>1 DEF InEpilogue
  <2>5. p + l = b
    BY <1>3, <2>1
  <2> QED
    BY <1>3, <2>2, <2>3, <2>4, <2>5
<1>7. state_ # 0
  BY <1>1
<1> QED
  BY <1>5, <1>6, <1>7, ItemOrEpilogue

\* What a parser that is at rest waits for.
ParserWaits ==
  \/ buf_ = <<>>
  \/ state_ = 0 /\ ~Found(dash_boundary_crlf_)
  \/ state_ = 2 /\ ~Found(crlf_)
  \/ state_ = 3 /\ Len(buf_) <= 3
  \/ state_ = 4 /\ Head(buf_) \notin {"crlf", "dash"}

\* It waits as long as it holds the same.
LEMMA ParserWaitsOn ==
  ASSUME ParserWaits, UNCHANGED <<state_, buf_>>
  PROVE  ParserWaits'
BY DEF ParserWaits, Found, Find

\* A turn after which it is at rest.
LEMMA TurnWaits ==
  ASSUME ParserTurn, AtRest', IsSequence(buf_)
  PROVE  ParserWaits'
<1>1. ASSUME NEW q, Turn(q) PROVE ParserWaits'
  <2>1. buf_' = <<>>
    BY <1>1 DEF Turn, AtRest
  <2> QED
    BY <2>1 DEF ParserWaits
<1>2. CASE InitialBoundary
  <2>1. CASE ~Found(dash_boundary_crlf_) /\ NeedMore(0)
    <3>1. ParserWaits /\ UNCHANGED <<state_, buf_>>
      BY <2>1 DEF ParserWaits, NeedMore
    <3> QED
      BY <3>1, ParserWaitsOn
  <2> QED
    BY <1>1, <1>2, <2>1 DEF InitialBoundary
<1>3. CASE NewEntry
  BY <1>1, <1>3 DEF NewEntry
<1>4. CASE Headers
  <2>1. CASE ~Found(crlf_) /\ NeedMore(2)
    <3>1. ParserWaits /\ UNCHANGED <<state_, buf_>>
      BY <2>1 DEF ParserWaits, NeedMore
    <3> QED
      BY <3>1, ParserWaitsOn
  <2>2. ~RejectHeader
    BY DEF RejectHeader, Reject, AtRest
  <2> QED
    BY <1>1, <1>4, <2>1, <2>2 DEF Headers, ParseHeader, EndOfHeaders
<1>5. CASE Body
  <2>1. CASE EndOfBody
    BY <1>1, <2>1 DEF EndOfBody
  <2>2. CASE PartOfBody
    <3>1. PICK l : l = Len(buf_)
      OBVIOUS
    <3>5. PICK n : n = l - 3
      OBVIOUS
    <3>2. /\ state_' = 3
          /\ n > 0 => Erase(n)
          /\ ~(n > 0) => buf_' = buf_
      <4>1. Len(crlf_dash_boundary_) = 3
        BY ThreeElements DEF crlf_dash_boundary_
      <4> QED
        BY <2>2, <3>1, <3>5, <4>1 DEF PartOfBody
    <3>3. l \in Nat
      BY <3>1, SequenceIs
    <3>4. Len(buf_') <= 3
      <4>1. CASE n > 0
        <5>4. n \in Nat /\ l = n + 3
          BY <3>3, <3>5, <4>1
        <5>1. n + 1 \in 1 .. l + 1 /\ l \in (n + 1) - 1 .. l /\ l - (n + 1) + 1 = 3
          BY <5>4
        <5>2. buf_' = SubSeq(buf_, n + 1, l)
          BY <3>1, <3>2, <4>1 DEF Erase
        <5>3. Len(buf_') = l - (n + 1) + 1
          BY <3>1, <5>1, <5>2, Subsequence
        <5> QED
          BY <5>1, <5>3
      <4>2. CASE ~(n > 0)
        <5>1. l <= 3
          BY <3>3, <3>5, <4>2
        <5> QED
          BY <3>1, <3>2, <4>2, <5>1
      <4> QED
        BY <4>1, <4>2
    <3> QED
      BY <3>2, <3>4 DEF ParserWaits
  <2> QED
    BY <1>5, <2>1, <2>2 DEF Body
<1>6. CASE Boundary
  <2>1. CASE Head(buf_) \notin {"crlf", "dash"} /\ NeedMore(4)
    <3>1. ParserWaits /\ UNCHANGED <<state_, buf_>>
      BY <2>1 DEF ParserWaits, NeedMore
    <3> QED
      BY <3>1, ParserWaitsOn
  <2> QED
    BY <1>1, <1>6, <2>1 DEF Boundary
<1> QED
  BY <1>2, <1>3, <1>4, <1>5, <1>6 DEF ParserTurn

\* When all of the form has been read the parser waits for nothing before the
\* last boundary.
LEMMA AllParsed ==
  ASSUME NEW off, IsForm(off), NEW p, ParsedAt(off, p), ParserWaits,
         Len(body) = Len(message.content), Len(asked) > 0
  PROVE  InEpilogue(off, p)
<1>1. PICK n, z, l : n = Len(asked) /\ z = off[n] /\ l = Len(buf_)
  OBVIOUS
<1>2. n \in Nat /\ n > 0 /\ z \in Nat /\ l \in Nat /\ p \in Nat /\ p + l >= z + 4
  <2>1. n \in Nat
    BY <1>1, SequenceIs DEF IsForm
  <2>2. n \in 0 .. n /\ Len(options) \in Nat
    BY <2>1, SequenceIs DEF IsForm
  <2>3. z \in Nat /\ Len(message.content) = z + 4 + Len(options)
    BY <1>1, <2>2 DEF IsForm, Layout
  <2>4. l \in Nat /\ p \in Nat /\ p + l = z + 4 + Len(options)
    BY <1>1, <2>3 DEF ParsedAt, BufferAt
  <2> QED
    BY <1>1, <2>1, <2>2, <2>3, <2>4
<1>3. IsSequence(buf_) /\ \A i \in 1 .. l : buf_[i] = message.content[p + i]
  BY <1>1 DEF ParsedAt, BufferAt
<1>4. buf_ = <<>> => l = 0
  BY <1>1, EmptySequence
<1>5. ASSUME state_ = 0, p = 0 PROVE FALSE
  <2>1. 1 \in 1 .. Len(asked) /\ 1 - 1 = 0
    BY <1>1, <1>2
  <2>2. PICK o, h, c \in Nat : Place(off, 1, o, h, c)
    BY <2>1, PlaceExists
  <2>3. o = 0
    BY <2>1, <2>2 DEF Place, IsForm, Layout
  <2>4. message.content[1] = "dash" /\ message.content[2] = "boundary" /\ message.content[3] = "crlf"
    <3>1. Tokens(1, 0, h, c)
      BY <2>2, <2>3, TokensAt
    <3>2. 0 + 1 = 1 /\ 0 + 2 = 2 /\ 0 + 3 = 3
      OBVIOUS
    <3> QED
      BY <3>1, <3>2 DEF Tokens
  <2>5. l >= 4 /\ 1 \in 1 .. l /\ 2 \in 1 .. l /\ 3 \in 1 .. l /\ 0 + 1 = 1 /\ 0 + 2 = 2 /\ 0 + 3 = 3 /\ 3 <= l
    BY <1>2, <1>5
  <2>6. buf_[1] = "dash" /\ buf_[2] = "boundary" /\ buf_[3] = "crlf"
    BY <1>3, <1>5, <2>4, <2>5
  <2>7. Found(dash_boundary_crlf_)
    <3>1. 0 \in Nat /\ 0 + 3 <= Len(buf_)
      BY <1>1, <2>5
    <3> QED
      BY <1>3, <2>5, <2>6, <3>1, ThreeFound DEF dash_boundary_crlf_
  <2>8. buf_ # <<>>
    BY <1>4, <2>5
  <2> QED
    BY <1>5, <2>7, <2>8 DEF ParserWaits
<1>6. ASSUME NEW k, NEW o, NEW h, NEW c, Place(off, k, o, h, c), InItem(k, o, h, c, p)
      PROVE  FALSE
  <2>1. Tokens(k, o, h, c) /\ off[k] = o + 2 * h + c + 5 /\ off[k] <= z
    BY <1>1, <1>6, TokensAt
  <2>2. o \in Nat /\ h \in Nat /\ c \in Nat
    BY <2>1 DEF Tokens
  <2>3. o + 2 * h + c + 5 <= z
    BY <2>1
  <2>4. CASE state_ = 1 /\ p = o + 3
    <3>1. l > 0
      BY <1>2, <2>2, <2>3, <2>4
    <3> QED
      BY <1>4, <2>4, <3>1 DEF ParserWaits
  <2>5. CASE state_ = 2 /\ InHeaders(k, o, h, p)
    <3>1. PICK j : j \in 0 .. h /\ p = o + 2 * j + 3
      BY <2>5 DEF InHeaders
    <3>2. PICK i : i = 2 * h - 2 * j + 1
      OBVIOUS
    <3>3. i \in 1 .. l /\ p + i = o + 2 * h + 4
      BY <1>2, <2>2, <2>3, <3>1, <3>2
    <3>4. buf_[i] = "crlf"
      BY <1>3, <2>1, <3>3 DEF Tokens
    <3>5. Found(crlf_)
      BY <1>1, <1>3, <3>3, <3>4, CrlfFound
    <3>6. buf_ # <<>>
      <4>1. l # 0
        BY <3>3
      <4> QED
        BY <1>4, <4>1
    <3> QED
      BY <2>5, <3>5, <3>6 DEF ParserWaits
  <2>6. CASE state_ = 3 /\ InContent(k, o, h, c, p)
    <3>1. PICK m : m \in 0 .. c /\ p = o + 2 * h + 4 + m
      BY <2>6 DEF InContent
    <3>2. l > 3
      BY <1>2, <2>2, <2>3, <3>1
    <3>3. ~(Len(buf_) <= 3) /\ buf_ # <<>>
      <4>1. l # 0 /\ ~(l <= 3)
        BY <1>2, <3>2
      <4> QED
        BY <1>1, <1>4, <4>1
    <3> QED
      BY <2>6, <3>3 DEF ParserWaits
  <2>7. CASE state_ = 4 /\ p = o + 2 * h + c + 7
    <3>1. l >= 2 /\ 1 \in 1 .. l /\ p + 1 = o + 2 * h + c + 8
      BY <1>2, <2>2, <2>3, <2>7
    <3>2. buf_[1] \in {"crlf", "dash"}
      <4>1. message.content[o + 2 * h + c + 8] \in {"crlf", "dash"}
        BY <2>1 DEF Tokens
      <4> QED
        BY <1>3, <3>1, <4>1
    <3>3. buf_ # <<>>
      BY <1>4, <3>1
    <3>4. Head(buf_) = buf_[1]
      BY <1>3, <3>3, FirstElement
    <3> QED
      BY <2>7, <3>2, <3>3, <3>4 DEF ParserWaits
  <2> QED
    BY <1>6, <2>4, <2>5, <2>6, <2>7 DEF InItem
<1> QED
  BY <1>5, <1>6, Zenon DEF ParsedAt, Parsed

\* How a form is read, and where the parser stands.
FormReader ==
  /\ message.framing = "length" /\ limit = message.length /\ receiver = "server"
  /\ reader \in {"head", "length", "done"} /\ result # "too large"
  /\ result = "error" => writer = "closed" \/ parsing = "failed"
  /\ parsing = "in parse" => buf_ # <<>>
  /\ Unmistakable(options) /\ AtRest => ParserWaits
  /\ options = <<>> /\ Len(asked) \in 1 .. MaxFiles => parsing # "failed"

\* What it has consumed and handed over.
FormAt == \E off : IsForm(off) /\ (Unmistakable(options) => \E p : ParsedAt(off, p))

FormInv == kind = "form" => FormReader /\ FormAt

\* At first the parser has consumed nothing.
LEMMA FormInvInit ==
  ASSUME MessagesInit
  PROVE  FormInv
<1> SUFFICES ASSUME kind = "form" PROVE FormReader /\ FormAt
  BY DEF FormInv
<1>1. FormInit /\ ContentInit /\ FormsInit
  <2>1. ~PlainInit /\ ~RangedInit
    BY DEF PlainInit, RangedInit
  <2> QED
    BY <2>1 DEF MessagesInit
<1>2. PICK text : text = Serialized(asked) \o options /\ message = Message("length", text, Len(text), 0)
  BY <1>1 DEF FormInit
<1>3. /\ asked \in Items /\ options \in Epilogues /\ receiver = "server" /\ limit = message.length
      /\ message.framing = "length" /\ message.content = text
  BY <1>1, <1>2 DEF FormInit, Message
<1>4. /\ state_ = 0 /\ buf_ = <<>> /\ entries = <<>> /\ is_valid_ = FALSE /\ parsing = "at rest"
      /\ reader = "head" /\ body = <<>> /\ result = "none"
  BY <1>1 DEF FormsInit, ContentInit
<1>5. FormReader
  <2>1. ParserWaits
    BY <1>4 DEF ParserWaits
  <2> QED
    BY <1>3, <1>4, <2>1 DEF FormReader
<1>6. PICK off : IsForm(off)
  <2>1. IsSequence(asked) /\ (\A i \in DOMAIN asked : IsItem(asked[i])) /\ IsSequence(options)
    BY <1>3, MessagesAssumption
  <2>2. PICK off : Layout(text, asked, options, off)
    BY <1>2, <2>1, FormLayout
  <2> QED
    BY <1>3, <2>1, <2>2 DEF IsForm
<1>7. ParsedAt(off, 0)
  <2>1. IsSequence(buf_) /\ Len(buf_) = 0 /\ IsSequence(entries) /\ Len(entries) = 0 /\ Len(body) = 0
    BY <1>4, EmptySequence
  <2>2. 1 .. 0 = {} /\ 0 + 0 = 0 /\ 0 \in Nat
    OBVIOUS
  <2>3. BufferAt(0)
    BY <2>1, <2>2 DEF BufferAt
  <2>4. ItemsBefore(0)
    BY <2>1, <2>2 DEF ItemsBefore
  <2>5. Parsed(off, 0)
    BY <1>4, <2>4, Zenon DEF Parsed
  <2> QED
    BY <2>3, <2>5 DEF ParsedAt
<1> QED
  BY <1>5, <1>6, <1>7 DEF FormAt

\* Of a form no more than its length is read, which is not over the limit.
LEMMA FormReads ==
  ASSUME MessagesInv, FormReader, AtRest, ContentReader
  PROVE  /\ reader' \in {"head", "length", "done"} /\ result' # "too large"
         /\ result' = "error" => writer = "closed"
         /\ Len(body) <= Len(body')
<1>1. /\ message.framing = "length" /\ limit = message.length /\ reader \in {"head", "length", "done"}
      /\ result # "too large" /\ (result = "error" => writer = "closed")
  BY DEF FormReader, AtRest
<1>2. /\ message.length \in Nat /\ IsSequence(body) /\ rest \in Nat
      /\ (reader = "done") = (result # "none")
  BY DEF MessagesInv, MessageOK, ContentInv, PlacesInv
<1>3. Len(body) \in Nat
  BY <1>2, SequenceIs
<1>4. CASE ReadHead
  <2>1. body' = body
    BY <1>4 DEF ReadHead
  <2>2. ~(message.length > limit)
    <3>1. PICK a : a = message.length
      OBVIOUS
    <3>2. a \in Nat /\ limit = a
      BY <1>1, <1>2, <3>1
    <3>3. ~(a > a)
      BY <3>2
    <3> QED
      BY <3>1, <3>2, <3>3
  <2>3. result = "none"
    BY <1>2, <1>4 DEF ReadHead
  <2>6. message.framing = "length"
    BY <1>1
  <2>4. reader' \in {"length", "done"} /\ result' \in {"none", "success"}
    <3>1. CASE message.length = 0
      <4>1. reader' = "done" /\ result' = "success"
        BY <1>4, <2>6, <3>1 DEF ReadHead
      <4> QED
        BY <4>1
    <3>2. CASE message.length # 0
      <4>1. message.length > 0
        BY <1>2, <3>2
      <4>2. reader' = "length" /\ result' = result
        BY <1>1, <1>4, <2>2, <3>2, <4>1 DEF ReadHead
      <4> QED
        BY <2>3, <4>2
    <3> QED
      BY <3>1, <3>2
  <2>5. Len(body) <= Len(body')
    BY <1>3, <2>1
  <2> QED
    BY <2>4, <2>5
<1>5. CASE ReadLength
  <2>1. PICK n \in MayReturn(rest) :
          /\ reader = "length" /\ body' = body \o Units(n)
          /\ reader' = IF n = rest THEN "done" ELSE "length"
          /\ result' = IF n = rest THEN "success" ELSE result
    BY <1>5 DEF ReadLength
  <2>2. n \in Nat
    BY <1>2, <2>1 DEF MayReturn
  <2>3. Len(body) <= Len(body')
    <3>1. PICK a, u, w : a = body /\ u = Units(n) /\ w = body'
      OBVIOUS
    <3>2. IsSequence(a) /\ IsSequence(u) /\ Len(u) = n
      BY <1>2, <2>2, <3>1, UnitsAre
    <3>3. Len(a \o u) = Len(a) + Len(u)
      BY <3>2, Concatenation
    <3>4. Len(a) \in Nat /\ Len(w) = Len(a) + n
      BY <1>3, <2>1, <3>1, <3>2, <3>3
    <3>5. Len(a) <= Len(w)
      BY <2>2, <3>4
    <3> QED
      BY <3>1, <3>5
  <2>4. result = "none"
    BY <1>2, <2>1
  <2> QED
    BY <2>1, <2>3, <2>4
<1>6. CASE ReadEndOfFile
  <2>1. body' = body /\ reader' = "done" /\ writer = "closed"
    BY <1>6 DEF ReadEndOfFile, ReaderEnds, EndOfFile
  <2>2. result' = "error"
    BY <1>1, <1>6 DEF ReadEndOfFile, ReaderEnds
  <2> QED
    BY <1>3, <2>1, <2>2
<1>7. ~Skip /\ ~ReadUntilClose /\ ~ReadSize /\ ~ReadChunk /\ ~ReadChunkEnd /\ ~ReadTrailers
  BY <1>1 DEF Skip, ReadUntilClose, ReadSize, ReadChunk, ReadChunkEnd, ReadTrailers
<1> QED
  BY <1>4, <1>5, <1>6, <1>7 DEF ContentReader

\* Where nothing is handed to the parser it stays where it is.
LEMMA ParsedStays ==
  ASSUME NEW off, NEW p, ParsedAt(off, p), UNCHANGED formVars, body' = body, UNCHANGED <<message, asked>>
  PROVE  ParsedAt(off, p)'
<1>1. BufferAt(p)'
  BY DEF ParsedAt, BufferAt, formVars
<1>2. Parsed(off, p)'
  <2>1. UNCHANGED <<state_, file_, entries, message, asked>> /\ is_valid_' = is_valid_ /\ parsing' = parsing
    BY DEF formVars
  <2>2. Parsed(off, p)
    BY DEF ParsedAt
  <2>3. is_valid_' = is_valid_ \/ (is_valid_' = FALSE /\ parsing' = "failed")
    BY <2>1
  <2>4. parsing = "failed" => parsing' = "failed"
    BY <2>1
  <2> QED
    BY <2>1, <2>2, <2>3, <2>4, NothingParsed
<1> QED
  BY <1>1, <1>2 DEF ParsedAt

\* A form without an epilogue has no line in it that could be mistaken.
LEMMA NoEpilogue ==
  ASSUME options = <<>>
  PROVE  Unmistakable(options)
<1>1. DOMAIN options = {}
  OBVIOUS
<1> QED
  BY <1>1 DEF Unmistakable

\* Every step of the parser keeps it.
LEMMA ParsesKeeps ==
  ASSUME MessagesInv, kind = "form", FormReader, FormAt, Parses
  PROVE  FormReader' /\ FormAt'
<1>1. /\ ParserTurn /\ parsing = "in parse" /\ UNCHANGED contentVars /\ UNCHANGED requestVars
  BY DEF Parses, ParserTurn
<1>2. UNCHANGED <<message, receiver, limit, body, reader, result, writer, asked, options>>
  BY <1>1 DEF contentVars, requestVars, readerVars, writerVars
<1>3. buf_ # <<>>
  BY <1>1 DEF FormReader
<1>4. PICK off : IsForm(off) /\ (Unmistakable(options) => \E p : ParsedAt(off, p))
  BY DEF FormAt
<1>5. Len(body) <= Len(message.content)
  BY DEF MessagesInv, ContentInv, BodyInv, ParserOK
<1>6. ASSUME NEW p, ParsedAt(off, p), Unmistakable(options) PROVE Turning(off, p)
  BY <1>1, <1>2, <1>3, <1>4, <1>5, <1>6 DEF Turning
<1>7. FormAt'
  <2>1. IsForm(off)'
    BY <1>2, <1>4 DEF IsForm
  <2>2. ASSUME Unmistakable(options)' PROVE \E p : ParsedAt(off, p)'
    <3>1. Unmistakable(options)
      BY <1>2, <2>2 DEF Unmistakable
    <3>2. PICK p : ParsedAt(off, p)
      BY <1>4, <3>1
    <3> QED
      BY <1>1, <1>6, <3>1, <3>2, TurnParsed
  <2> QED
    BY <2>1, <2>2 DEF FormAt
<1>8. FormReader'
  <2>1. parsing' = "in parse" => buf_' # <<>>
    <3>1. ASSUME NEW q, Turn(q), parsing' = "in parse" PROVE buf_' # <<>>
      BY <3>1 DEF Turn
    <3>2. ASSUME parsing' = "in parse" PROVE \E q : Turn(q)
      <4>1. parsing' # "at rest" /\ parsing' # "failed"
        BY <3>2
      <4> QED
        BY <1>1, <4>1, Zenon
           DEF ParserTurn, InitialBoundary, NewEntry, Headers, ParseHeader, EndOfHeaders, RejectHeader, Reject,
               Body, EndOfBody, PartOfBody, Boundary, NeedMore
    <3> QED
      BY <3>1, <3>2
  <2>2. ASSUME Unmistakable(options)', AtRest' PROVE ParserWaits'
    <3>1. Unmistakable(options)
      BY <1>2, <2>2 DEF Unmistakable
    <3>2. IsSequence(buf_)
      BY <1>4, <3>1 DEF ParsedAt, BufferAt
    <3> QED
      BY <1>1, <2>2, <3>2, TurnWaits
  <2>3. ASSUME options = <<>>, Len(asked) \in 1 .. MaxFiles PROVE parsing' # "failed"
    <3>1. Unmistakable(options)
      BY <2>3, NoEpilogue
    <3>2. PICK p : ParsedAt(off, p)
      BY <1>4, <3>1
    <3>3. ~RejectHeader
      BY <1>6, <2>3, <3>1, <3>2, NotRejected
    <3> QED
      BY <1>1, <3>3, Zenon
         DEF ParserTurn, InitialBoundary, NewEntry, Headers, ParseHeader, EndOfHeaders,
             Body, EndOfBody, PartOfBody, Boundary, NeedMore, Turn
  <2>4. result # "error" \/ writer = "closed"
    BY <1>1 DEF FormReader
  <2> QED
    BY <1>2, <2>1, <2>2, <2>3, <2>4 DEF FormReader
<1> QED
  BY <1>7, <1>8

\* So does every step of the reader.
LEMMA ReadsKeeps ==
  ASSUME MessagesInv, MessagesInv', kind = "form", FormReader, FormAt, ReadsContent
  PROVE  FormReader' /\ FormAt'
<1>1. /\ AtRest /\ ContentReader
      /\ UNCHANGED <<message, receiver, limit, asked, options, writer>>
  <2>1. UNCHANGED <<message, receiver, limit, writer>>
    BY DEF ReadsContent, ContentReader, ReadHead, ReadLength, Skip, ReadUntilClose, ReadSize,
           ReadChunk, ReadChunkEnd, ReadTrailers, ReadEndOfFile, Read, writerVars
  <2> QED
    BY <2>1 DEF ReadsContent, requestVars, AtRest
<1>2. /\ reader' \in {"head", "length", "done"} /\ result' # "too large"
      /\ result' = "error" => writer = "closed"
      /\ Len(body) <= Len(body')
  BY <1>1, FormReads
<1>3. ReadsOn(body, body')
  <2>1. IsSequence(body) /\ IsSequence(body')
    BY DEF MessagesInv, ContentInv, PlacesInv
  <2>2. \A i \in 1 .. Len(body') : body'[i] = message'.content[i]
    BY <1>1 DEF MessagesInv, ContentInv, BodyInv, ParserOK, ReadsContent, requestVars
  <2> QED
    BY <1>1, <1>2, <2>1, <2>2 DEF ReadsOn
<1>4. CASE body' # body
  <2>1. Parse(SubSeq(body', Len(body) + 1, Len(body')))
    BY <1>4 DEF ReadsContent
  <2>2. HandsOver
    BY <1>1, <2>1 DEF HandsOver
  <2>3. parsing' = (IF buf_' = <<>> THEN "at rest" ELSE "in parse") /\ state_' = state_
    BY <2>1 DEF Parse
  <2>4. FormReader'
    <3>1. AtRest' => ParserWaits'
      BY <2>3 DEF AtRest, ParserWaits
    <3>2. (parsing' = "in parse" => buf_' # <<>>) /\ parsing' # "failed"
      BY <2>3
    <3> QED
      BY <1>1, <1>2, <3>1, <3>2 DEF FormReader
  <2>5. FormAt'
    <3>1. PICK off : IsForm(off) /\ (Unmistakable(options) => \E p : ParsedAt(off, p))
      BY DEF FormAt
    <3>2. IsForm(off)'
      BY <1>1, <3>1 DEF IsForm
    <3>3. ASSUME Unmistakable(options)' PROVE \E p : ParsedAt(off, p)'
      <4>1. Unmistakable(options)
        BY <1>1, <3>3 DEF Unmistakable
      <4>2. PICK p : ParsedAt(off, p)
        BY <3>1, <4>1
      <4>3. ParsedAt(off, p)'
        BY <1>1, <1>3, <2>2, <4>2, ReadParsed
      <4> QED
        BY <4>3
    <3> QED
      BY <3>2, <3>3 DEF FormAt
  <2> QED
    BY <2>4, <2>5
<1>5. CASE body' = body
  <2>1. UNCHANGED formVars
    BY <1>5 DEF ReadsContent
  <2>2. UNCHANGED <<parsing, buf_, state_>>
    BY <2>1 DEF formVars
  <2>3. FormReader'
    <3>1. ASSUME Unmistakable(options)' PROVE ParserWaits'
      <4>1. Unmistakable(options)
        BY <1>1, <3>1 DEF Unmistakable
      <4>2. ParserWaits
        BY <1>1, <4>1 DEF FormReader
      <4> QED
        BY <2>2, <4>2, ParserWaitsOn
    <3>2. parsing' # "failed" /\ parsing' # "in parse"
      BY <1>1, <2>2 DEF AtRest
    <3> QED
      BY <1>1, <1>2, <3>1, <3>2 DEF FormReader
  <2>4. FormAt'
    <3>1. PICK off : IsForm(off) /\ (Unmistakable(options) => \E p : ParsedAt(off, p))
      BY DEF FormAt
    <3>2. IsForm(off)'
      BY <1>1, <3>1 DEF IsForm
    <3>3. \A p : ParsedAt(off, p) => ParsedAt(off, p)'
      BY <1>1, <1>5, <2>1, ParsedStays
    <3> QED
      BY <1>1, <3>1, <3>2, <3>3 DEF FormAt, Unmistakable
  <2> QED
    BY <2>3, <2>4
<1> QED
  BY <1>4, <1>5

\* And every step that leaves the parser and what has been read alone.
LEMMA OthersKeep ==
  ASSUME FormReader, FormAt, UNCHANGED formVars, UNCHANGED <<message, receiver, limit, body, asked, options>>,
         reader' \in {reader, "done"}, result' \in {result, "error"},
         result' = "error" => writer' = "closed" \/ parsing = "failed"
  PROVE  FormReader' /\ FormAt'
<1>1. UNCHANGED <<parsing, buf_, state_>>
  BY DEF formVars
<1>2. FormReader'
  <2>1. ASSUME Unmistakable(options)', AtRest' PROVE ParserWaits'
    <3>1. Unmistakable(options) /\ AtRest
      BY <1>1, <2>1 DEF Unmistakable, AtRest
    <3>2. ParserWaits
      BY <3>1 DEF FormReader
    <3> QED
      BY <1>1, <3>2, ParserWaitsOn
  <2> QED
    BY <1>1, <2>1 DEF FormReader
<1>3. FormAt'
  <2>1. PICK off : IsForm(off) /\ (Unmistakable(options) => \E p : ParsedAt(off, p))
    BY DEF FormAt
  <2>2. IsForm(off)'
    BY <2>1 DEF IsForm
  <2>3. \A p : ParsedAt(off, p) => ParsedAt(off, p)'
    BY ParsedStays
  <2> QED
    BY <2>1, <2>2, <2>3 DEF FormAt, Unmistakable
<1> QED
  BY <1>2, <1>3

\* Every step keeps it.
LEMMA FormInvNext ==
  ASSUME MessagesInv, MessagesInv', FormInv, [MessagesNext]_messagesVars
  PROVE  FormInv'
<1>1. UNCHANGED <<message, receiver, limit, kind, asked, options>>
  BY MessageStays
<1> SUFFICES ASSUME kind = "form" PROVE FormReader' /\ FormAt'
  BY <1>1 DEF FormInv
<1>2. FormReader /\ FormAt
  BY DEF FormInv
<1>3. CASE WritesContent
  <2>1. UNCHANGED formVars /\ UNCHANGED readerVars /\ (writer = "closed" => writer' = "closed")
    BY <1>3 DEF WritesContent, ContentWriter, WriteHead, ProviderWrites, NothingToWrite,
                ProviderWritesNothing, ProviderDone, ProviderFails, Close, WriteNext, Write
  <2>2. UNCHANGED <<reader, result, body>>
    BY <2>1 DEF readerVars
  <2>3. result' = "error" => writer' = "closed" \/ parsing = "failed"
    BY <1>2, <2>1, <2>2 DEF FormReader
  <2> QED
    BY <1>1, <1>2, <2>1, <2>2, <2>3, OthersKeep
<1>4. CASE ReadsContent
  BY <1>2, <1>4, ReadsKeeps
<1>5. CASE Parses
  BY <1>2, <1>5, ParsesKeeps
<1>6. CASE ParseFails
  <2>1. /\ UNCHANGED formVars /\ body' = body /\ parsing = "failed" /\ reader' = "done" /\ result' = "error"
    BY <1>6 DEF ParseFails, ReaderEnds
  <2> QED
    BY <1>1, <1>2, <2>1, OthersKeep
<1>7. CASE UNCHANGED messagesVars
  <2>1. UNCHANGED formVars /\ UNCHANGED <<reader, result, body, writer>>
    BY <1>7 DEF messagesVars, contentVars, readerVars, writerVars
  <2>2. result' = "error" => writer' = "closed" \/ parsing = "failed"
    BY <1>2, <2>1 DEF FormReader
  <2> QED
    BY <1>1, <1>2, <2>1, <2>2, OthersKeep
<1> QED
  BY <1>3, <1>4, <1>5, <1>6, <1>7 DEF MessagesNext

\* There is an item.
LEMMA SomeItems ==
  ASSUME Len(asked) \in 1 .. MaxFiles
  PROVE  Len(asked) > 0
OBVIOUS

\* The invariant says what the parser has done.
LEMMA FormIsParsed ==
  ASSUME MessagesInv, FormInv
  PROVE  FormParsed
<1> SUFFICES ASSUME kind = "form"
             PROVE  /\ Accepted /\ Unmistakable(options) => [i \in DOMAIN entries |-> entries[i]] = asked
                    /\ result # "none" /\ options = <<>> /\ Len(asked) \in 1 .. MaxFiles
                         /\ writer # "closed" /\ parsing # "in parse"
                         => Accepted
  BY DEF FormParsed
<1>1. FormReader
  BY DEF FormInv
<1>2. PICK off : IsForm(off) /\ (Unmistakable(options) => \E p : ParsedAt(off, p))
  BY DEF FormInv, FormAt
<1>3. is_valid_ \in BOOLEAN /\ parsing \in {"at rest", "in parse", "failed"} /\ Fits
      /\ result \in {"none", "success", "error", "too large"}
  BY DEF MessagesInv, ParserOK, ContentInv, PlacesInv
<1>4. ASSUME Accepted, Unmistakable(options)
      PROVE  [i \in DOMAIN entries |-> entries[i]] = asked
  <2>1. is_valid_ = TRUE
    BY <1>3, <1>4, Zenon DEF Accepted
  <2>2. PICK p : ParsedAt(off, p)
    BY <1>2, <1>4
  <2>3. InEpilogue(off, p)
    BY <2>1, <2>2, Zenon DEF ParsedAt, Parsed
  <2>4. /\ IsSequence(entries) /\ Len(entries) = Len(asked)
        /\ \A j \in 1 .. Len(asked) : entries[j] = asked[j]
    BY <2>3 DEF InEpilogue, ItemsBefore
  <2>5. entries = asked
    BY <1>2, <2>4, SequencesEqual DEF IsForm
  <2>6. DOMAIN entries = 1 .. Len(entries) /\ entries = [i \in 1 .. Len(entries) |-> entries[i]]
    BY <2>4, SequenceIs
  <2> QED
    BY <2>5, <2>6
<1>5. ASSUME result # "none", options = <<>>, Len(asked) \in 1 .. MaxFiles, writer # "closed", parsing # "in parse"
      PROVE  Accepted
  <2>1. AtRest
    BY <1>1, <1>3, <1>5 DEF FormReader, AtRest
  <2>2. result = "success" /\ message.framing = "length"
    BY <1>1, <1>3, <1>5, <2>1 DEF FormReader, AtRest
  <2>3. body = message.content
    BY <1>3, <2>2, BodyIs
  <2>4. Unmistakable(options)
    BY <1>5, NoEpilogue
  <2>5. PICK p : ParsedAt(off, p)
    BY <1>2, <2>4
  <2>6. ParserWaits
    BY <1>1, <2>1, <2>4 DEF FormReader
  <2>7. Len(asked) > 0
    BY <1>5, SomeItems
  <2>8. InEpilogue(off, p)
    BY <1>2, <2>3, <2>5, <2>6, <2>7, AllParsed
  <2>9. is_valid_ = TRUE
    <3>1. parsing # "failed"
      BY <2>1 DEF AtRest
    <3>2. Len(asked) > 0 => is_valid_ = TRUE \/ parsing = "failed"
      BY <2>8 DEF InEpilogue
    <3> QED
      BY <2>7, <3>1, <3>2, Zenon
  <2> QED
    BY <2>2, <2>9, Zenon DEF Accepted
<1> QED
  BY <1>4, <1>5

\* However the body of a form is cut into pieces, the server gets the items that
\* the client has sent and nothing else, and it accepts every form that this
\* client sends, if it has items, and not too many (httplib.h:6513, 6707).
THEOREM MessagesFormParsed == MessagesSpec => []FormParsed
<1>1. MessagesInit => MessagesInv /\ FormInv
  BY MessagesInvInit, FormInvInit
<1>2. MessagesInv /\ FormInv /\ [MessagesNext]_messagesVars => (MessagesInv /\ FormInv)'
  BY MessagesInvNext, FormInvNext
<1>3. MessagesInv /\ FormInv => FormParsed
  BY FormIsParsed
<1> QED
  BY <1>1, <1>2, <1>3, PTL DEF MessagesSpec
=============================================================================
