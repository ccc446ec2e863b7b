--------------------------------- MODULE Http ---------------------------------
(***************************************************************************)
(* The HTTP client and the HTTP server of async_io/httplib.h, each with    *)
(* its own threads, over the connections between them.                     *)
(***************************************************************************)
EXTENDS HttpServer, HttpClient

vars == <<connectionVars, serverVars, clientVars>>

Init == ConnectionsInit /\ ServerInit /\ ClientInit

ServerStep(A) == A /\ UNCHANGED clientVars
ClientStep(A) == A /\ UNCHANGED serverVars

Next ==
  \/ ServerStep(ListenAsync)
  \/ ServerStep(Stop)
  \/ \E c \in Conns : ServerStep(ProcessRequest(c))
  \/ \E k \in Callers : ClientStep(Send(k) \/ Continues(k) \/ DropHandle(k))
  \/ ClientStep(StopClient)

\* Coroutines that can run do, and handlers return; nobody has to send, to
\* stop, or to drop a handle, and a bind or an accept need not fail.
Fairness ==
  /\ WF_vars(ServerStep(Start \/ EnterLoop \/ Accept \/ PushClient \/ ShutdownTasks))
  /\ WF_vars(listening = "closed" /\ ServerStep(AcceptThrows))
  /\ WF_vars(ServerStep(StopCloses \/ StopCancels))
  /\ \A c \in Conns : WF_vars(ServerStep(ProcessRequest(c)))
  /\ \A k \in Callers : WF_vars(ClientStep(Continues(k)))

Spec == Init /\ [][Next]_vars
FairSpec == Spec /\ Fairness

-----------------------------------------------------------------------------
\* What is written to a connection: requests and their bodies; answers, what
\* precedes them, and their contents.
Requests ==
  [id : Nat, method : Methods, body : BOOLEAN, expect : BOOLEAN, stream : BOOLEAN, close : BOOLEAN]
Answers ==
  [t : {"answer"}, id : Nat, close : BOOLEAN,
   status : {"none", "ok", "moved", "not modified", "error", "elsewhere"}]
UpUnits == [t : {"head"}, of : Requests] \cup [t : {"body"}]
DownUnits == [t : {"continue", "417"}, id : Nat] \cup Answers \cup [t : {"content"}]

ConnectionsTypeOK ==
  /\ setup \in Setups /\ listening \in {"none", "open", "cancelled", "closed"}
  /\ clientEnd \in [Conns -> {"none", "open", "closed"}]
  /\ serverEnd \in [Conns -> {"none", "open", "cancelled", "closed"}]
  /\ up \in [Conns -> Seq(UpUnits)] /\ down \in [Conns -> Seq(DownUnits)]
  /\ sent \in [Conns -> Seq(Nat)] /\ answered \in [Conns -> Seq(Nat \cup {Error})]
  /\ spoiled \in [Conns -> SUBSET {"overlap", "unread", "417", "short"}]

ServerTypeOK ==
  /\ is_running_ \in BOOLEAN /\ accepted \in Conns \cup {0}
  /\ clients_ \subseteq Conns /\ late \subseteq Conns
  /\ serving \in [Conns -> {"none", "line", "expect", "routing", "respond", "close", "over"}]
  /\ req \in [Conns -> Requests \cup {NoRequest}]
  /\ left \in [Conns -> BOOLEAN] /\ connection_closed \in [Conns -> BOOLEAN]
  /\ status \in [Conns -> {"none", "ok", "moved", "not modified", "error"}]

ClientTypeOK ==
  /\ socket_ \in Conns \cup {0} /\ socket_mutex_ \subseteq Callers /\ blocked \subseteq Callers
  /\ socket_should_be_closed_when_request_is_done_ \in BOOLEAN /\ used \in Nat
  /\ pc \in [Callers -> {"idle", "lock", "connect", "take", "write", "body", "answer", "content",
                         "drain", "failed", "handle", "after", "exit", "crashed"}]
  /\ depth \in [Callers -> 0 .. MaxRedirects] /\ on \in [Callers -> Conns \cup {0}]
  /\ cur \in [Callers -> Requests \cup {None}]
  /\ got \in [Callers -> Answers] /\ ret \in [Callers -> BOOLEAN]

TypeOK == ConnectionsTypeOK /\ ServerTypeOK /\ ClientTypeOK

\* The activations of send_ that are between their two critical sections.
Activations(k) ==
  depth[k] + IF ~cur[k].stream /\ pc[k] \notin {"idle", "lock", "connect"} THEN 1 ELSE 0
InFlight == {a \in Callers \X (1 .. MaxRedirects + 1) : a[2] <= Activations(a[1])}

\* Up to the first error, and on a connection that is not confused, the i-th
\* answer is to the i-th request.
InStep(c) ==
  \/ spoiled[c] # {}
  \/ \A i \in DOMAIN answered[c] :
       answered[c][i] = Error \/ (i \in DOMAIN sent[c] /\ answered[c][i] = sent[c][i])

\* However callers interleave, redirects nest and connections fail: requests
\* in flight are counted exactly, socket_mutex_ is held only across a
\* connection (httplib.h:10128), a task serves an accepted connection, and the
\* server answers in step with the requests of each (httplib.h:9161, 10112).
HttpInv ==
  /\ TypeOK
  /\ socket_requests_in_flight_ = Cardinality(InFlight)
  /\ socket_mutex_ = {k \in Callers : pc[k] = "connect"}
  /\ \A c \in Conns : serving[c] # "none" => clientEnd[c] # "none" /\ serverEnd[c] # "none"
  /\ \A c \in Conns : InStep(c)

\* A response that send() returns answers the request it was called with: what
\* is left on a connection of an earlier exchange, its request or its answer,
\* is never taken for this one (httplib.h:8656: an answer to a request that was
\* not read says that the connection is to be closed; :10692: the client closes
\* it).  But a handler that answers well without having read the body leaves it
\* to be taken for a request, a 417 is followed by another answer (:9588), and
\* callers that share a connection take each other's (:10113).
Matched ==
  \A k \in Callers :
    pc[k] = "handle" \/ (pc[k] = "exit" /\ ret[k]) =>
      \/ got[k].id = cur[k].id
      \/ spoiled[on[k]] \cap {"overlap", "unread", "417"} # {}

\* Every thread of the client waits for socket_mutex_, whose holder needs one
\* of them (httplib.h:10128).
Wedged == Cardinality(blocked) = setup.workers

\* Nobody accepts any more, and the listening socket is still open: accept()
\* has thrown.
Unserved == listen \in {"joining", "over"} /\ listening \in {"open", "cancelled"}

Lost(k) == pc[k] # "lock" /\ pc[k] # "connect" /\ on[k] # 0 /\ spoiled[on[k]] \cap {"overlap", "417", "short"} # {}

\* Whoever sends a request or opens a stream gets an answer or an error,
\* although no timeout is kept (httplib.h:4144), whenever the server or the
\* client is stopped: but for the deadlock above, callers that share a
\* connection, a 417 (read until the end of a connection that stays open), a
\* stream's body cut short, and a server that does not accept.
SendsReturn ==
  \A k \in Callers :
    pc[k] = "lock" ~> \/ pc[k] \in {"idle", "handle", "crashed"}
                      \/ Wedged \/ Unserved \/ Lost(k)
                      \/ \E j \in Callers : pc[j] = "crashed"

\* A task that reads from a connection that stop() did not close: it came
\* too late, or the close does not end a pending read or accept (linux).
Waits ==
  \/ listen = "accept" /\ listening = "cancelled"
  \/ \E c \in Conns : Reading(c) /\ (c \in late \/ serverEnd[c] = "cancelled")

\* When stop() has found the server running, listen_async returns, with every
\* connection's task over (httplib.h:8517, 9188).
ListenReturns == stop = "close" ~> listen = "over" \/ Waits
=============================================================================
