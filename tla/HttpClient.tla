------------------------------ MODULE HttpClient ------------------------------
(***************************************************************************)
(* httplib::ClientImpl (async_io/httplib.h) under several callers: each    *)
(* sends one request at a time on the client's one socket_, or opens a     *)
(* stream, which takes the socket along.  The mutex that would keep the    *)
(* callers apart is commented out (httplib.h:10113); socket_mutex_ is a    *)
(* std::mutex held across the co_await of the connection (:10128), so who  *)
(* waits for it keeps a thread.                                            *)
(***************************************************************************)
EXTENDS HttpConnections

CONSTANTS
  Callers,
  MaxRedirects  \* redirect_count_ of a request

ASSUME ClientAssumption == MaxRedirects \in Nat /\ IsFiniteSet(Callers)

VARIABLES
  socket_,                                       \* the connection, 0 if none
  socket_mutex_,                                 \* whose suspended coroutine holds it: {} or one caller
  socket_requests_in_flight_,
  socket_should_be_closed_when_request_is_done_,
  blocked,   \* the callers that block a thread on socket_mutex_
  stopped,   \* stop() has been called
  used,      \* how many requests have been sent
  pc,        \* where each caller is
  depth,     \* how many redirects deep
  cur,       \* its request,
  on,        \* the connection that serves it,
  got,       \* the answer to it
  ret        \* and what send_ returns

sharedVars == <<socket_, socket_mutex_, socket_requests_in_flight_, socket_should_be_closed_when_request_is_done_>>
callerVars == <<pc, depth, cur, on, got, ret>>
clientVars == <<sharedVars, blocked, stopped, used, callerVars>>

NoAnswer == [t |-> "answer", id |-> 0, status |-> "none", close |-> FALSE]

None == [id |-> 0, stream |-> FALSE]

ClientInit ==
  /\ socket_ = 0
  /\ socket_mutex_ = {}
  /\ socket_requests_in_flight_ = 0
  /\ socket_should_be_closed_when_request_is_done_ = FALSE
  /\ blocked = {}
  /\ stopped = FALSE
  /\ used = 0
  /\ pc = [k \in Callers |-> "idle"]
  /\ depth = [k \in Callers |-> 0]
  /\ cur = [k \in Callers |-> None]
  /\ on = [k \in Callers |-> 0]
  /\ got = [k \in Callers |-> NoAnswer]
  /\ ret = [k \in Callers |-> FALSE]

Goto(k, from, to) == pc[k] = from /\ pc' = [pc EXCEPT ![k] = to]

\* A caller runs on a thread that is not blocked, or on the one it blocks.
Runs(k) == k \in blocked \/ Cardinality(blocked) < setup.workers
Locks(k) == socket_mutex_ = {} /\ Runs(k) /\ blocked' = blocked \ {k}

Blocks(k) ==
  /\ \/ pc[k] \in {"lock", "exit"}
     \/ pc[k] = "after" /\ got[k].close
  /\ socket_mutex_ # {} /\ k \notin blocked /\ Runs(k)
  /\ blocked' = blocked \cup {k}
  /\ UNCHANGED <<sharedVars, stopped, used, callerVars, connectionVars>>

\* shutdown_socket and close_socket: the connection is shut down for whoever
\* still uses it.
Shut(c) == clientEnd' = IF c = 0 THEN clientEnd ELSE [clientEnd EXCEPT ![c] = "closed"]
CloseSocket == Shut(socket_) /\ socket_' = 0

WireUnchanged == UNCHANGED <<setup, listening, serverEnd, up, down, sent, answered, spoiled>>

-----------------------------------------------------------------------------
(***************************************************************************)
(* send_ and open_stream, up to a connection that is the request's.        *)
(***************************************************************************)
Begin(k, request) ==
  /\ used < MaxRequests
  /\ used' = used + 1
  /\ cur' = [cur EXCEPT ![k] =
       [id |-> used', method |-> request.method, body |-> request.body, expect |-> request.expect,
        stream |-> request.stream, close |-> ~request.stream /\ ~setup.keep_alive_]]

Send(k) ==
  /\ Goto(k, "idle", "lock")
  /\ Cardinality({j \in Callers : cur[j] # None}) < setup.callers
  /\ \E request \in setup.requests : Begin(k, request)
  /\ UNCHANGED <<sharedVars, blocked, stopped, depth, on, got, ret, connectionVars>>

\* What follows the connection under the mutex: a request is counted, a stream
\* takes the socket.
Own(k, from, c) ==
  IF cur[k].stream
  THEN /\ Goto(k, from, "write")
       /\ socket_' = 0
       /\ on' = [on EXCEPT ![k] = c]
       /\ UNCHANGED socket_requests_in_flight_
  ELSE /\ Goto(k, from, "take")
       /\ socket_' = c
       /\ socket_requests_in_flight_' = socket_requests_in_flight_ + 1
       /\ UNCHANGED on

Forget(k) ==
  socket_should_be_closed_when_request_is_done_' =
    (cur[k].stream /\ socket_should_be_closed_when_request_is_done_)

InUse(c) == \E j \in Callers : on[j] = c /\ pc[j] \notin {"lock", "connect", "take"}

\* A stream takes the socket even of a request that is in flight.
Reuse(k) ==
  /\ Locks(k) /\ Forget(k)
  /\ socket_ # 0 /\ IsSocketAlive(socket_)
  /\ Own(k, "lock", socket_)
  /\ Spoil(socket_, IF cur[k].stream /\ InUse(socket_) THEN {"overlap"} ELSE {})
  /\ UNCHANGED <<socket_mutex_, stopped, used, depth, cur, got, ret>>
  /\ UNCHANGED <<setup, listening, clientEnd, serverEnd, up, down, sent, answered>>

Connect(k) ==
  /\ Locks(k) /\ Forget(k)
  /\ socket_ # 0 => ~IsSocketAlive(socket_)
  /\ Goto(k, "lock", "connect")
  /\ CloseSocket
  /\ socket_mutex_' = {k}
  /\ WireUnchanged
  /\ UNCHANGED <<socket_requests_in_flight_, stopped, used, depth, cur, on, got, ret>>

Connected(k) ==
  /\ Runs(k)
  /\ listening \in {"open", "cancelled"}
  /\ \E c \in Conns :
       /\ clientEnd[c] = "none" /\ \A d \in 1 .. c - 1 : clientEnd[d] # "none"
       /\ clientEnd' = [clientEnd EXCEPT ![c] = "open"]
       /\ Own(k, "connect", c)
  /\ socket_mutex_' = {}
  /\ WireUnchanged
  /\ UNCHANGED <<socket_should_be_closed_when_request_is_done_, blocked, stopped, used, depth, cur, got, ret>>

\* The caller has its result, and the rest is gone.
Idle(k, from) ==
  /\ Goto(k, from, "idle")
  /\ cur' = [cur EXCEPT ![k] = None]
  /\ on' = [on EXCEPT ![k] = 0]
  /\ got' = [got EXCEPT ![k] = NoAnswer]
  /\ ret' = [ret EXCEPT ![k] = FALSE]
  /\ UNCHANGED depth

\* send_ returns to redirect(), which was called within an outer send_, or to
\* its caller.
Return(k, from, value) ==
  \/ depth[k] = 0 /\ Idle(k, from)
  \/ /\ depth[k] > 0
     /\ Goto(k, from, "exit")
     /\ depth' = [depth EXCEPT ![k] = @ - 1]
     /\ ret' = [ret EXCEPT ![k] = value]
     /\ UNCHANGED <<cur, on, got>>

ConnectFails(k) ==
  /\ Runs(k)
  /\ setup.faults \/ listening \in {"none", "closed"} \/ \A c \in Conns : clientEnd[c] # "none"
  /\ Return(k, "connect", FALSE)
  /\ socket_mutex_' = {}
  /\ UNCHANGED <<socket_, socket_requests_in_flight_, socket_should_be_closed_when_request_is_done_>>
  /\ UNCHANGED <<blocked, stopped, used, connectionVars>>

\* process_socket reads socket_ without the mutex; another caller may have
\* closed it, and SocketStream gets a null pointer.
Take(k) ==
  /\ Runs(k)
  /\ Goto(k, "take", IF socket_ = 0 THEN "crashed" ELSE "write")
  /\ on' = [on EXCEPT ![k] = socket_]
  /\ IF socket_ # 0 /\ InUse(socket_) THEN Spoil(socket_, {"overlap"}) ELSE UNCHANGED spoiled
  /\ UNCHANGED <<sharedVars, blocked, stopped, used, depth, cur, got, ret>>
  /\ UNCHANGED <<setup, listening, clientEnd, serverEnd, up, down, sent, answered>>

-----------------------------------------------------------------------------
(***************************************************************************)
(* process_request: the request is written, the answer is read.            *)
(***************************************************************************)
ClientWrites(c, unit) == CanWrite(c) /\ up' = [up EXCEPT ![c] = Append(@, unit)]

WriteRequest(k) ==
  /\ Runs(k)
  /\ Goto(k, "write", IF cur[k].body THEN "body" ELSE "answer")
  /\ ClientWrites(on[k], [t |-> "head", of |-> cur[k]])
  /\ sent' = [sent EXCEPT ![on[k]] = Append(@, cur[k].id)]
  /\ UNCHANGED <<sharedVars, blocked, stopped, used, depth, cur, on, got, ret>>
  /\ UNCHANGED <<setup, listening, clientEnd, serverEnd, down, answered, spoiled>>

\* A stream's body is written once, and perhaps not all of it (httplib.h:10428).
WriteBody(k) ==
  /\ Runs(k)
  /\ Goto(k, "body", "answer")
  /\ \/ ClientWrites(on[k], [t |-> "body"]) /\ UNCHANGED spoiled
     \/ cur[k].stream /\ CanWrite(on[k]) /\ Spoil(on[k], {"short"}) /\ UNCHANGED up
  /\ UNCHANGED <<sharedVars, blocked, stopped, used, depth, cur, on, got, ret>>
  /\ UNCHANGED <<setup, listening, clientEnd, serverEnd, down, sent, answered>>

\* read_response_line and the headers; 100 is skipped, a content that is in its
\* place is no answer.  What has neither a length nor chunks is read until the
\* connection is closed: 417 here.
ReadAnswer(k) ==
  /\ Runs(k)
  /\ pc[k] = "answer" /\ ClientReads(on[k])
  /\ LET unit == Head(down[on[k]]) IN
     \/ /\ unit.t = "continue"
        /\ Goto(k, "answer", "answer")
        /\ UNCHANGED got
     \/ /\ unit.t = "content"
        /\ Goto(k, "answer", "failed")
        /\ UNCHANGED got
     \/ /\ unit.t \in {"answer", "417"}
        /\ got' = [got EXCEPT ![k] = IF unit.t = "answer" THEN unit
                                     ELSE [NoAnswer EXCEPT !.id = unit.id, !.status = "error"]]
        /\ Goto(k, "answer",
             IF cur[k].stream THEN "handle"
             ELSE IF cur[k].method = "HEAD" \/ got'[k].status = "not modified" THEN "after"
             ELSE IF unit.t = "417" THEN "drain" ELSE "content")
  /\ UNCHANGED <<sharedVars, blocked, stopped, used, depth, cur, on, ret>>
  /\ UNCHANGED <<setup, listening, clientEnd, serverEnd, up, sent, answered, spoiled>>

ReadAnswerContent(k) ==
  /\ Runs(k)
  /\ Goto(k, "content", "after")
  /\ ClientReads(on[k])
  /\ UNCHANGED <<sharedVars, blocked, stopped, used, depth, cur, on, got, ret>>
  /\ UNCHANGED <<setup, listening, clientEnd, serverEnd, up, sent, answered, spoiled>>

ReadUntilEnd(k) ==
  /\ Runs(k)
  /\ \/ Goto(k, "drain", "drain") /\ ClientReads(on[k])
     \/ Goto(k, "drain", "after") /\ ClientAtEnd(on[k]) /\ UNCHANGED down
  /\ UNCHANGED <<sharedVars, blocked, stopped, used, depth, cur, on, got, ret>>
  /\ UNCHANGED <<setup, listening, clientEnd, serverEnd, up, sent, answered, spoiled>>

\* A write or a read fails.
Failing(k) ==
  \/ pc[k] \in {"write", "body"} /\ ~CanWrite(on[k])
  \/ pc[k] \in {"answer", "content"} /\ ClientAtEnd(on[k])
  \/ pc[k] = "failed"

\* A stream's handle goes with its connection; send_ has its scope_exit.
RequestFails(k) ==
  /\ Runs(k) /\ Failing(k)
  /\ IF cur[k].stream
     THEN Idle(k, pc[k]) /\ Shut(on[k])
     ELSE /\ Goto(k, pc[k], "exit")
          /\ UNCHANGED <<depth, cur, on, got, ret, clientEnd>>
  /\ WireUnchanged
  /\ UNCHANGED <<sharedVars, blocked, stopped, used>>

\* The user has read what he wants of a stream and drops the handle.
DropHandle(k) ==
  /\ Idle(k, "handle")
  /\ Shut(on[k])
  /\ WireUnchanged
  /\ UNCHANGED <<sharedVars, blocked, stopped, used>>

-----------------------------------------------------------------------------
(***************************************************************************)
(* handle_request once there is an answer, redirect, and the end of send_. *)
(***************************************************************************)
\* Mutant: the client does not look at the Connection header.
CloseNever(k) == Runs(k) /\ UNCHANGED <<socket_, clientEnd, blocked>>

CloseAfterAnswer(k) ==
  IF got[k].close THEN Locks(k) /\ CloseSocket
  ELSE Runs(k) /\ UNCHANGED <<socket_, clientEnd, blocked>>

Redirected(k) == setup.follow_location_ /\ got[k].status \in {"moved", "not modified"}

Answered(k) ==
  /\ ~Redirected(k)
  /\ CloseAfterAnswer(k)
  /\ Goto(k, "after", "exit")
  /\ ret' = [ret EXCEPT ![k] = TRUE]
  /\ WireUnchanged
  /\ UNCHANGED <<socket_mutex_, socket_requests_in_flight_, socket_should_be_closed_when_request_is_done_>>
  /\ UNCHANGED <<stopped, used, depth, cur, on, got>>

\* To this host: send is called again with the request, or with GET if the
\* status is 303.
Redirect(k) ==
  /\ Redirected(k) /\ got[k].status = "moved" /\ depth[k] < MaxRedirects
  /\ CloseAfterAnswer(k)
  /\ Goto(k, "after", "lock")
  /\ depth' = [depth EXCEPT ![k] = @ + 1]
  /\ LET same == [method |-> cur[k].method, body |-> cur[k].body, expect |-> cur[k].expect, stream |-> FALSE]
         get == [method |-> "GET", body |-> FALSE, expect |-> FALSE, stream |-> FALSE]
     IN  \E request \in {same, IF cur[k].method = "HEAD" THEN same ELSE get} : Begin(k, request)
  /\ WireUnchanged
  /\ UNCHANGED <<socket_mutex_, socket_requests_in_flight_, socket_should_be_closed_when_request_is_done_>>
  /\ UNCHANGED <<stopped, on, got, ret>>

\* There is no location (a 304 has none), or there were too many; or another
\* host is asked with another client, with or without success.
NotRedirected(k) ==
  /\ Redirected(k)
  /\ CloseAfterAnswer(k)
  /\ Goto(k, "after", "exit")
  /\ \/ UNCHANGED <<got, ret>>
     \/ /\ got[k].status = "moved" /\ depth[k] < MaxRedirects
        /\ ret' = [ret EXCEPT ![k] = TRUE]
        /\ got' = [got EXCEPT ![k].status = "elsewhere"]
  /\ WireUnchanged
  /\ UNCHANGED <<socket_mutex_, socket_requests_in_flight_, socket_should_be_closed_when_request_is_done_>>
  /\ UNCHANGED <<stopped, used, depth, cur, on>>

\* Mutant: a request that was redirected is not counted down.
ExitRedirected(k) ==
  /\ Locks(k)
  /\ Return(k, "exit", ret[k])
  /\ socket_requests_in_flight_' = socket_requests_in_flight_ - IF depth[k] > 0 THEN 0 ELSE 1
  /\ IF socket_should_be_closed_when_request_is_done_ \/ ~setup.keep_alive_ \/ ~ret[k]
     THEN CloseSocket ELSE UNCHANGED <<socket_, clientEnd>>
  /\ WireUnchanged
  /\ UNCHANGED <<socket_mutex_, socket_should_be_closed_when_request_is_done_, stopped, used>>

\* scope_exit: whichever connection is socket_ by now is closed.
Exit(k) ==
  /\ Locks(k)
  /\ Return(k, "exit", ret[k])
  /\ socket_requests_in_flight_' = socket_requests_in_flight_ - 1
  /\ IF socket_should_be_closed_when_request_is_done_ \/ ~setup.keep_alive_ \/ ~ret[k]
     THEN CloseSocket ELSE UNCHANGED <<socket_, clientEnd>>
  /\ WireUnchanged
  /\ UNCHANGED <<socket_mutex_, socket_should_be_closed_when_request_is_done_, stopped, used>>

\* stop(), once, on any thread.
StopClient ==
  /\ ~stopped /\ stopped' = TRUE /\ "client" \in setup.stops
  /\ socket_mutex_ = {}
  /\ IF socket_requests_in_flight_ > 0
     THEN /\ Shut(socket_) /\ UNCHANGED socket_
          /\ socket_should_be_closed_when_request_is_done_' = TRUE
     ELSE CloseSocket /\ UNCHANGED socket_should_be_closed_when_request_is_done_
  /\ WireUnchanged
  /\ UNCHANGED <<socket_mutex_, socket_requests_in_flight_, blocked, used, callerVars>>

Continues(k) ==
  \/ Blocks(k) \/ Reuse(k) \/ Connect(k) \/ Connected(k) \/ ConnectFails(k) \/ Take(k)
  \/ WriteRequest(k) \/ WriteBody(k) \/ ReadAnswer(k) \/ ReadAnswerContent(k) \/ ReadUntilEnd(k) \/ RequestFails(k)
  \/ Answered(k) \/ Redirect(k) \/ NotRedirected(k) \/ Exit(k)
=============================================================================
