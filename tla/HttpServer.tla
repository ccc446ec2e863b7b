------------------------------ MODULE HttpServer ------------------------------
(***************************************************************************)
(* httplib::Server (async_io/httplib.h): listen_async accepts connections, *)
(* each served by a task of its TaskManager; stop() runs on any thread.    *)
(* What handlers decide is nondeterministic.                               *)
(***************************************************************************)
EXTENDS HttpConnections

VARIABLES
  is_running_,
  listen,             \* where listen_async is
  accepted,           \* the connection it has just accepted, 0 if none
  stop,               \* where stop() is
  clients_,
  serving,            \* where the task of each connection is
  req,                \* the request it works on
  left,               \* the request's body has not been read
  status,             \* what it will answer
  connection_closed,
  late                \* history: the connections entered in clients_ after stop()

listenVars == <<is_running_, listen, accepted, stop, clients_, late>>
servingVars == <<serving, req, left, status, connection_closed>>
serverVars == <<listenVars, servingVars>>

NoRequest == [id |-> 0, method |-> "", body |-> FALSE, expect |-> FALSE, stream |-> FALSE, close |-> FALSE]

ServerInit ==
  /\ is_running_ = FALSE
  /\ listen = "idle"
  /\ accepted = 0
  /\ stop = "ready"
  /\ clients_ = {}
  /\ late = {}
  /\ serving = [c \in Conns |-> "none"]
  /\ req = [c \in Conns |-> NoRequest]
  /\ left = [c \in Conns |-> FALSE]
  /\ status = [c \in Conns |-> "none"]
  /\ connection_closed = [c \in Conns |-> FALSE]

-----------------------------------------------------------------------------
(***************************************************************************)
(* listen_async.                                                           *)
(***************************************************************************)
Listen(from, to) == listen = from /\ listen' = to

\* The socket is bound, or binding has failed; is_running_ is set later.
Bind ==
  /\ \/ Listen("idle", "bound") /\ listening' = "open"
     \/ setup.faults /\ Listen("idle", "failed") /\ UNCHANGED listening
  /\ UNCHANGED <<is_running_, accepted, stop, clients_, late, servingVars>>
  /\ UNCHANGED <<setup, clientEnd, serverEnd, up, down, sent, answered, spoiled>>

Start ==
  /\ Listen("bound", "test")
  /\ is_running_' = TRUE
  /\ UNCHANGED <<accepted, stop, clients_, late, servingVars, connectionVars>>

\* while (is_running_), which stop() may have cleared since it was set.
EnterLoop ==
  /\ Listen("test", IF is_running_ THEN "accept" ELSE "joining")
  /\ UNCHANGED <<is_running_, accepted, stop, clients_, late, servingVars, connectionVars>>

Accept ==
  /\ Listen("accept", "push")
  /\ listening \in {"open", "cancelled"}
  /\ \E c \in Backlog :
       /\ accepted' = c
       /\ IF listening = "open"
          THEN serverEnd' = [serverEnd EXCEPT ![c] = "open"] /\ UNCHANGED <<listening, up>>
          ELSE /\ listening' = "closed"
               /\ serverEnd' = [d \in Conns |-> IF d = c THEN "open" ELSE IF d \in Backlog THEN "closed" ELSE serverEnd[d]]
               /\ up' = [d \in Conns |-> IF d \in Backlog \ {c} THEN <<>> ELSE up[d]]
  /\ UNCHANGED <<is_running_, stop, clients_, late, servingVars>>
  /\ UNCHANGED <<setup, clientEnd, down, sent, answered, spoiled>>

\* accept() throws: the socket has been closed, or for a reason of its own.
AcceptThrows ==
  /\ Listen("accept", "joining")
  /\ listening = "closed" \/ (listening = "open" /\ setup.faults)
  /\ UNCHANGED <<is_running_, accepted, stop, clients_, late, servingVars, connectionVars>>

\* clients_ is never pruned: it keeps an entry of each connection until stop().
\* The connection's task is submitted, and the loop tests its condition again and
\* goes on.
PushClient ==
  /\ Listen("push", IF is_running_ /\ listening = "open" THEN "accept" ELSE "joining")
  /\ clients_' = clients_ \cup {accepted}
  /\ late' = IF stop = "done" THEN late \cup {accepted} ELSE late
  /\ serving' = [serving EXCEPT ![accepted] = "line"]
  /\ accepted' = 0
  /\ UNCHANGED <<is_running_, stop, req, left, status, connection_closed, connectionVars>>

\* task_manager_.shutdown() returns when no connection's task runs.
ShutdownTasks ==
  /\ Listen("joining", "over")
  /\ \A c \in Conns : serving[c] \in {"none", "over"}
  /\ is_running_' = FALSE
  /\ UNCHANGED <<accepted, stop, clients_, late, servingVars, connectionVars>>

-----------------------------------------------------------------------------
(***************************************************************************)
(* stop, once.  The Task that cancel_group returns is dropped unstarted.   *)
(***************************************************************************)
StopExchange ==
  /\ stop = "ready" /\ listen # "idle" /\ "server" \in setup.stops
  /\ stop' = IF is_running_ THEN "close" ELSE "ignored"
  /\ is_running_' = FALSE
  /\ UNCHANGED <<listen, accepted, clients_, late, servingVars, connectionVars>>

\* The engine closes the server socket, with an accept pending or not.
StopCloses ==
  /\ stop = "close" /\ stop' = "cancel"
  /\ listening' = IF listen = "accept" /\ ~setup.closeWakes THEN "cancelled" ELSE "closed"
  /\ ServerCloses(IF listening' = "closed" THEN Backlog ELSE {}, {})
  /\ UNCHANGED <<is_running_, listen, accepted, clients_, late, servingVars>>
  /\ UNCHANGED <<setup, clientEnd, down, sent, answered, spoiled>>

Reading(c) == serving[c] = "line" \/ (serving[c] = "routing" /\ left[c])

\* Mutant: the clients are forgotten, and not closed.
StopForgets ==
  /\ stop = "cancel" /\ stop' = "done"
  /\ clients_' = {}
  /\ UNCHANGED <<is_running_, listen, accepted, late, servingVars, connectionVars>>

\* Each client is closed; one that has a read pending keeps its descriptor on
\* linux.
StopCancels ==
  /\ stop = "cancel" /\ stop' = "done"
  /\ \E pending \in SUBSET {c \in clients_ : serverEnd[c] = "open" /\ Reading(c) /\ ~setup.closeWakes} :
       ServerCloses(clients_ \ pending, pending)
  /\ clients_' = {}
  /\ UNCHANGED <<is_running_, listen, accepted, late, servingVars>>
  /\ UNCHANGED <<setup, listening, clientEnd, down, sent, answered, spoiled>>

-----------------------------------------------------------------------------
(***************************************************************************)
(* A connection's task: process_request until it returns false or          *)
(* connection_closed.                                                      *)
(***************************************************************************)
Serve(c, from, to) == serving[c] = from /\ serving' = [serving EXCEPT ![c] = to]

WillAnswer(c, from, what) == Serve(c, from, "respond") /\ status' = [status EXCEPT ![c] = what]

IsRequestLine(unit) == unit.t = "head"

\* The request line and the headers.  What a request that was not read has left
\* behind is no request line; a target, Accept or Range may be refused.
ReadRequest(c) ==
  /\ serving[c] = "line" /\ ServerReads(c)
  /\ LET unit == Head(up[c]) IN
     /\ \/ WillAnswer(c, "line", "error")
        \/ /\ IsRequestLine(unit)
           /\ Serve(c, "line", IF unit.of.expect THEN "expect" ELSE "routing")
           /\ UNCHANGED status
     /\ req' = [req EXCEPT ![c] = IF IsRequestLine(unit) THEN unit.of ELSE NoRequest]
     /\ left' = [left EXCEPT ![c] = IsRequestLine(unit) /\ unit.of.body]
     /\ connection_closed' = [connection_closed EXCEPT ![c] = IsRequestLine(unit) /\ unit.of.close]
  /\ UNCHANGED <<listenVars, setup, listening, clientEnd, down, sent, answered, spoiled>>

NoRequestLine(c) ==
  /\ ServerAtEnd(c)
  /\ Serve(c, "line", "close")
  /\ UNCHANGED <<listenVars, req, left, status, connection_closed, connectionVars>>

\* 100 or 417 is written, and the request is routed all the same.
Expect(c) ==
  /\ Serve(c, "expect", "routing")
  /\ \E code \in {"continue", "417"} :
       /\ ServerWrites(c, <<[t |-> code, id |-> req[c].id]>>)
       /\ Spoil(c, {code} \ {"continue"})
  /\ UNCHANGED <<listenVars, req, left, status, connection_closed>>
  /\ UNCHANGED <<setup, listening, clientEnd, serverEnd, up, sent, answered>>

\* Another status that the handler has also set in the response.
ExpectRefused(c) ==
  /\ WillAnswer(c, "expect", "error")
  /\ connection_closed' = [connection_closed EXCEPT ![c] = TRUE]
  /\ UNCHANGED <<listenVars, req, left, connectionVars>>

\* A pre-routing handler, or one with a content reader it does not use; or
\* the content is too large, or the handler throws.
RouteUnread(c) ==
  /\ left[c]
  /\ \E what \in {"ok", "error"} :
       /\ WillAnswer(c, "routing", what)
       /\ Spoil(c, IF what = "ok" THEN {"unread"} ELSE {})
  /\ UNCHANGED <<listenVars, req, left, connection_closed>>
  /\ UNCHANGED <<setup, listening, clientEnd, serverEnd, up, down, sent, answered>>

ReadContent(c) ==
  /\ serving[c] = "routing" /\ left[c]
  /\ ServerReads(c)
  /\ left' = [left EXCEPT ![c] = FALSE]
  /\ UNCHANGED <<listenVars, serving, req, status, connection_closed>>
  /\ UNCHANGED <<setup, listening, clientEnd, down, sent, answered, spoiled>>

ReadContentFails(c) ==
  /\ left[c] /\ ServerAtEnd(c)
  /\ WillAnswer(c, "routing", "error")
  /\ UNCHANGED <<listenVars, req, left, connection_closed, connectionVars>>

\* A file is served, or a directory's name is redirected.
FileOutcomes(c) == IF req[c].method \in {"GET", "HEAD"} THEN {"ok", "moved"} ELSE {}

\* A handler sets a status or throws; there is none: 404.
HandlerOutcomes == {"ok", "moved", "not modified", "error"}

Dispatch(c) ==
  /\ ~left[c]
  /\ \E what \in FileOutcomes(c) \cup HandlerOutcomes : WillAnswer(c, "routing", what)
  /\ UNCHANGED <<listenVars, req, left, connection_closed, connectionVars>>

\* "Connection: close" says what the request has said, or that the status is an
\* error: but then the connection stays open (httplib.h:8656).
AnswerHead(c) ==
  [t |-> "answer", id |-> req[c].id, status |-> status[c],
   close |-> connection_closed[c] \/ status[c] = "error"]

AnswerContent(c) == IF req[c].method = "HEAD" \/ status[c] = "not modified" THEN <<>> ELSE <<[t |-> "content"]>>

\* process_request returns: its Request and Response are gone.
Returned(c) ==
  /\ req' = [req EXCEPT ![c] = NoRequest]
  /\ left' = [left EXCEPT ![c] = FALSE]
  /\ status' = [status EXCEPT ![c] = "none"]
  /\ connection_closed' = [connection_closed EXCEPT ![c] = FALSE]

WriteResponse(c) ==
  /\ Returned(c)
  /\ Serve(c, "respond", IF connection_closed[c] \/ serverEnd[c] # "open" THEN "close" ELSE "line")
  /\ ServerWrites(c, <<AnswerHead(c)>> \o AnswerContent(c))
  /\ answered' = [answered EXCEPT ![c] =
       IF Error \in ToSet(@) THEN @ ELSE @ \o <<req[c].id>> \o IF status[c] = "error" THEN <<Error>> ELSE <<>>]
  /\ UNCHANGED <<listenVars, setup, listening, clientEnd, serverEnd, up, sent, spoiled>>

\* Mutant: what has been written of a response counts as one.
WriteResponseGoesOn(c) ==
  /\ Returned(c)
  /\ Serve(c, "respond", "line")
  /\ setup.faults /\ status[c] = "ok" /\ AnswerContent(c) # <<>>
  /\ ServerWrites(c, <<AnswerHead(c)>>)
  /\ UNCHANGED <<listenVars, setup, listening, clientEnd, serverEnd, up, sent, answered, spoiled>>

\* The content provider fails.
WriteResponseFails(c) ==
  /\ Returned(c)
  /\ Serve(c, "respond", "close")
  /\ setup.faults /\ status[c] = "ok" /\ AnswerContent(c) # <<>>
  /\ ServerWrites(c, <<AnswerHead(c)>>)
  /\ UNCHANGED <<listenVars, setup, listening, clientEnd, serverEnd, up, sent, answered, spoiled>>

\* client->close(), or the socket's destructor after an exception.
CloseConnection(c) ==
  /\ Serve(c, "close", "over")
  /\ ServerCloses({c}, {})
  /\ UNCHANGED <<listenVars, req, left, status, connection_closed>>
  /\ UNCHANGED <<setup, listening, clientEnd, down, sent, answered, spoiled>>

ProcessRequest(c) ==
  \/ ReadRequest(c) \/ NoRequestLine(c) \/ Expect(c) \/ ExpectRefused(c)
  \/ RouteUnread(c) \/ ReadContent(c) \/ ReadContentFails(c) \/ Dispatch(c)
  \/ WriteResponse(c) \/ WriteResponseFails(c) \/ CloseConnection(c)

ListenAsync ==
  \/ Bind \/ Start \/ EnterLoop \/ Accept \/ AcceptThrows
  \/ PushClient \/ ShutdownTasks

Stop == StopExchange \/ StopCloses \/ StopCancels
=============================================================================
