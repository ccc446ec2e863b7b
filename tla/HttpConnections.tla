--------------------------- MODULE HttpConnections ---------------------------
(***************************************************************************)
(* The connections between the HTTP client and the HTTP server of          *)
(* async_io/httplib.h, as both see them through SocketStream and           *)
(* BufferedStream.  A connection carries requests (a head, perhaps a body) *)
(* up and answers (a head, perhaps a content) down; how bodies are framed  *)
(* is in HttpContent, and how the engine completes reads in IOEngines.     *)
(***************************************************************************)
EXTENDS SequencesExt, FiniteSetsExt, Integers

CONSTANTS
  MaxConns,     \* how many connections are made
  MaxRequests,  \* how many requests are sent
  Setups        \* what a run may assume, see SetupType

Conns == 1 .. MaxConns
Methods == {"GET", "HEAD", "POST", "PUT", "PATCH", "DELETE", "OPTIONS"}

\* What of a request matters: its method, whether it has a body and the header
\* Expect: 100-continue, and whether it is opened as a stream.
RequestType == [method : Methods, body : BOOLEAN, expect : BOOLEAN, stream : BOOLEAN]

\* keep_alive_ and follow_location_ of the client; how many threads resume its
\* coroutines; whether closing a descriptor completes what is pending on it (it
\* does on macos and windows, not on linux); how many callers send which
\* requests, and on which side stop() is called; whether binds, accepts, connects
\* and content providers fail of themselves.
SetupType ==
  [keep_alive_ : BOOLEAN, follow_location_ : BOOLEAN, workers : Nat \ {0}, closeWakes : BOOLEAN,
   callers : Nat, requests : SUBSET RequestType, stops : SUBSET {"client", "server"}, faults : BOOLEAN]

ASSUME ConnectionsAssumption ==
  /\ MaxConns \in Nat /\ MaxRequests \in Nat
  /\ \A s \in Setups : s \in SetupType

VARIABLES
  setup,
  listening,  \* the server's socket: "none", "open", "cancelled" (closed with an
              \* accept pending that keeps it), "closed"
  clientEnd,  \* "none", "open", or "closed" (shut down)
  serverEnd,  \* "none" (not accepted), "open", "cancelled" (closed with a read
              \* pending that keeps it), "closed"
  up,         \* what the client has written and the server not read
  down,       \* and the other way round
  sent,       \* history: the requests written to each connection,
  answered,   \* the requests the server has answered, up to the first Error,
  spoiled     \* and what has confused it

connectionVars == <<setup, listening, clientEnd, serverEnd, up, down, sent, answered, spoiled>>

ConnectionsInit ==
  /\ setup \in Setups
  /\ listening = "none"
  /\ clientEnd = [c \in Conns |-> "none"]
  /\ serverEnd = [c \in Conns |-> "none"]
  /\ up = [c \in Conns |-> <<>>]
  /\ down = [c \in Conns |-> <<>>]
  /\ sent = [c \in Conns |-> <<>>]
  /\ answered = [c \in Conns |-> <<>>]
  /\ spoiled = [c \in Conns |-> {}]

Error == -1

\* SocketStream::read of the server: what is there, or the end of the file, or
\* an error; a read that was pending when the socket was closed still gets
\* what comes, and the next one fails.
ServerHas(c) == serverEnd[c] \in {"open", "cancelled"} /\ up[c] # <<>>
ServerAtEnd(c) == serverEnd[c] = "closed" \/ (clientEnd[c] = "closed" /\ up[c] = <<>>)

ServerReads(c) ==
  /\ ServerHas(c)
  /\ up' = [up EXCEPT ![c] = IF serverEnd[c] = "open" THEN Tail(@) ELSE <<>>]
  /\ serverEnd' = [serverEnd EXCEPT ![c] = IF @ = "open" THEN "open" ELSE "closed"]

\* The server's end of some connections goes away, with what was not read; of
\* some, the descriptor does.
ServerCloses(closed, cancelled) ==
  /\ serverEnd' = [c \in Conns |-> IF c \in closed THEN "closed" ELSE IF c \in cancelled THEN "cancelled" ELSE serverEnd[c]]
  /\ up' = [c \in Conns |-> IF c \in closed THEN <<>> ELSE up[c]]

\* What waits to be accepted is reset when the listening socket goes away.
Backlog == {c \in Conns : clientEnd[c] # "none" /\ serverEnd[c] = "none"}

\* SocketStream::write of the server: an error if the socket is closed; what is
\* written to a client that is gone is lost.
ServerWrites(c, units) ==
  down' = IF serverEnd[c] = "open" /\ clientEnd[c] = "open"
          THEN [down EXCEPT ![c] = @ \o units] ELSE down

\* The same for the client.
ClientHas(c) == down[c] # <<>>
ClientAtEnd(c) == down[c] = <<>> /\ (clientEnd[c] = "closed" \/ serverEnd[c] = "closed")
ClientReads(c) == ClientHas(c) /\ down' = [down EXCEPT ![c] = Tail(@)]
CanWrite(c) == clientEnd[c] = "open" /\ serverEnd[c] # "closed"

\* is_socket_alive: nothing to read yet, or something, but no end or error.
IsSocketAlive(c) == clientEnd[c] = "open" /\ ~ClientAtEnd(c)

Spoil(c, what) == spoiled' = [spoiled EXCEPT ![c] = @ \cup what]
=============================================================================
