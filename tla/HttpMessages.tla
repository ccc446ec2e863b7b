---------------------------- MODULE HttpMessages ----------------------------
(***************************************************************************)
(* One message of async_io/httplib.h with a body, from the writer to the   *)
(* reader and what becomes of the body there.                              *)
(*   plain    any content, written by a provider (HttpContent)             *)
(*   ranged   a response to a request for ranges, as a server makes it     *)
(*            (HttpRanges)                                                 *)
(*   form     a form, parsed by the server as it is read (HttpForms)       *)
(***************************************************************************)
EXTENDS HttpContent, HttpRanges, HttpForms, AnySequences

CONSTANTS
  Size_,       \* how long the content is that ranges are asked for
  Asked,       \* the Range headers: sequences of ranges
  Contents,    \* the contents of plain messages
  MaxTrailers,
  Limits,      \* the values of payload_max_length_
  Items,       \* the forms: sequences of items
  Epilogues    \* what may follow a form

\* An item of a form; the boundary is chosen at random, and not in it
\* (httplib.h:6641).
IsItem(item) ==
  /\ item = [headers |-> item.headers, content |-> item.content]
  /\ item.headers \in Seq(HeaderLines)
  /\ IsSequence(item.content)
  /\ \A i \in 1 .. Len(item.content) - 2 : SubSeq(item.content, i, i + 2) # crlf_dash_boundary_

ASSUME MessagesAssumption ==
  /\ Size_ \in Nat /\ MaxTrailers \in Nat /\ Limits \subseteq Nat
  /\ \A content \in Contents : IsSequence(content)
  /\ \A ranges \in Asked : ranges \in Seq(Int \X Int) /\ \A i \in DOMAIN ranges : WellFormed(ranges[i])
  /\ \A items \in Items : IsSequence(items) /\ \A i \in DOMAIN items : IsItem(items[i])
  /\ \A epilogue \in Epilogues : IsSequence(epilogue)

VARIABLES
  kind,     \* "plain", "ranged" or "form"
  asked,    \* the ranges, or the items, the message is made of
  options   \* ranged: the status the handler has set, and what the content comes from

requestVars == <<kind, asked, options>>
messagesVars == <<contentVars, formVars, requestVars>>

Message(framing, content, length, trailers) ==
  [framing |-> framing, content |-> content, length |-> length, trailers |-> trailers]

PlainInit ==
  /\ kind = "plain" /\ asked = <<>> /\ options = <<>>
  /\ limit \in Limits
  /\ \E framing \in {"length", "chunked", "close"}, content \in Contents, trailers \in 0 .. MaxTrailers :
       /\ receiver \in IF framing = "close" THEN {"client", "handle"} ELSE {"server", "client", "handle"}
       /\ trailers > 0 => framing = "chunked"
       /\ message = Message(framing, content, IF framing = "length" THEN Len(content) ELSE 0, trailers)

RangedInit ==
  /\ kind = "ranged" /\ asked \in Asked
  /\ receiver = "client"
  /\ options \in {-1, 200, 404} \X {"body", "provider"}
  /\ options # <<404, "provider">>
  /\ \E response \in RangedResponses(options[1], options[2], asked, Size_) :
       message = Message("length", response.content, response.length, 0)
  /\ limit = message.length

FormInit ==
  /\ kind = "form" /\ asked \in Items /\ options \in Epilogues
  /\ receiver = "server"
  /\ message = LET text == Serialized(asked) \o options
               IN  Message("length", text, Len(text), 0)
  /\ limit = message.length

MessagesInit == ContentInit /\ FormsInit /\ (PlainInit \/ RangedInit \/ FormInit)

-----------------------------------------------------------------------------
\* Of a plain message the pieces that are written matter; a form is in one.
WritesContent == ContentWriter /\ UNCHANGED <<formVars, requestVars>>

\* The content receiver: read_content_core gives the parser what is read of a
\* form, and the next piece is read when parse() has returned.
ReadsContent ==
  /\ parsing = "at rest"
  /\ ContentReader
  /\ IF kind = "form" /\ body' # body
     THEN Parse(SubSeq(body', Len(body) + 1, Len(body')))
     ELSE UNCHANGED formVars
  /\ UNCHANGED requestVars

\* The parser goes on.
Parses == ParserTurn /\ UNCHANGED <<contentVars, requestVars>>

\* parse() has returned false, and so does the content receiver.
ParseFails ==
  /\ parsing = "failed" /\ result # "error"
  /\ ReaderEnds("error")
  /\ UNCHANGED <<message, receiver, limit, wire, writerVars, formVars, requestVars>>

MessagesNext == WritesContent \/ ReadsContent \/ Parses \/ ParseFails

MessagesSpec == MessagesInit /\ [][MessagesNext]_messagesVars

\* The provider goes on until it has written all, or has failed; who has failed
\* closes the connection; what has been written arrives.
MessagesFairness ==
  /\ WF_messagesVars((WriteHead \/ ProviderWrites \/ NothingToWrite \/ ProviderDone) /\ UNCHANGED <<formVars, requestVars>>)
  /\ WF_messagesVars(writer = "failed" /\ Close /\ UNCHANGED <<formVars, requestVars>>)
  /\ WF_messagesVars(ReadsContent) /\ WF_messagesVars(Parses) /\ WF_messagesVars(ParseFails)

FairMessagesSpec == MessagesSpec /\ MessagesFairness

-----------------------------------------------------------------------------
MessagesTypeOK ==
  /\ kind \in {"plain", "ranged", "form"} /\ receiver \in {"server", "client", "handle"}
  /\ writer \in {"head", "content", "ended", "cut", "failed", "closed", "next"}
  /\ offset \in 0 .. Len(message.content)
  /\ reader \in {"head", "length", "skip", "until close", "size", "chunk", "trailers", "done"}
  /\ rest \in Nat
  /\ result \in {"none", "success", "error", "too large"}
  /\ state_ \in 0 .. 4 /\ is_valid_ \in BOOLEAN /\ parsing \in {"at rest", "in parse", "failed"}

\* What the server makes of the request: the body has been read, and the form
\* was complete.
Accepted == result = "success" /\ (kind = "form" => is_valid_)

\* A reader that ends well, or skips a body that is too large, leaves the
\* connection at the beginning of the next message (httplib.h:5556, 7946,
\* 10633): nothing of the body is taken for a request.  Over the limit a
\* chunked body is left where it is (httplib.h:5628).  A StreamHandle does not
\* care.
LeavesNextMessage ==
  \/ result \in {"none", "error"} \/ receiver = "handle" \/ message.framing = "close"
  \/ result = "too large" /\ message.framing = "chunked"
  \/ message.length # Len(message.content) /\ message.framing = "length"
  \/ wire \in {<<>>, <<Line("next")>>}

\* In whatever pieces a body is written and read, what is handed over is a
\* beginning of it in its order; what ends well is all of it, unless there
\* is no framing that could tell: then the body may be cut short, and the user
\* of a StreamHandle gets none (httplib.h:10451); and no more than the body has
\* been read.
Untruncated ==
  /\ MessagesTypeOK
  /\ LeavesNextMessage
  /\ kind # "ranged" => IsPrefix(body, message.content)
  /\ result = "success" /\ message.framing # "close" /\ message.length \in {0, Len(message.content)}
       => body = message.content
  /\ (reader = "done") = (result # "none")

\* Reader and writer do not wait for each other: a reader ends, unless the
\* writer has left the loop without a last chunk (httplib.h:5911), nothing
\* closes the connection that ends the body (httplib.h:5868), or the body is
\* shorter than what was announced.
ReaderFinishes ==
  <>\/ reader = "done"
    \/ writer = "cut"
    \/ message.framing = "close" /\ writer = "ended"
    \/ message.framing = "length" /\ message.length > Len(message.content)

PartsOf(content) == {i \in DOMAIN content : Len(content[i]) = 2}

AskedBytes == UNION {Normalised(asked[i], Size_)[1] .. Normalised(asked[i], Size_)[2] : i \in DOMAIN asked}

\* There is nothing to serve of a range, or there are too many of them.  (A
\* suffix that is longer than the content has something to serve, but is
\* refused.)
MayBeRefused ==
  \/ Len(asked) > MaxRangeCount \/ Len(asked) > 3
  \/ \E i \in DOMAIN asked :
       asked[i][1] \notin 0 .. Size_ - 1 /\ ~(asked[i][1] = -1 /\ asked[i][2] \in 1 .. Size_)

\* What a response to a request for ranges announces, holds and was asked for
\* (httplib.h:6724-6997, 9311): every part has the bytes it says, the parts
\* have each byte asked for and no other, the length is the announced one, and
\* what can be served is.
\* A handler that sets status 200 and has a provider breaks this
\* (httplib.h:8737): the length is that of everything, the ranges are written.
RangesServed ==
  kind = "ranged" /\ (options[2] = "provider" => options[1] # 200 \/ asked = <<>>) =>
    /\ message.length = Len(message.content)
    /\ \A i \in PartsOf(message.content) :
         SubSeq(message.content, i + 1, i + Len(Bytes(message.content[i]))) = Bytes(message.content[i])
    /\ message.content = <<>> => MayBeRefused \/ Size_ = 0
    /\ result = "success" /\ asked # <<>> /\ options[1] = -1 /\ body # <<>> =>
         {u[1] : u \in {v \in Range(body) : Len(v) = 1}} = AskedBytes

\* No line of the epilogue is empty or that of a header.
Unmistakable(epilogue) ==
  \A i \in DOMAIN epilogue :
    /\ epilogue[i] \notin HeaderLines
    /\ epilogue[i] = "crlf" => i > 1 /\ epilogue[i - 1] # "crlf"

\* However the body of a form is cut into pieces, the server gets the items
\* that the client has sent and nothing else; it accepts every form that
\* this client sends (httplib.h:6707), if it has items, and not too many.  One
\* with an epilogue may be refused, or end with an entry too many: what comes
\* after the "--" in a later piece is taken for an entry (httplib.h:6513).
FormParsed ==
  kind = "form" =>
    /\ Accepted /\ Unmistakable(options) => [i \in DOMAIN entries |-> entries[i]] = asked
    /\ result # "none" /\ options = <<>> /\ Len(asked) \in 1 .. MaxFiles
         /\ writer # "closed" /\ parsing # "in parse"
         => Accepted
=============================================================================
