---------------------------- MODULE HttpContent ----------------------------
(***************************************************************************)
(* The body of a message between the stream that it is written to and the  *)
(* one that it is read from (async_io/httplib.h), in its three framings:   *)
(*   length    as many units as the head's Content-Length announces        *)
(*   chunked   chunks, a last chunk, trailers and an empty line            *)
(*   close     all that comes until the connection is closed               *)
(* A content provider hands it over in pieces of any length.  What arrives *)
(* may be read in other pieces: a read returns between one unit and all of *)
(* what it asked for.  The line and the headers of the message that        *)
(* follows on the connection are one element, "next".                      *)
(*                                                                         *)
(* A body is read by the server, by the client, both with read_content, or *)
(* by the user of a StreamHandle.                                          *)
(***************************************************************************)
EXTENDS SequencesExt, Integers

VARIABLES
  message,  \* the message: framing, content and announced length, trailers
  receiver, \* "server", "client" or "handle"
  limit,    \* payload_max_length_
  wire,     \* what has been written and not read
  writer,   \* where the writer is
  offset,   \* how much of the content is written
  reader,   \* where the reader is
  rest,     \* what it has still to read of the body, or of a chunk
  body,     \* what it has handed to the content receiver
  result    \* "none", "success", "error", "too large"

writerVars == <<writer, offset>>
readerVars == <<reader, rest, body, result>>
contentVars == <<message, receiver, limit, wire, writerVars, readerVars>>

ContentInit ==
  /\ wire = <<>>
  /\ writer = "head"
  /\ offset = 0
  /\ reader = "head"
  /\ rest = 0
  /\ body = <<>>
  /\ result = "none"

Data(units) == [i \in DOMAIN units |-> [t |-> "data", of |-> units[i]]]
Line(what) == [t |-> what]
Size(n) == [t |-> "size", of |-> n]

-----------------------------------------------------------------------------
(***************************************************************************)
(* The writer.                                                             *)
(***************************************************************************)
Write(elements) ==
  /\ wire' = wire \o elements
  /\ UNCHANGED <<message, receiver, limit, readerVars>>

WriteHead ==
  /\ writer = "head"
  /\ writer' = "content"
  /\ Write(<<Line("head")>>)
  /\ UNCHANGED offset

Left == Len(message.content) - offset

\* The sink's write() for a chunked body; without compression a chunk is what
\* the provider has handed over.
Chunk(piece) == <<Size(Len(piece))>> \o Data(piece) \o <<Line("crlf")>>

\* The content provider writes a piece.  The loop over a body of known length
\* ends with the last one.
ProviderWrites ==
  /\ writer = "content"
  /\ \E n \in 1 .. Left :
       LET piece == SubSeq(message.content, offset + 1, offset + n)
       IN  /\ offset' = offset + n
           /\ Write(IF message.framing = "chunked" THEN Chunk(piece) ELSE Data(piece))
           /\ writer' = IF message.framing = "length" /\ n = Left THEN "ended" ELSE writer

\* A body of no length: the loop is not entered.
NothingToWrite ==
  /\ writer = "content" /\ message.framing = "length" /\ message.content = <<>>
  /\ writer' = "ended"
  /\ UNCHANGED <<offset, message, receiver, limit, wire, readerVars>>

\* A provider that writes an empty piece ends the loop of a chunked body, which
\* takes it for the last, without the last chunk.
ProviderWritesNothing ==
  /\ writer = "content" /\ message.framing = "chunked"
  /\ writer' = "cut"
  /\ UNCHANGED <<offset, message, receiver, limit, wire, readerVars>>

\* Mutant: done() writes nothing.
ProviderDoneSilently ==
  /\ writer = "content" /\ message.framing # "length" /\ Left = 0
  /\ writer' = "ended"
  /\ Write(<<>>)
  /\ UNCHANGED offset

\* The sink's done() and done_with_trailer().
ProviderDone ==
  /\ writer = "content" /\ message.framing # "length" /\ Left = 0
  /\ writer' = "ended"
  /\ Write(IF message.framing = "close" THEN <<>>
           ELSE <<Size(0)>> \o [i \in 1 .. message.trailers |-> Line("trailer")] \o <<Line("crlf")>>)
  /\ UNCHANGED offset

\* The provider returns false, or a write fails.
ProviderFails ==
  /\ writer = "content"
  /\ writer' = "failed"
  /\ UNCHANGED <<offset, message, receiver, limit, wire, readerVars>>

\* The connection is closed because the message has failed, or is the last on
\* the connection.
Close ==
  /\ writer \in {"ended", "cut", "failed"}
  /\ writer' = "closed"
  /\ UNCHANGED <<offset, message, receiver, limit, wire, readerVars>>

\* The connection is kept alive, and the next message of a peer that does not
\* wait for an answer follows.
WriteNext ==
  /\ writer = "ended" /\ message.framing # "close"
  /\ writer' = "next"
  /\ Write(<<Line("next")>>)
  /\ UNCHANGED offset

-----------------------------------------------------------------------------
(***************************************************************************)
(* The reader.  BufferedStream holds what has been received and not asked  *)
(* for; a read waits while there is nothing.                               *)
(***************************************************************************)
EndOfFile ==
  /\ writer = "closed"
  /\ wire = <<>> \/ (reader = "chunk" /\ Len(wire) = rest)

Read(n) ==
  /\ wire' = SubSeq(wire, n + 1, Len(wire))
  /\ UNCHANGED <<message, receiver, limit, writerVars>>

ReaderEnds(how) ==
  /\ reader' = "done"
  /\ result' = how
  /\ UNCHANGED <<rest, body>>

\* How many units a read may return that asks for n: of the elements of the
\* wire, whatever they are, the first.
MayReturn(n) == {k \in 1 .. n : k <= Len(wire)}

\* What is read where content is expected is taken for content.
Units(n) == [i \in 1 .. n |-> IF wire[i].t = "data" THEN wire[i].of ELSE <<-1>>]

\* getline returns the next line, or what there is of one that is cut short.
\* "data" in its place is a line that makes no sense.
LineIs(what) == wire # <<>> /\ Head(wire).t = what

\* read_headers has returned; a message without a body is over.  A
\* StreamHandle takes a response that announces nothing to have no body.
ReadHead ==
  /\ reader = "head" /\ LineIs("head")
  /\ Read(1)
  /\ rest' = message.length
  /\ UNCHANGED body
  /\ CASE message.framing = "chunked" -> reader' = "size" /\ UNCHANGED result
       [] message.framing = "close" /\ receiver # "handle" -> reader' = "until close" /\ UNCHANGED result
       [] \/ message.framing = "close" /\ receiver = "handle"
          \/ message.framing = "length" /\ message.length = 0 -> reader' = "done" /\ result' = "success"
       [] message.length > 0 /\ message.framing = "length" ->
            /\ reader' = IF message.length > limit /\ receiver # "handle" THEN "skip" ELSE "length"
            /\ UNCHANGED result

\* Mutant: every read is taken to have returned what it asked for.
ReadLengthFully ==
  /\ reader = "length"
  /\ \E n \in MayReturn(rest) :
       /\ Read(n)
       /\ body' = body \o Units(n)
       /\ rest' = 0
       /\ reader' = "done"
       /\ result' = "success"

\* read_content_with_length and BodyReader::read: what is left at most.
ReadLength ==
  /\ reader = "length"
  /\ \E n \in MayReturn(rest) :
       /\ Read(n)
       /\ body' = body \o Units(n)
       /\ rest' = rest - n
       /\ reader' = IF n = rest THEN "done" ELSE "length"
       /\ result' = IF n = rest THEN "success" ELSE result

\* skip_content_with_length.
Skip ==
  /\ reader = "skip"
  /\ \E n \in MayReturn(rest) :
       /\ Read(n)
       /\ rest' = rest - n
       /\ reader' = IF n = rest THEN "done" ELSE "skip"
       /\ result' = IF n = rest THEN "too large" ELSE result
       /\ UNCHANGED body

\* Over the limit the content receiver is not called.
ReceiveUpToLimit(n, next) ==
  IF Len(body) + n > limit /\ receiver # "handle"
  THEN ReaderEnds("too large")
  ELSE body' = body \o Units(n) /\ next /\ UNCHANGED result

\* read_content_without_length.
ReadUntilClose ==
  /\ reader = "until close"
  /\ \E n \in MayReturn(Len(wire)) : Read(n) /\ ReceiveUpToLimit(n, UNCHANGED <<reader, rest>>)

\* ChunkedDecoder::read_payload, the line with the size of a chunk.
ReadSize ==
  /\ reader = "size" /\ wire # <<>>
  /\ Read(1)
  /\ IF Head(wire).t = "size"
     THEN /\ reader' = IF Head(wire).of = 0 THEN "trailers" ELSE "chunk"
          /\ rest' = Head(wire).of
          /\ UNCHANGED <<body, result>>
     ELSE ReaderEnds("error")

\* A part of a chunk that is not its last.
ReadChunk ==
  /\ reader = "chunk"
  /\ \E n \in MayReturn(rest - 1) :
       /\ Read(n)
       /\ ReceiveUpToLimit(n, rest' = rest - n /\ UNCHANGED reader)

\* The last part of a chunk and the empty line after it, before which nothing of
\* that part is handed over.
ReadChunkEnd ==
  /\ reader = "chunk" /\ Len(wire) > rest
  /\ Read(rest + 1)
  /\ IF wire[rest + 1].t = "crlf"
     THEN ReceiveUpToLimit(rest, rest' = 0 /\ reader' = "size")
     ELSE ReaderEnds("error")

\* parse_trailers_into: lines up to an empty one.  StreamHandle::read returns 0
\* whatever becomes of them.
ReadTrailers ==
  /\ reader = "trailers" /\ wire # <<>>
  /\ Read(1)
  /\ CASE LineIs("trailer") -> UNCHANGED readerVars
       [] LineIs("crlf") -> ReaderEnds("success")
       [] OTHER -> ReaderEnds(IF receiver = "handle" THEN "success" ELSE "error")

\* The peer has closed the connection; the last part of a chunk without the line
\* after it counts for nothing.  That ends a body without a framing well, and a
\* chunked one for the user of a StreamHandle once its last chunk has come.
ReadEndOfFile ==
  /\ reader # "done" /\ EndOfFile
  /\ ReaderEnds(CASE reader = "until close" -> "success"
                  [] reader = "trailers" /\ receiver = "handle" -> "success"
                  [] reader = "skip" -> "too large"
                  [] OTHER -> "error")
  /\ UNCHANGED <<message, receiver, limit, writerVars, wire>>

ContentWriter ==
  \/ WriteHead \/ ProviderWrites \/ NothingToWrite \/ ProviderWritesNothing \/ ProviderDone
  \/ ProviderFails \/ Close \/ WriteNext

ContentReader ==
  \/ ReadHead \/ ReadLength \/ Skip \/ ReadUntilClose \/ ReadSize \/ ReadChunk \/ ReadChunkEnd
  \/ ReadTrailers \/ ReadEndOfFile
=============================================================================
