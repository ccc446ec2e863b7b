----------------------------- MODULE HttpForms -----------------------------
(***************************************************************************)
(* multipart/form-data in async_io/httplib.h: how a client serializes the  *)
(* items of a form, and FormDataParser, to which the server hands a body   *)
(* in the pieces in which it is read.                                      *)
(*                                                                         *)
(* Text is a sequence of tokens: "crlf", "dash" (two dashes), "boundary",  *)
(* the header lines, and other text.  A piece ends between two tokens.     *)
(***************************************************************************)
EXTENDS SequencesExt, Integers

CONSTANTS
  HeaderLines,  \* the tokens that are well-formed header lines
  MaxFiles      \* CPPHTTPLIB_MULTIPART_FORM_DATA_FILE_MAX_COUNT

ASSUME FormsAssumption == MaxFiles \in Nat /\ "crlf" \notin HeaderLines

VARIABLES
  state_,    \* of the parser, 0 to 4
  buf_,      \* what it holds and has not consumed
  file_,     \* the header lines of the entry at hand
  entries,   \* the entries it has handed over
  is_valid_,
  parsing    \* "at rest", "in parse" or "failed": parse() has returned false

formVars == <<state_, buf_, file_, entries, is_valid_, parsing>>

FormsInit ==
  /\ state_ = 0
  /\ buf_ = <<>>
  /\ file_ = <<>>
  /\ entries = <<>>
  /\ is_valid_ = FALSE
  /\ parsing = "at rest"

crlf_ == <<"crlf">>
dash_boundary_crlf_ == <<"dash", "boundary", "crlf">>
crlf_dash_boundary_ == <<"crlf", "dash", "boundary">>

\* serialize_multipart_formdata, and the provider of a form, which writes the
\* same in pieces.
SerializedItem(item) ==
  dash_boundary_crlf_ \o FlattenSeq([i \in DOMAIN item.headers |-> <<item.headers[i], "crlf">>])
    \o crlf_ \o item.content \o crlf_

Serialized(items) ==
  FlattenSeq([i \in DOMAIN items |-> SerializedItem(items[i])]) \o <<"dash", "boundary", "dash", "crlf">>

-----------------------------------------------------------------------------
\* buf_find: where the text first occurs, or the size of the buffer.
Find(text) ==
  Min({Len(buf_)} \cup {i \in 0 .. Len(buf_) - Len(text) : SubSeq(buf_, i + 1, i + Len(text)) = text})

Erase(n) == buf_' = SubSeq(buf_, n + 1, Len(buf_))

Found(text) == Find(text) < Len(buf_)

\* parse() is called with the piece.
Parse(piece) ==
  /\ buf_' = buf_ \o piece
  /\ parsing' = IF buf_' = <<>> THEN "at rest" ELSE "in parse"
  /\ UNCHANGED <<state_, file_, entries, is_valid_>>

\* One turn of its loop, in state s; the loop ends when the buffer is empty.
Turn(s) ==
  /\ parsing = "in parse" /\ state_ = s
  /\ parsing' = IF buf_' = <<>> THEN "at rest" ELSE "in parse"

\* The turn needs more than there is: parse() returns true.
NeedMore(s) ==
  /\ parsing = "in parse" /\ state_ = s
  /\ parsing' = "at rest"
  /\ UNCHANGED <<state_, buf_, file_, entries, is_valid_>>

\* parse() returns false.
Reject ==
  /\ parsing' = "failed"
  /\ is_valid_' = FALSE
  /\ UNCHANGED <<state_, buf_, file_, entries>>

InitialBoundary ==
  \/ ~Found(dash_boundary_crlf_) /\ NeedMore(0)
  \/ /\ Found(dash_boundary_crlf_)
     /\ Erase(Find(dash_boundary_crlf_) + Len(dash_boundary_crlf_))
     /\ Turn(0)
     /\ state_' = 1
     /\ UNCHANGED <<file_, entries, is_valid_>>

\* clear_file_info.
NewEntry ==
  /\ UNCHANGED <<buf_, entries, is_valid_>>
  /\ Turn(1)
  /\ state_' = 2
  /\ file_' = <<>>

\* A header line, whole and well-formed.
ParseHeader ==
  /\ Found(crlf_) /\ Find(crlf_) = 1 /\ Head(buf_) \in HeaderLines
  /\ Erase(2)
  /\ Turn(2)
  /\ file_' = Append(file_, Head(buf_))
  /\ UNCHANGED <<state_, entries, is_valid_>>

\* The empty line after them: the entry is handed over, unless there are too
\* many.
EndOfHeaders ==
  /\ Found(crlf_) /\ Find(crlf_) = 0 /\ Len(entries) < MaxFiles
  /\ Erase(1)
  /\ Turn(2)
  /\ entries' = Append(entries, [headers |-> file_, content |-> <<>>])
  /\ state_' = 3
  /\ UNCHANGED <<file_, is_valid_>>

RejectHeader ==
  /\ parsing = "in parse" /\ state_ = 2 /\ Found(crlf_)
  /\ IF Find(crlf_) = 0 THEN Len(entries) >= MaxFiles
     ELSE Find(crlf_) > 1 \/ Head(buf_) \notin HeaderLines
  /\ Reject

Headers == ParseHeader \/ EndOfHeaders \/ RejectHeader \/ (~Found(crlf_) /\ NeedMore(2))

\* The content callback: content goes to the last entry.
AddContent(n) ==
  entries' = [entries EXCEPT ![Len(entries)].content = @ \o SubSeq(buf_, 1, n)]

\* The boundary that ends the content.
EndOfBody ==
  /\ Found(crlf_dash_boundary_)
  /\ AddContent(Find(crlf_dash_boundary_))
  /\ Erase(Find(crlf_dash_boundary_) + Len(crlf_dash_boundary_))
  /\ Turn(3)
  /\ state_' = 4
  /\ UNCHANGED <<file_, is_valid_>>

\* Mutant: all the content is handed over, with what a boundary begins with.
PartOfBodyEager ==
  /\ ~Found(crlf_dash_boundary_)
  /\ parsing = "in parse" /\ state_ = 3
  /\ AddContent(Len(buf_))
  /\ Erase(Len(buf_))
  /\ parsing' = "at rest"
  /\ UNCHANGED <<state_, file_, is_valid_>>

\* None in the buffer: as much as a boundary is long is kept, what comes before
\* is content.
PartOfBody ==
  /\ ~Found(crlf_dash_boundary_)
  /\ parsing = "in parse" /\ state_ = 3
  /\ LET len == Len(buf_) - Len(crlf_dash_boundary_)
     IN  IF len > 0 THEN AddContent(len) /\ Erase(len) ELSE UNCHANGED <<buf_, entries>>
  /\ parsing' = "at rest"
  /\ UNCHANGED <<state_, file_, is_valid_>>

Body == state_ = 3 /\ (EndOfBody \/ PartOfBody)

\* After a boundary: another entry, or two dashes, and what is left of the
\* buffer is dropped.  The state stays what it is.
Boundary ==
  \/ Head(buf_) \notin {"crlf", "dash"} /\ NeedMore(4)
  \/ Head(buf_) = "crlf" /\ Erase(1) /\ Turn(4) /\ state_' = 1 /\ UNCHANGED <<file_, entries, is_valid_>>
  \/ /\ Head(buf_) = "dash"
     /\ buf_' = <<>>
     /\ Turn(4)
     /\ is_valid_' = TRUE
     /\ UNCHANGED <<state_, file_, entries>>

ParserTurn == parsing = "in parse" /\ (InitialBoundary \/ NewEntry \/ Headers \/ Body \/ Boundary)
=============================================================================
