--------------------------- MODULE MCHttpMessages ---------------------------
(* Instances of HttpMessages for TLC: every pair of ranges of three bytes,   *)
(* contents of up to three units, forms of up to three items whose contents  *)
(* begin as a boundary does.                                                 *)
EXTENDS HttpMessages

MCRanges == {r \in (-1 .. 3) \X (-1 .. 3) : WellFormed(r)}
MCAsked == UNION {[1 .. k -> MCRanges] : k \in 0 .. 2}
             \cup {<<r, s, r>> : r, s \in {<<0, 1>>, <<1, 2>>, <<2, 2>>, <<-1, 1>>}}
             \cup {<<r, r, s, s>> : r, s \in {<<0, 1>>, <<1, 2>>, <<2, 2>>}}
             \cup {[i \in 1 .. 5 |-> <<0, 0>>]}
MCContents == {[i \in 1 .. n |-> <<i>>] : n \in 0 .. 3}
MCLimits == {2, 1000}
MCItem(header, content) == [headers |-> header, content |-> content]
MCItems ==
  LET a == MCItem(<<"disposition">>, <<"text", "crlf", "dash", "text">>)
      b == MCItem(<<"disposition", "type">>, <<>>)
      c == MCItem(<<"disposition">>, <<"crlf">>)
  IN  {<<>>, <<a>>, <<b, a>>, <<c, b>>, <<b, c, b>>}
MCEpilogues == {<<>>, <<"text", "crlf">>, <<"type", "crlf", "crlf">>}
=============================================================================
