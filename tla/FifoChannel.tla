----------------------------- MODULE FifoChannel -----------------------------
(***************************************************************************)
(* What a Channel promises about the order of its values, whatever its     *)
(* capacity: values are handed to readers in the order in which they were  *)
(* accepted, each at most once.  A closed channel takes no more values;    *)
(* what it held may still be read, or be discarded, all of it at once.     *)
(* Channel is shown to implement this module; it always discards.          *)
(***************************************************************************)
EXTENDS SequencesExt

CONSTANT Values

VARIABLES
  open,     \* the channel accepts values
  queue,    \* values accepted and not yet handed out, oldest first
  handed    \* values handed to a reader, oldest first

chanVars == <<open, queue, handed>>

Init == open = TRUE /\ queue = <<>> /\ handed = <<>>

\* A value enters the channel behind all the others.
Put(v) ==
  /\ open
  /\ queue' = Append(queue, v)
  /\ UNCHANGED <<open, handed>>

\* The oldest value is handed to a reader, also when the channel is closed.
Take ==
  /\ queue # <<>>
  /\ handed' = Append(handed, Head(queue))
  /\ queue' = Tail(queue)
  /\ UNCHANGED open

\* A value that finds nobody before it goes straight to a reader.
Pass(v) ==
  /\ open
  /\ queue = <<>>
  /\ handed' = Append(handed, v)
  /\ UNCHANGED <<open, queue>>

\* A writer that is still waiting goes away and takes its value along.
Withdraw(v) ==
  /\ Contains(queue, v)
  /\ queue' = RemoveFirst(queue, v)
  /\ UNCHANGED <<open, handed>>

\* Nothing enters the channel any more.
Shut == open /\ open' = FALSE /\ UNCHANGED <<queue, handed>>

\* What a closed channel held is thrown away.
Discard == ~open /\ queue' = <<>> /\ UNCHANGED <<open, handed>>

Next ==
  \/ \E v \in Values : Put(v) \/ Pass(v) \/ Withdraw(v)
  \/ Take
  \/ Shut
  \/ Discard

Spec == Init /\ [][Next]_chanVars
=============================================================================
