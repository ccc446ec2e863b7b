--------------------------- MODULE DelayedExecutor ---------------------------
(***************************************************************************)
(* What an executor promises its callers, whatever threads it has: a task  *)
(* it accepts begins at most once and never before its time, and what it   *)
(* has refused or thrown away does not begin at all.                       *)
(***************************************************************************)
EXTENDS Integers

CONSTANTS Tasks, Delays

VARIABLES
  now,
  open,    \* tasks are accepted
  status,
  delayed  \* tasks with the time before which they do not begin

vars == <<now, open, status, delayed>>

Init ==
  /\ now = 0
  /\ open = TRUE
  /\ status = [t \in Tasks |-> "new"]
  /\ delayed = {}

Move(t, from, to) == status[t] = from /\ status' = [status EXCEPT ![t] = to]

Of(t) == {d \in delayed : d.task = t}
Due == {d \in delayed : d.at <= now}

Accept(t) ==
  /\ open
  /\ Move(t, "new", "accepted")
  /\ UNCHANGED <<now, open, delayed>>

AcceptDelayed(t) ==
  /\ open
  /\ Move(t, "new", "accepted")
  /\ \E d \in Delays : delayed' = delayed \cup {[at |-> now + d, task |-> t]}
  /\ UNCHANGED <<now, open>>

Refuse(t) == ~open /\ Move(t, "new", "refused") /\ UNCHANGED <<now, open, delayed>>

\* The time of a task has come; it may begin from now on.
FallDue ==
  /\ \E d \in Due : delayed' = delayed \ {d}
  /\ UNCHANGED <<now, open, status>>

Begin(t) ==
  /\ Move(t, "accepted", "begun")
  /\ Of(t) \subseteq Due
  /\ delayed' = delayed \ Of(t)
  /\ UNCHANGED <<now, open>>

\* A caller may find its task begun when it is back from handing it over.
AcceptAndBegin(t) == open /\ Move(t, "new", "begun") /\ UNCHANGED <<now, open, delayed>>

Close == open' = FALSE /\ UNCHANGED <<now, status, delayed>>

\* Some or all of what has not begun is thrown away.
ThrowAway(S) ==
  /\ ~open
  /\ \A t \in S : status[t] = "accepted"
  /\ status' = [t \in Tasks |-> IF t \in S THEN "cleared" ELSE status[t]]
  /\ delayed' = {d \in delayed : d.task \notin S}
  /\ UNCHANGED <<now, open>>

Tick == now' = now + 1 /\ UNCHANGED <<open, status, delayed>>

Next ==
  \/ \E t \in Tasks :
       Accept(t) \/ AcceptDelayed(t) \/ Refuse(t) \/ Begin(t) \/ AcceptAndBegin(t)
  \/ \E S \in SUBSET Tasks : ThrowAway(S)
  \/ FallDue \/ Close \/ Tick

Spec == Init /\ [][Next]_vars
=============================================================================
