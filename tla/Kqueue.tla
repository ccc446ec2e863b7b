------------------------------- MODULE Kqueue -------------------------------
(***************************************************************************)
(* KqueueIOEngine (src/async_io/platform/macos/kqueue_engin.cpp).  The     *)
(* kernel reports that a descriptor is ready, and the engine's thread does *)
(* the operation.  active_ops_ has ONE operation for each descriptor: it   *)
(* is the set flying, from which an operation evicts the one before it on  *)
(* the same descriptor.                                                    *)
(***************************************************************************)
EXTENDS AsyncIO

VARIABLES
  user,     \* the wakeup event is triggered
  filters,  \* the one-shot events registered: <<object, direction>>
  events    \* what kevent() returned and the thread has not handled

kqueueVars == <<user, filters, events>>

WakeupEvent == <<"wakeup", "user">>

KqueueInit == user = FALSE /\ filters = {} /\ events = {}

\* submit: queue the operation under the lock, which the thread holds while it
\* works off the queue, and trigger the wakeup event.
KqueueSubmit(o) ==
  /\ loop # "draining"
  /\ Call(o)
  /\ pending_ops_' = Append(pending_ops_, o)
  /\ user' = TRUE
  /\ UNCHANGED <<setupVars, fdClosed, flying, doneVars, kernelVars, loop, running_, filters, events>>

\* run(): running_ is set, whatever stop() has done before.
KqueueRun ==
  /\ loop = "starting"
  /\ loop' = "checking"
  /\ running_' = TRUE
  /\ UNCHANGED <<setupVars, objectVars, fdClosed, pending_ops_, flying, doneVars, kernelVars, kqueueVars>>

\* while (running_)
KqueueCheck ==
  /\ loop = "checking"
  /\ loop' = IF running_ THEN "draining" ELSE "exited"
  /\ UNCHANGED <<setupVars, objectVars, fdClosed, pending_ops_, flying, doneVars, kernelVars, running_, kqueueVars>>

\* process_read and process_write: register the event and enter the operation.
ProcessIO(o) ==
  /\ type[o] # "close"
  /\ IF obj[o] \in fdClosed
     THEN Complete(o, "error") /\ UNCHANGED <<flying, filters>>
     ELSE /\ filters' = filters \cup {<<obj[o], type[o]>>}
          /\ flying' = {p \in flying : obj[p] # obj[o]} \cup {o}
          /\ UNCHANGED doneVars
  /\ UNCHANGED fdClosed

\* Mutant: process_close forgets the operation in flight.
ProcessCloseOnly(o) ==
  /\ type[o] = "close"
  /\ filters' = {f \in filters : f[1] # obj[o]}
  /\ fdClosed' = fdClosed \cup {obj[o]}
  /\ Complete(o, Outcome(o))
  /\ UNCHANGED flying

\* process_close: forget the events, close the descriptor, cancel the operation
\* in flight on it, and complete.
ProcessClose(o) ==
  /\ type[o] = "close"
  /\ filters' = {f \in filters : f[1] # obj[o]}
  /\ fdClosed' = fdClosed \cup {obj[o]}
  /\ LET active == {p \in flying : obj[p] = obj[o]}
     IN  /\ CompleteAll([p \in active \cup {o} |-> IF p = o THEN Outcome(o) ELSE "canceled"])
         /\ flying' = flying \ active

KqueueProcess ==
  /\ loop = "draining" /\ pending_ops_ # <<>>
  /\ pending_ops_' = Tail(pending_ops_)
  /\ ProcessIO(Head(pending_ops_)) \/ ProcessClose(Head(pending_ops_))
  /\ UNCHANGED <<setupVars, objectVars, kernelVars, loop, running_, user, events>>

KqueueUnlock ==
  /\ loop = "draining" /\ pending_ops_ = <<>>
  /\ loop' = "waiting"
  /\ UNCHANGED <<setupVars, objectVars, fdClosed, pending_ops_, flying, doneVars, kernelVars, running_, kqueueVars>>

Occurring == {f \in filters : quiet => f[2] # "in"} \cup IF user THEN {WakeupEvent} ELSE {}

\* kevent() returns some of what has happened, and resets it.
KqueueWait ==
  /\ loop = "waiting" /\ events = {}
  /\ \E some \in SUBSET Occurring \ {{}} :
       /\ events' = some
       /\ filters' = filters \ some
       /\ user' = (user /\ WakeupEvent \notin some)
  /\ loop' = "handling"
  /\ UNCHANGED <<setupVars, objectVars, fdClosed, pending_ops_, flying, doneVars, kernelVars, running_>>

\* An event: the operation of its descriptor, if there is one, is done now,
\* whichever event it was waiting for.
Perform(e) ==
  LET active == {p \in flying : obj[p] = e[1]}
  IN  flying' = flying \ active /\ CompleteAll([p \in active |-> "done"])

KqueueHandle ==
  /\ loop = "handling"
  /\ \E e \in events : events' = events \ {e} /\ Perform(e)
  /\ loop' = IF events' = {} THEN "checking" ELSE "handling"
  /\ UNCHANGED <<setupVars, objectVars, fdClosed, pending_ops_, kernelVars, running_, user, filters>>

\* stop(): running_ is cleared, and the wakeup event triggered.
KqueueStop ==
  /\ running_' = FALSE
  /\ user' = TRUE
  /\ UNCHANGED <<setupVars, objectVars, fdClosed, pending_ops_, flying, doneVars, kernelVars, loop, filters, events>>

KqueueLoop == KqueueRun \/ KqueueCheck \/ KqueueProcess \/ KqueueUnlock \/ KqueueWait \/ KqueueHandle
KqueueNext == KqueueLoop \/ KqueueStop \/ \E o \in Ops : KqueueSubmit(o)

\* A later operation has taken the place of o in active_ops_.
Evicted(o) ==
  /\ Outstanding(o) /\ o \notin flying \cup ToSet(pending_ops_)
  /\ \E p \in Ops \ ToSet(pending_ops_) : p > o /\ obj[p] = obj[o] /\ type[p] \in {"in", "out"}
=============================================================================
