-------------------------------- MODULE Iocp --------------------------------
(***************************************************************************)
(* IOCPIOEngine (src/async_io/platform/win/iocp_engin.cpp).  The thread    *)
(* that submits an operation starts it itself, in the steps that other     *)
(* threads can come between: the test of running_, the entry of the        *)
(* operation in in_flight_ops_ (flying), the system call.  The engine's    *)
(* thread takes completion packets off the port (cq).                      *)
(***************************************************************************)
EXTENDS AsyncIO

VARIABLES
  submitting,  \* where the thread that submits each operation is
  stopping     \* stop() has cleared running_ and has not yet canceled

iocpVars == <<submitting, stopping>>

IocpInit == submitting = [o \in Ops |-> "none"] /\ stopping = FALSE

\* submit: an operation given to an engine that does not run is canceled.
IocpSubmit(o) ==
  /\ Call(o)
  /\ IF running_
     THEN submitting' = [submitting EXCEPT ![o] = "admitted"] /\ UNCHANGED doneVars
     ELSE Complete(o, "canceled") /\ UNCHANGED submitting
  /\ UNCHANGED <<setupVars, fdClosed, pending_ops_, flying, kernelVars, loop, running_, stopping>>

IocpEnter(o) ==
  /\ submitting[o] = "admitted"
  /\ submitting' = [submitting EXCEPT ![o] = "entered"]
  /\ flying' = flying \cup {o}
  /\ UNCHANGED <<setupVars, objectVars, fdClosed, pending_ops_, doneVars, kernelVars, loop, running_, stopping>>

\* The system call starts the operation, which the kernel finishes, or fails.
StartIO(o) ==
  /\ type[o] # "close"
  /\ \/ /\ obj[o] \notin fdClosed
        /\ kernel' = kernel \cup {o}
        /\ UNCHANGED <<flying, doneVars>>
     \/ /\ flying' = flying \ {o}
        /\ Complete(o, "error")
        /\ UNCHANGED kernel
     \/ \* an accept or a connect without its extension function, or without a
        \* socket to accept into, is not taken out of in_flight_ops_
        /\ obj[o] \notin fdClosed
        /\ Complete(o, "error")
        /\ UNCHANGED <<flying, kernel>>
  /\ UNCHANGED <<fdClosed, cq>>

\* A CLOSE is done at once: the kernel fails what it has of the descriptor, and
\* the packet of the CLOSE is posted if a coroutine waits for it.
StartClose(o) ==
  /\ type[o] = "close"
  /\ fdClosed' = fdClosed \cup {obj[o]}
  /\ cq' = IF o \in awaited THEN Append(cq, o) ELSE cq
  /\ result' = [p \in Ops |-> CASE p = o -> "done"
                                [] p \in kernel /\ obj[p] = obj[o] -> "error"
                                [] OTHER -> result[p]]
  /\ UNCHANGED <<flying, kernel, completions>>

IocpStart(o) ==
  /\ submitting[o] = "entered"
  /\ submitting' = [submitting EXCEPT ![o] = "started"]
  /\ StartIO(o) \/ StartClose(o)
  /\ UNCHANGED <<setupVars, objectVars, pending_ops_, loop, running_, stopping>>

IocpRun ==
  /\ loop = "starting"
  /\ loop' = "checking"
  /\ UNCHANGED <<setupVars, objectVars, fdClosed, pending_ops_, flying, doneVars, kernelVars, running_, iocpVars>>

\* while (running_)
IocpCheck ==
  /\ loop = "checking"
  /\ loop' = IF running_ THEN "waiting" ELSE "exited"
  /\ UNCHANGED <<setupVars, objectVars, fdClosed, pending_ops_, flying, doneVars, kernelVars, running_, iocpVars>>

\* GetQueuedCompletionStatus times out, or takes the packet that stop() posts.
IocpTimeout ==
  /\ loop = "waiting" /\ (cq = <<>> \/ ~running_)
  /\ loop' = "checking"
  /\ UNCHANGED <<setupVars, objectVars, fdClosed, pending_ops_, flying, doneVars, kernelVars, running_, iocpVars>>

\* It takes the packet of an operation, which is completed if it is in flight.
IocpPacket ==
  /\ loop = "waiting" /\ cq # <<>>
  /\ loop' = "checking"
  /\ cq' = Tail(cq)
  /\ flying' = flying \ {Head(cq)}
  /\ IF Head(cq) \in flying THEN Complete(Head(cq), result[Head(cq)]) ELSE UNCHANGED doneVars
  /\ UNCHANGED <<setupVars, objectVars, fdClosed, pending_ops_, kernel, running_, iocpVars>>

\* stop(), called once: running_ is cleared; then all in flight is canceled.
IocpStop ==
  /\ running_
  /\ stopping' = TRUE
  /\ running_' = FALSE
  /\ UNCHANGED <<setupVars, objectVars, fdClosed, pending_ops_, flying, doneVars, kernelVars, loop, submitting>>

IocpCancelAll ==
  /\ stopping /\ stopping' = FALSE
  /\ flying' = {}
  /\ CompleteAll([o \in flying |-> "canceled"])
  /\ UNCHANGED <<setupVars, objectVars, fdClosed, pending_ops_, kernelVars, loop, running_, submitting>>

IocpSubmitter(o) == IocpEnter(o) \/ IocpStart(o)
IocpThread == IocpRun \/ IocpCheck \/ IocpTimeout \/ IocpPacket
IocpFinish == \E o \in Ops : KernelFinish(o) /\ UNCHANGED iocpVars
IocpNext ==
  \/ IocpThread \/ IocpFinish \/ IocpStop \/ IocpCancelAll
  \/ \E o \in Ops : IocpSubmit(o) \/ IocpSubmitter(o)

\* A CLOSE that nobody waits for has been done: no packet is posted for it, and it
\* stays in in_flight_ops_.
Unposted(o) == type[o] = "close" /\ o \notin awaited /\ submitting[o] = "started"
=============================================================================
