------------------------------- MODULE IoUring -------------------------------
(***************************************************************************)
(* IoUringIOEngine (src/async_io/platform/linux/io_uring_engin.cpp).  The  *)
(* engine's thread learns of submitted operations through an eventfd that  *)
(* it always has a read of in flight, like any other operation: the read   *)
(* is armed again each time it has completed, if the submission queue has  *)
(* room.                                                                   *)
(***************************************************************************)
EXTENDS AsyncIO

CONSTANTS
  Wakeup,  \* WAKEUP_USER_DATA: stands for the eventfd's read in a queue
  Depth    \* IO_URING_QUEUE_DEPTH

ASSUME IoUringAssumption == Wakeup \notin Ops /\ Depth \in Nat \ {0}

VARIABLES
  eventfd,  \* the eventfd counts a wakeup
  sq        \* the submission queue: what the kernel has not been told of

uringVars == <<eventfd, sq>>

UringInit == eventfd = FALSE /\ sq = {}

\* submit: queue the operation under the lock, and write to the eventfd.
UringSubmit(o) ==
  /\ Call(o)
  /\ pending_ops_' = Append(pending_ops_, o)
  /\ eventfd' = TRUE
  /\ UNCHANGED <<setupVars, fdClosed, flying, doneVars, kernelVars, loop, running_, sq>>

\* The eventfd's read completes when the eventfd counts a wakeup, and may
\* complete with EAGAIN before that, as the eventfd is non-blocking.
UringWake ==
  /\ Wakeup \in kernel
  /\ kernel' = kernel \ {Wakeup}
  /\ cq' = Append(cq, Wakeup)
  /\ eventfd' = FALSE
  /\ UNCHANGED <<setupVars, objectVars, fdClosed, pending_ops_, flying, doneVars, loop, running_, sq>>

\* run(): running_ is set, whatever stop() has done before, and the first read
\* of the eventfd submitted.
UringRun ==
  /\ loop = "starting"
  /\ loop' = "checking"
  /\ running_' = TRUE
  /\ kernel' = kernel \cup {Wakeup}
  /\ UNCHANGED <<setupVars, objectVars, fdClosed, pending_ops_, flying, doneVars, cq, uringVars>>

\* while (running_): io_uring_submit_and_wait hands the submissions over; those
\* on a closed descriptor have failed, those in flight when it is closed have not.
UringSubmitAndWait ==
  /\ loop = "checking"
  /\ IF running_
     THEN /\ loop' = "waiting"
          /\ kernel' = kernel \cup sq
          /\ sq' = {}
          /\ result' = [o \in Ops |-> IF o \in sq /\ obj[o] \in fdClosed THEN "error" ELSE result[o]]
     ELSE loop' = "exited" /\ UNCHANGED <<kernel, sq, result>>
  /\ UNCHANGED <<setupVars, objectVars, fdClosed, pending_ops_, flying, completions, cq, running_, eventfd>>

\* process_op, for each operation in turn: it takes a place in the submission
\* queue, or fails if there is none.
Accepted == {pending_ops_[i] : i \in 1 .. Min({Len(pending_ops_), Depth - Cardinality(sq)})}
Rejected == ToSet(pending_ops_) \ Accepted

\* Mutant: process_op forgets to enter the operation in in_flight_ops_.
HandleWakeupForgetting ==
  /\ cq # <<>> /\ Head(cq) = Wakeup
  /\ pending_ops_' = <<>>
  /\ CompleteAll([o \in Rejected |-> "no_buffer_space"])
  /\ sq' = IF Cardinality(sq \cup Accepted) < Depth THEN sq \cup Accepted \cup {Wakeup} ELSE sq \cup Accepted
  /\ UNCHANGED flying

\* The completion of the eventfd's read: everything pending is processed, and
\* the eventfd read again if the submission queue has a place left.
HandleWakeup ==
  /\ cq # <<>> /\ Head(cq) = Wakeup
  /\ pending_ops_' = <<>>
  /\ flying' = flying \cup Accepted
  /\ CompleteAll([o \in Rejected |-> "no_buffer_space"])
  /\ sq' = LET q == sq \cup Accepted IN IF Cardinality(q) < Depth THEN q \cup {Wakeup} ELSE q

\* The completion of an operation in flight: it leaves in_flight_ops_, with the
\* kernel's result, and is completed.
HandleOp ==
  /\ cq # <<>> /\ Head(cq) \in flying
  /\ flying' = flying \ {Head(cq)}
  /\ Complete(Head(cq), result[Head(cq)])
  /\ UNCHANGED <<pending_ops_, sq>>

\* Anything else is ignored.
IgnoreCqe ==
  /\ cq # <<>> /\ Head(cq) \notin flying \cup {Wakeup}
  /\ UNCHANGED <<pending_ops_, sq, flying, doneVars>>

\* io_uring_for_each_cqe, one completion at a time; after the last one the loop
\* looks at running_ again.
UringHandle ==
  /\ loop = "waiting"
  /\ HandleWakeup \/ HandleOp \/ IgnoreCqe
  /\ cq' = Tail(cq)
  /\ loop' = IF Len(cq) = 1 THEN "checking" ELSE "waiting"
  /\ UNCHANGED <<setupVars, objectVars, fdClosed, running_, eventfd, kernel>>

\* Mutant: stop() does not write to the eventfd.
UringStopSilently ==
  /\ loop # "exited" /\ running_' = FALSE
  /\ UNCHANGED <<setupVars, objectVars, fdClosed, pending_ops_, flying, doneVars, kernelVars, loop, uringVars>>

\* stop(): running_ is cleared, and the eventfd written to.
UringStop ==
  /\ loop # "exited" /\ running_' = FALSE
  /\ eventfd' = TRUE
  /\ UNCHANGED <<setupVars, objectVars, fdClosed, pending_ops_, flying, doneVars, kernelVars, loop, sq>>

UringLoop == UringRun \/ UringSubmitAndWait \/ UringHandle
UringFinish == UringWake \/ \E o \in Ops : KernelFinish(o) /\ UNCHANGED uringVars
UringNext == UringLoop \/ UringFinish \/ UringStop \/ \E o \in Ops : UringSubmit(o)

\* The submission queue had no place left for the eventfd's read: the thread is
\* not told of anything any more.
Deaf == loop # "starting" /\ Wakeup \notin sq \cup kernel \cup ToSet(cq)
=============================================================================
