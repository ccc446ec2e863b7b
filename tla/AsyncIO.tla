------------------------------- MODULE AsyncIO -------------------------------
(***************************************************************************)
(* Asynchronous operations on files and sockets, whatever the engine       *)
(* (include/koroutine/async_io/): a coroutine builds an AsyncIOOp for an   *)
(* object, submits it to the engine in IOAwaiter::after_suspend, and is    *)
(* scheduled when the engine completes the operation.                      *)
(*                                                                         *)
(* Operations differ in their direction only: "in" for READ, ACCEPT and    *)
(* RECVFROM, "out" for WRITE, CONNECT and SENDTO, "close" for CLOSE.  The  *)
(* kernel is external: it finishes an operation that is in flight, in any  *)
(* order, with success or an error.                                        *)
(***************************************************************************)
EXTENDS SequencesExt, Integers

CONSTANTS
  MaxOps,   \* how many operations are submitted, on each platform
  Sockets,  \* the AsyncSockets: close() and cancel() guard with is_closed_
  Others    \* files, UDP and server sockets, whose close() has no guard

\* Operations are numbered in the order in which they are submitted.
Platforms == {"linux", "macos", "windows"}
Ops == 1 .. Max({MaxOps[p] : p \in Platforms})
Objects == Sockets \cup Others

ASSUME AsyncIOAssumption == MaxOps \in [Platforms -> Nat] /\ Sockets \cap Others = {} /\ Objects # {}

VARIABLES
  platform,     \* which engine IOEngine::create() makes
  quiet,        \* nothing arrives: what is read waits for ever
  type,         \* the direction of each operation, "none" before it is built
  obj,          \* its object, if it has been built
  awaited,      \* a coroutine waits for it (cancel() submits one nobody awaits)
  is_closed_,   \* the sockets that close() or cancel() has been called on
  fdClosed,     \* the objects whose descriptor is closed
  pending_ops_, \* submitted, not taken by the engine's thread yet
  flying,       \* in the engine's map of operations in flight
  completions,  \* how often complete() was called for each operation
  result,       \* and how it was last completed
  kernel,       \* what the kernel works on
  cq,           \* the queue of what it has finished
  loop,         \* where the thread that runs the engine is
  running_

objectVars == <<type, obj, awaited, is_closed_>>
doneVars == <<completions, result>>
kernelVars == <<kernel, cq>>
setupVars == <<platform, quiet>>
ioVars == <<setupVars, objectVars, fdClosed, pending_ops_, flying, doneVars, kernelVars, loop, running_>>

Results == {"none", "done", "error", "canceled", "no_buffer_space"}

IOInit ==
  /\ platform \in Platforms
  /\ quiet \in BOOLEAN
  /\ type = [o \in Ops |-> "none"]
  /\ obj = [o \in Ops |-> "none"]
  /\ awaited = {}
  /\ is_closed_ = {}
  /\ fdClosed = {}
  /\ pending_ops_ = <<>>
  /\ flying = {}
  /\ completions = [o \in Ops |-> 0]
  /\ result = [o \in Ops |-> "none"]
  /\ kernel = {}
  /\ cq = <<>>
  /\ loop = "starting"
  /\ running_ = (platform = "windows")

\* AsyncIOOp::complete: what is in its argument is scheduled on the scheduler.
CompleteAll(how) ==
  /\ completions' = [o \in Ops |-> IF o \in DOMAIN how THEN completions[o] + 1 ELSE completions[o]]
  /\ result' = [o \in Ops |-> IF o \in DOMAIN how THEN how[o] ELSE result[o]]

Complete(o, how) == CompleteAll([p \in {o} |-> how])

\* Submitted and not completed.
Outstanding(o) == type[o] # "none" /\ completions[o] = 0

\* A system call fails on a closed descriptor.
Outcome(o) == IF obj[o] \in fdClosed THEN "error" ELSE "done"

\* What has nothing to read from stays in the kernel, unless it has failed.
CanFinish(o) == quiet /\ type[o] = "in" => result[o] = "error"

\* The kernel finishes what it works on, in any order.
KernelFinish(o) ==
  /\ o \in kernel /\ o \in Ops /\ CanFinish(o)
  /\ kernel' = kernel \ {o}
  /\ cq' = Append(cq, o)
  /\ result' = [result EXCEPT ![o] = IF @ = "error" THEN "error" ELSE Outcome(o)]
  /\ fdClosed' = IF type[o] = "close" THEN fdClosed \cup {obj[o]} ELSE fdClosed
  /\ UNCHANGED <<setupVars, objectVars, pending_ops_, flying, completions, loop, running_>>

-----------------------------------------------------------------------------
(***************************************************************************)
(* The objects' functions, up to the engine's submit.                      *)
(***************************************************************************)
Build(o, ob, direction, submitter) ==
  /\ o <= MaxOps[platform] /\ type[o] = "none" /\ \A p \in 1 .. o - 1 : type[p] # "none"
  /\ type' = [type EXCEPT ![o] = direction]
  /\ obj' = [obj EXCEPT ![o] = ob]
  /\ awaited' = IF submitter = "awaiter" THEN awaited \cup {o} ELSE awaited

\* read of any object, accept and recv_from.
Read(o) == (\E ob \in Objects : Build(o, ob, "in", "awaiter")) /\ UNCHANGED is_closed_

\* write, send_to, and connect once ::connect has returned EINPROGRESS.
Write(o) == (\E ob \in Objects : Build(o, ob, "out", "awaiter")) /\ UNCHANGED is_closed_

\* AsyncSocket::close and cancel act once; cancel submits without an awaiter.
CloseSocket(o) ==
  \E ob \in Sockets \ is_closed_, submitter \in {"awaiter", "cancel"} :
    /\ is_closed_' = is_closed_ \cup {ob}
    /\ Build(o, ob, "close", submitter)

\* close() of a file, a UDP socket or a server socket.
CloseOther(o) == (\E ob \in Others : Build(o, ob, "close", "awaiter")) /\ UNCHANGED is_closed_

Call(o) == Read(o) \/ Write(o) \/ CloseSocket(o) \/ CloseOther(o)
=============================================================================
