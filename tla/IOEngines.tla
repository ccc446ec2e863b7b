------------------------------ MODULE IOEngines ------------------------------
(***************************************************************************)
(* IOEngine::create() (src/async_io/engin.cpp): the build chooses one of   *)
(* the three engines, and its program submits operations to that one.  The *)
(* properties are those that a user of the interface IOEngine relies on,   *)
(* with the cases of each engine in which they do not hold named.          *)
(***************************************************************************)
EXTENDS IoUring, Kqueue, Iocp

engineVars == <<ioVars, uringVars, kqueueVars, iocpVars>>

EnginesInit == IOInit /\ UringInit /\ KqueueInit /\ IocpInit

EnginesNext ==
  \/ platform = "linux" /\ UringNext /\ UNCHANGED <<kqueueVars, iocpVars>>
  \/ platform = "macos" /\ KqueueNext /\ UNCHANGED <<uringVars, iocpVars>>
  \/ platform = "windows" /\ IocpNext /\ UNCHANGED <<uringVars, kqueueVars>>

\* The engine's thread runs, the kernel finishes what it can, and a thread that
\* has called submit() or stop() returns from it.
EnginesFairness ==
  /\ WF_engineVars(platform = "linux" /\ UringLoop /\ UNCHANGED <<kqueueVars, iocpVars>>)
  /\ WF_engineVars(platform = "linux" /\ eventfd /\ UringWake /\ UNCHANGED <<kqueueVars, iocpVars>>)
  /\ WF_engineVars(platform = "macos" /\ KqueueLoop /\ UNCHANGED <<uringVars, iocpVars>>)
  /\ WF_engineVars(platform = "windows" /\ IocpThread /\ UNCHANGED <<uringVars, kqueueVars>>)
  /\ WF_engineVars(platform = "windows" /\ IocpCancelAll /\ UNCHANGED <<uringVars, kqueueVars>>)
  /\ \A o \in Ops :
       /\ WF_engineVars(KernelFinish(o) /\ UNCHANGED <<uringVars, kqueueVars, iocpVars>>)
       /\ WF_engineVars(platform = "windows" /\ IocpSubmitter(o) /\ UNCHANGED <<uringVars, kqueueVars>>)

EnginesSpec == EnginesInit /\ [][EnginesNext]_engineVars
EnginesFairSpec == EnginesSpec /\ EnginesFairness

-----------------------------------------------------------------------------
Pending == ToSet(pending_ops_)

EnginesTypeOK ==
  /\ platform \in Platforms /\ quiet \in BOOLEAN /\ running_ \in BOOLEAN /\ eventfd \in BOOLEAN
  /\ type \in [Ops -> {"none", "in", "out", "close"}] /\ obj \in [Ops -> Objects \cup {"none"}]
  /\ awaited \subseteq Ops /\ is_closed_ \subseteq Sockets /\ fdClosed \subseteq Objects
  /\ Pending \cup flying \subseteq Ops
  /\ kernel \cup sq \cup ToSet(cq) \subseteq Ops \cup {Wakeup}
  /\ completions \in [Ops -> Nat] /\ result \in [Ops -> Results]
  /\ loop \in {"starting", "checking", "draining", "waiting", "handling", "exited"}
  /\ user \in BOOLEAN /\ filters \subseteq Objects \X {"in", "out"}
  /\ events \subseteq (Objects \X {"in", "out"}) \cup {WakeupEvent}
  /\ submitting \in [Ops -> {"none", "admitted", "entered", "started"}]

\* On linux, an outstanding operation is pending or in in_flight_ops_; and what
\* is there is in exactly one of the three places in which the kernel's queues
\* refer to it with a raw pointer: a completion always finds its operation alive.
UringAccounted ==
  /\ \A o \in Ops : Outstanding(o) => o \in Pending \cup flying
  /\ \A o \in flying : Outstanding(o)
  /\ flying = (sq \cup kernel \cup ToSet(cq)) \ {Wakeup}
  /\ sq \cap kernel = {} /\ sq \cap ToSet(cq) = {} /\ kernel \cap ToSet(cq) = {}
  /\ Cardinality(sq) <= Depth
  /\ eventfd \/ Wakeup \in ToSet(cq) \/ loop = "starting" \/ Pending = {} \/ Deaf

\* On macos, an outstanding operation is pending or in active_ops_, or has been
\* evicted, and is nowhere.  One in active_ops_ has the descriptor to itself, which
\* is open, and an event of the descriptor is registered or about to be handled.
KqueueAccounted ==
  /\ \A o \in Ops : Outstanding(o) => o \in Pending \cup flying \/ Evicted(o)
  /\ \A o \in flying : Outstanding(o) /\ obj[o] \notin fdClosed
  /\ \A o, p \in flying : obj[o] = obj[p] => o = p
  /\ \A o \in flying : \E f \in filters \cup events : f[1] = obj[o]
  /\ user \/ events # {} \/ Pending = {} \/ loop # "waiting"

\* On windows, an outstanding operation is about to be entered in in_flight_ops_,
\* or it is there and about to be started, in the kernel, in the port's queue, or
\* a CLOSE of which there will be no packet.  What the kernel and the queue refer
\* to is in in_flight_ops_ and outstanding until stop() is called.
IocpAccounted ==
  /\ \A o \in Ops : Outstanding(o) =>
       IF submitting[o] = "admitted"
       THEN o \notin flying
       ELSE /\ o \in flying
            /\ submitting[o] = "entered" \/ o \in kernel \cup ToSet(cq) \/ Unposted(o)
  /\ kernel \cap ToSet(cq) = {}
  /\ \A o \in kernel \cup ToSet(cq) : submitting[o] = "started" /\ ~Unposted(o)
  /\ running_ => \A o \in kernel \cup ToSet(cq) : o \in flying /\ Outstanding(o)

\* An operation is completed once: its coroutine is never scheduled a second
\* time, when it may be gone (op.h:67-80).  On windows that is so as long as
\* the engine runs: stop() completes what submit() is still at work on
\* (iocp_engin.cpp:98-254, 346-350).
CompletedOnce == \A o \in Ops : completions[o] <= 1 \/ (platform = "windows" /\ ~running_)

\* An operation is completed once; and one that has been submitted and not
\* completed is in exactly one place of its engine, once: on linux always
\* (io_uring_engin.cpp:52-224), on macos unless it is Evicted, when it is in none
\* (kqueue_engin.cpp:53-296), on windows always, with the submitter's hands as a
\* place (iocp_engin.cpp:98-352).  Nothing else is in these places, but on windows
\* for what stop() has completed and an accept or a connect that could not be made.
IOInv ==
  /\ EnginesTypeOK
  /\ CompletedOnce
  /\ IsInjective(pending_ops_) /\ IsInjective(cq)
  /\ flying \cap Pending = {}
  /\ \A o \in Pending : Outstanding(o)
  /\ CASE platform = "linux"   -> UringAccounted
       [] platform = "macos"   -> KqueueAccounted
       [] platform = "windows" -> IocpAccounted

Stopped == ~running_ /\ (platform = "windows" \/ loop # "starting")

\* There is nothing to read, and nothing ends the wait: on linux, closing the
\* descriptor does not.
NothingToRead(o) == quiet /\ type[o] = "in" /\ (platform = "linux" \/ obj[o] \notin fdClosed)

\* A coroutine that waits for an operation is scheduled again, also when
\* nothing is there to read and another one closes the object, as long as the
\* engine runs.  It is not if the submission queue was full when the eventfd
\* was to be read again (io_uring_engin.cpp:112-117), or if another operation
\* has been submitted for the same descriptor (kqueue_engin.cpp:249, 267).
OpsComplete ==
  \A o \in Ops :
    []<>(o \in awaited =>
           \/ completions[o] > 0
           \/ Stopped
           \/ NothingToRead(o)
           \/ platform = "linux" /\ Deaf
           \/ platform = "macos" /\ Evicted(o))

\* The thread that runs the engine ends after stop() (io_uring_engin.cpp:79,
\* 232, kqueue_engin.cpp:69, 221, iocp_engin.cpp:262, 339), if it was in run()
\* when stop() was called, and can be told.
StopEndsLoop == Stopped ~> loop = "exited" \/ (platform = "linux" /\ Deaf)
=============================================================================
