------------------------------ MODULE FifoLock ------------------------------
(***************************************************************************)
(* What AsyncMutex promises: a lock with one owner at a time, handed over  *)
(* in the order of the requests.  A waiter may give up.  AsyncMutex is     *)
(* shown to implement this module.                                         *)
(***************************************************************************)
EXTENDS SequencesExt

CONSTANTS
  Coros,   \* the coroutines that use the lock
  None     \* "no coroutine"

VARIABLES
  owner,   \* the coroutine that owns the lock, or None
  queue    \* the coroutines waiting for it, oldest request first

lockVars == <<owner, queue>>

Init == owner = None /\ queue = <<>>

\* A free lock goes to whoever asks for it; nobody can be waiting for it.
Acquire(c) ==
  /\ owner = None
  /\ queue = <<>>
  /\ owner' = c
  /\ UNCHANGED queue

\* A request for a lock that is owned waits its turn.
Enqueue(c) ==
  /\ owner # None
  /\ owner # c
  /\ ~Contains(queue, c)
  /\ queue' = Append(queue, c)
  /\ UNCHANGED owner

\* The owner gives the lock to the oldest request, if there is one.
Release(c) ==
  /\ owner = c
  /\ IF queue = <<>>
     THEN owner' = None /\ UNCHANGED queue
     ELSE owner' = Head(queue) /\ queue' = Tail(queue)

\* A waiting request is withdrawn.
Withdraw(c) ==
  /\ Contains(queue, c)
  /\ queue' = RemoveFirst(queue, c)
  /\ UNCHANGED owner

Next ==
  \E c \in Coros : Acquire(c) \/ Enqueue(c) \/ Release(c) \/ Withdraw(c)

Spec == Init /\ [][Next]_lockVars
=============================================================================
