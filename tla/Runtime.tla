------------------------------- MODULE Runtime -------------------------------
(***************************************************************************)
(* The calls of koroutine::Runtime (include/koroutine/runtime.hpp) that    *)
(* block a thread until coroutines are over: block_on, of one coroutine,   *)
(* and join_all, of several, as a pack or a vector.  Each call has a mutex *)
(* and a condition variable on its thread's stack; a wrapper coroutine     *)
(* awaits each coroutine, counts down and notifies.                        *)
(*                                                                         *)
(* A wrapper of join_all whose coroutine returned counts down and notifies *)
(* without the mutex; the others do it under the mutex.                    *)
(***************************************************************************)
EXTENDS Integers, FiniteSets

CONSTANTS
  Threads,
  Coros,
  Awaits, \* the coroutines each thread's call waits for
  call    \* and which call it is, "block_on" or "join_all"

ASSUME RuntimeAssumption ==
  /\ IsFiniteSet(Coros)
  /\ Awaits \in [Threads -> SUBSET Coros \ {{}}]
  /\ call \in [Threads -> {"block_on", "join_all"}]
  /\ \A t \in Threads : call[t] = "block_on" => Cardinality(Awaits[t]) = 1
  /\ \A c \in Coros : \E t \in Threads : c \in Awaits[t]
  /\ \A t, u \in Threads : t # u => Awaits[t] \cap Awaits[u] = {}

VARIABLES
  waiter,     \* where each thread is in its call
  wrapper,    \* where the wrapper of each coroutine is
  ended,      \* how each coroutine has ended, "none" before
  remaining,  \* join_all's counter; for block_on 0 stands for is_completed
  exceptions  \* what each call has caught

runtimeVars == <<waiter, wrapper, ended, remaining, exceptions>>

Caller(c) == CHOOSE t \in Threads : c \in Awaits[t]

RuntimeInit ==
  /\ waiter = [t \in Threads |-> "starting"]
  /\ wrapper = [c \in Coros |-> "created"]
  /\ ended = [c \in Coros |-> "none"]
  /\ remaining = [t \in Threads |-> Cardinality(Awaits[t])]
  /\ exceptions = [t \in Threads |-> {}]

-----------------------------------------------------------------------------
(***************************************************************************)
(* The wrappers.                                                           *)
(***************************************************************************)
Goto(c, from, to) == wrapper[c] = from /\ wrapper' = [wrapper EXCEPT ![c] = to]

\* notify_one: a thread that waits goes back to its predicate.
WakeWaiter(t) ==
  waiter' = IF waiter[t] = "waiting" THEN [waiter EXCEPT ![t] = "testing"] ELSE waiter

\* The thread starts the wrapper, and with it the coroutine.
StartWrapper(c) ==
  /\ waiter[Caller(c)] = "starting"
  /\ Goto(c, "created", "running")
  /\ UNCHANGED <<waiter, ended, remaining, exceptions>>

\* The coroutine returns or throws, and its wrapper goes on.
Finish(c, how) ==
  /\ Goto(c, "running", "counting")
  /\ ended' = [ended EXCEPT ![c] = how]
  /\ UNCHANGED <<waiter, remaining, exceptions>>

\* The wrapper has the mutex from before it counts down until it has notified.
UnderLock(c) == call[Caller(c)] = "block_on" \/ ended[c] = "exception"

\* Mutant: the mutex is not taken, so that the notification may come between
\* the waiter's predicate and its wait.
CountDownUnlocked(c) ==
  /\ UnderLock(c)
  /\ Goto(c, "counting", "over")
  /\ remaining' = [remaining EXCEPT ![Caller(c)] = @ - 1]
  /\ exceptions' = [exceptions EXCEPT ![Caller(c)] = @ \cup {d \in {c} : ended[d] = "exception"}]
  /\ IF remaining[Caller(c)] = 1 THEN WakeWaiter(Caller(c)) ELSE UNCHANGED waiter
  /\ UNCHANGED ended

\* FinalAwaiter of block_on, and join_all's catch: the exception is kept, and
\* the last wrapper notifies.  The waiter lets the mutex go only while it waits.
CountDownLocked(c) ==
  /\ UnderLock(c)
  /\ waiter[Caller(c)] # "blocking"
  /\ Goto(c, "counting", "over")
  /\ remaining' = [remaining EXCEPT ![Caller(c)] = @ - 1]
  /\ exceptions' = [exceptions EXCEPT ![Caller(c)] = @ \cup {d \in {c} : ended[d] = "exception"}]
  /\ IF remaining[Caller(c)] = 1 THEN WakeWaiter(Caller(c)) ELSE UNCHANGED waiter
  /\ UNCHANGED ended

\* remaining.fetch_sub(1) of join_all, with no lock.
CountDownFree(c) ==
  /\ ~UnderLock(c)
  /\ Goto(c, "counting", IF remaining[Caller(c)] = 1 THEN "notifying" ELSE "over")
  /\ remaining' = [remaining EXCEPT ![Caller(c)] = @ - 1]
  /\ UNCHANGED <<waiter, ended, exceptions>>

\* cv.notify_one() that follows it, with no lock.
NotifyFree(c) ==
  /\ Goto(c, "notifying", "over")
  /\ WakeWaiter(Caller(c))
  /\ UNCHANGED <<ended, remaining, exceptions>>

WrapperStep(c) == CountDownLocked(c) \/ CountDownFree(c) \/ NotifyFree(c)

-----------------------------------------------------------------------------
(***************************************************************************)
(* The threads.                                                            *)
(***************************************************************************)
ThreadGoto(t, from, to) ==
  /\ waiter[t] = from
  /\ waiter' = [waiter EXCEPT ![t] = to]
  /\ UNCHANGED <<wrapper, ended, remaining, exceptions>>

\* With every wrapper started the thread locks the mutex and calls cv.wait.
Await(t) ==
  /\ \A c \in Awaits[t] : wrapper[c] # "created"
  /\ ThreadGoto(t, "starting", "testing")

\* Mutant: the predicate is true one wrapper too early.
TestEarly(t) == ThreadGoto(t, "testing", IF remaining[t] <= 1 THEN "returned" ELSE "blocking")

\* The predicate, under the mutex: the thread returns, or is about to block.
\* (block_on destroys its wrapper, join_all its vector of them and its mutex.)
Test(t) == ThreadGoto(t, "testing", IF remaining[t] = 0 THEN "returned" ELSE "blocking")

\* The thread releases the mutex and waits.  (A spurious wakeup would only take
\* it back to its predicate.)
Block(t) == ThreadGoto(t, "blocking", "waiting")

ThreadStep(t) == Await(t) \/ Test(t) \/ Block(t)

-----------------------------------------------------------------------------
RuntimeTypeOK ==
  /\ waiter \in [Threads -> {"starting", "testing", "blocking", "waiting", "returned"}]
  /\ wrapper \in [Coros -> {"created", "running", "counting", "notifying", "over"}]
  /\ ended \in [Coros -> {"none", "value", "exception"}]
  /\ remaining \in [Threads -> Nat]
  /\ exceptions \in [Threads -> SUBSET Coros]

Counted(t) == {c \in Awaits[t] : wrapper[c] \in {"notifying", "over"}}

\* The counter counts the wrappers that have not counted down, and the call
\* has caught what was thrown by those that have.
CountExact ==
  \A t \in Threads :
    /\ remaining[t] = Cardinality(Awaits[t] \ Counted(t))
    /\ exceptions[t] = {c \in Counted(t) : ended[c] = "exception"}
    /\ \A c \in Awaits[t] : ended[c] = "none" <=> wrapper[c] \in {"created", "running"}

\* A thread whose call is complete and that waits is about to be notified,
\* unless the last wrapper counted down without the mutex: block_on never
\* sleeps through the end of its coroutine.
NoLostNotify ==
  \A t \in Threads :
    call[t] = "block_on" => ~(waiter[t] \in {"blocking", "waiting"} /\ remaining[t] = 0)

\* Whoever returns has waited for every coroutine, and block_on only when its
\* wrapper is done with the mutex and the frame that the thread destroys.
ReturnsAfterAll ==
  \A t \in Threads : waiter[t] = "returned" =>
    /\ \A c \in Awaits[t] : ended[c] # "none"
    /\ call[t] = "block_on" => \A c \in Awaits[t] : wrapper[c] = "over"
=============================================================================
