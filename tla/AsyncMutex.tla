----------------------------- MODULE AsyncMutex -----------------------------
(***************************************************************************)
(* koroutine::AsyncMutex (include/koroutine/sync/async_mutex.h): a mutex   *)
(* whose lock() suspends the calling coroutine instead of its thread.      *)
(*                                                                         *)
(* Every coroutine is an actor; the worker threads under it run it in any  *)
(* order.  A critical section of internal_mutex is one step.  unlock()     *)
(* resumes the next waiter after it has left that section, so the          *)
(* hand-over is two steps and other coroutines run in between.             *)
(***************************************************************************)
EXTENDS SequencesExt, Integers

CONSTANTS
  Coros,   \* the coroutines that use the mutex
  None     \* the null LockAwaiter*

ASSUME NoneAssumption == None \notin Coros

VARIABLES
  locked,   \* AsyncMutex::_locked
  waiters,  \* AsyncMutex::waiters: the coroutines whose LockAwaiter is queued
  pc,       \* what each coroutine is doing
  handoff   \* handoff[c]: the local `next` of the unlock() that c is running

mutexVars == <<locked, waiters, pc, handoff>>

(***************************************************************************)
(* "run": running, not in a call of the mutex and not its owner.           *)
(* "waiting": suspended in lock(); its LockAwaiter is queued, or has just  *)
(*   been taken off the queue by an unlock() that is about to resume it.   *)
(* "ready": owner; its handle has been given to the scheduler.             *)
(* "crit": owner; running between lock() and unlock().                     *)
(* "unlocking": in unlock(), about to resume `next`.                       *)
(***************************************************************************)
PC == {"run", "waiting", "ready", "crit", "unlocking"}

Init ==
  /\ locked = FALSE
  /\ waiters = <<>>
  /\ pc = [c \in Coros |-> "run"]
  /\ handoff = [c \in Coros |-> None]

\* co_await lock() of a free mutex: after_suspend takes it and resumes the
\* coroutine through its scheduler.
LockFree(c) ==
  /\ pc[c] = "run"
  /\ ~locked
  /\ locked' = TRUE
  /\ pc' = [pc EXCEPT ![c] = "ready"]
  /\ UNCHANGED <<waiters, handoff>>

\* Mutant: the queue is a stack.
LockBusyLifo(c) ==
  /\ pc[c] = "run"
  /\ locked
  /\ waiters' = <<c>> \o waiters
  /\ pc' = [pc EXCEPT ![c] = "waiting"]
  /\ UNCHANGED <<locked, handoff>>

\* co_await lock() of a mutex that is taken: the awaiter is queued.
LockBusy(c) ==
  /\ pc[c] = "run"
  /\ locked
  /\ waiters' = Append(waiters, c)
  /\ pc' = [pc EXCEPT ![c] = "waiting"]
  /\ UNCHANGED <<locked, handoff>>

\* A worker resumes the new owner; the LockAwaiter dies at the end of the
\* co_await and removes itself from the queue.
Enter(c) ==
  /\ pc[c] = "ready"
  /\ pc' = [pc EXCEPT ![c] = "crit"]
  /\ waiters' = RemoveFirst(waiters, c)
  /\ UNCHANGED <<locked, handoff>>

\* try_lock() that succeeds; one that fails changes nothing.
TryLock(c) ==
  /\ pc[c] = "run"
  /\ ~locked
  /\ locked' = TRUE
  /\ pc' = [pc EXCEPT ![c] = "crit"]
  /\ UNCHANGED <<waiters, handoff>>

\* unlock() with nobody waiting.
UnlockFree(c) ==
  /\ pc[c] = "crit"
  /\ waiters = <<>>
  /\ locked' = FALSE
  /\ pc' = [pc EXCEPT ![c] = "run"]
  /\ UNCHANGED <<waiters, handoff>>

\* Mutant: unlock() only clears _locked and wakes nobody.
UnlockPopForgets(c) ==
  /\ pc[c] = "crit"
  /\ waiters # <<>>
  /\ pc' = [pc EXCEPT ![c] = "run"]
  /\ locked' = FALSE
  /\ UNCHANGED <<waiters, handoff>>

\* unlock() with a waiter: it is taken off the queue and _locked stays true.
UnlockPop(c) ==
  /\ pc[c] = "crit"
  /\ waiters # <<>>
  /\ handoff' = [handoff EXCEPT ![c] = Head(waiters)]
  /\ waiters' = Tail(waiters)
  /\ pc' = [pc EXCEPT ![c] = "unlocking"]
  /\ UNCHANGED locked

\* The rest of that unlock(), outside internal_mutex: next->resume().
UnlockResume(c) ==
  /\ pc[c] = "unlocking"
  /\ pc' = [pc EXCEPT ![handoff[c]] = "ready", ![c] = "run"]
  /\ handoff' = [handoff EXCEPT ![c] = None]
  /\ UNCHANGED <<locked, waiters>>

\* Mutant: ~LockAwaiter leaves the pointer in the queue.
AbandonStays(c) ==
  /\ Contains(waiters, c)
  /\ pc' = [pc EXCEPT ![c] = "run"]
  /\ UNCHANGED <<locked, waiters, handoff>>

\* The owner of a coroutine suspended in lock() destroys it; ~LockAwaiter
\* takes it off the queue.  Its place is taken by a new coroutine.
Abandon(c) ==
  /\ Contains(waiters, c)
  /\ waiters' = RemoveFirst(waiters, c)
  /\ pc' = [pc EXCEPT ![c] = "run"]
  /\ UNCHANGED <<locked, handoff>>

Unlock(c) == UnlockFree(c) \/ UnlockPop(c)

Next ==
  \E c \in Coros :
    \/ LockFree(c)
    \/ LockBusy(c)
    \/ Enter(c)
    \/ TryLock(c)
    \/ Unlock(c)
    \/ UnlockResume(c)
    \/ Abandon(c)

\* A scheduled coroutine is run, and a coroutine that runs goes on: it
\* finishes unlock() and, once in its critical section, calls it.
Fairness ==
  \A c \in Coros : WF_mutexVars(Enter(c)) /\ WF_mutexVars(Unlock(c))
                   /\ WF_mutexVars(UnlockResume(c))

Spec == Init /\ [][Next]_mutexVars
FairSpec == Spec /\ Fairness

-----------------------------------------------------------------------------
Queued(c) == Contains(waiters, c)

\* c owns the mutex as far as its code can tell.
Owns(c) == pc[c] \in {"ready", "crit"}

\* The owner, or the unlock() that is between two owners.
Holds(c) == pc[c] \in {"ready", "crit", "unlocking"}

TypeOK ==
  /\ locked \in BOOLEAN
  /\ waiters \in Seq(Coros)
  /\ pc \in [Coros -> PC]
  /\ handoff \in [Coros -> Coros \cup {None}]

\* At most one coroutine is between the return of lock() and unlock(),
\* whatever the order of hand-overs, try_lock() and abandoned waits.
MutualExclusion == \A c, d \in Coros : Owns(c) /\ Owns(d) => c = d

\* _locked says exactly whether somebody holds the mutex: it is never leaked
\* (true with no owner left to unlock it) and never free under an owner.
LockedIffHeld == locked <=> \E c \in Coros : Holds(c)

\* A coroutine suspended in lock() is in the queue exactly once or is the one
\* an unlock() is handing the mutex to: no wait is lost or resumed twice.
\* Nobody waits for a mutex that is free.
WaitersAccounted ==
  /\ IsInjective(waiters)
  /\ \A c \in Coros :
       pc[c] = "waiting" <=> \/ Queued(c)
                             \/ \E d \in Coros : handoff[d] = c
  /\ \A c, d \in Coros : handoff[d] = c => ~Queued(c)
  /\ \A d \in Coros : pc[d] = "unlocking" <=> handoff[d] # None
  /\ waiters # <<>> => locked

\* One holder at a time, the unlock() between two owners included.
SingleHolder == \A c, d \in Coros : Holds(c) /\ Holds(d) => c = d

\* The strengthening of MutualExclusion that every step preserves.
MutexInv == TypeOK /\ SingleHolder /\ LockedIffHeld /\ WaitersAccounted

\* The mutex implements a first-come first-served lock: unlock() makes the
\* oldest waiter the owner when it takes it off the queue, and nobody else
\* can get the mutex before that waiter is resumed.
AbstractOwner ==
  IF \E c \in Coros : Owns(c) THEN CHOOSE c \in Coros : Owns(c)
  ELSE IF \E c \in Coros : pc[c] = "unlocking"
       THEN handoff[CHOOSE c \in Coros : pc[c] = "unlocking"]
       ELSE None

Lock == INSTANCE FifoLock WITH owner <- AbstractOwner, queue <- waiters

\* Every step of the mutex is a step of the first-come first-served lock.
ImplementsFifoLock == Lock!Spec

\* A coroutine that waits in lock() gets the mutex, or is destroyed waiting.
EveryWaiterServed == \A c \in Coros : pc[c] = "waiting" ~> pc[c] # "waiting"
=============================================================================
