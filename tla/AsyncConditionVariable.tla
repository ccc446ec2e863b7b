----------------------- MODULE AsyncConditionVariable -----------------------
(***************************************************************************)
(* koroutine::AsyncConditionVariable                                       *)
(* (include/koroutine/sync/async_condition_variable.h) together with the   *)
(* AsyncMutex its waiters release.  Every coroutine may use both.          *)
(*                                                                         *)
(* wait() releases the mutex and enqueues the waiter in two critical       *)
(* sections of two different locks.  A notification takes the waiter off   *)
(* the list, sets _locked on its behalf and resumes it, in three steps.    *)
(***************************************************************************)
EXTENDS AsyncMutex

VARIABLES
  cvWaiters,   \* AsyncConditionVariable::waiters
  step,        \* how far each coroutine is in wait()
  toWake,      \* toWake[c]: the waiters the notify of c has yet to resume
  claimed      \* claimed[c]: c has called acquire_for_notify for the first

cvVars == <<cvWaiters, step, toWake, claimed>>
vars == <<mutexVars, cvVars>>

CvInit ==
  /\ Init
  /\ cvWaiters = <<>>
  /\ step = [c \in Coros |-> "none"]
  /\ toWake = [c \in Coros |-> <<>>]
  /\ claimed = [c \in Coros |-> FALSE]

\* c is running and not inside wait() or a notification.
Idle(c) == step[c] = "none" /\ toWake[c] = <<>>

\* The calls of the mutex itself.
MutexStep(c) ==
  /\ \/ Idle(c) /\ (LockFree(c) \/ LockBusy(c) \/ TryLock(c) \/ Unlock(c))
     \/ Enter(c)
     \/ UnlockResume(c)
     \/ Abandon(c)
  /\ UNCHANGED cvVars

\* co_await wait(m): after_suspend begins with mutex->unlock().
WaitUnlock(c) ==
  /\ Idle(c)
  /\ Unlock(c)
  /\ step' = [step EXCEPT ![c] = "enqueue"]
  /\ UNCHANGED <<cvWaiters, toWake, claimed>>

\* The rest of after_suspend, once unlock() has returned.
WaitEnqueue(c) ==
  /\ step[c] = "enqueue"
  /\ pc[c] = "run"
  /\ cvWaiters' = Append(cvWaiters, c)
  /\ step' = [step EXCEPT ![c] = "waiting"]
  /\ UNCHANGED <<mutexVars, toWake, claimed>>

\* A running coroutine, whether it owns the mutex or not; with nobody waiting
\* a notification changes nothing.
MayNotify(c) ==
  /\ Idle(c)
  /\ pc[c] \in {"run", "crit"}
  /\ cvWaiters # <<>>

\* notify_one() takes the oldest waiter off the list.
NotifyOne(c) ==
  /\ MayNotify(c)
  /\ toWake' = [toWake EXCEPT ![c] = <<Head(cvWaiters)>>]
  /\ cvWaiters' = Tail(cvWaiters)
  /\ UNCHANGED <<mutexVars, step, claimed>>

\* Mutant: notify_all() walks the list in place and leaves it as it is.
NotifyAllKeeps(c) ==
  /\ MayNotify(c)
  /\ toWake' = [toWake EXCEPT ![c] = cvWaiters]
  /\ UNCHANGED <<mutexVars, cvWaiters, step, claimed>>

\* notify_all() takes the whole list.
NotifyAll(c) ==
  /\ MayNotify(c)
  /\ toWake' = [toWake EXCEPT ![c] = cvWaiters]
  /\ cvWaiters' = <<>>
  /\ UNCHANGED <<mutexVars, step, claimed>>

\* w->mutex->acquire_for_notify(): sets _locked, whoever owns the mutex.
AcquireForNotify(c) ==
  /\ toWake[c] # <<>>
  /\ ~claimed[c]
  /\ locked' = TRUE
  /\ claimed' = [claimed EXCEPT ![c] = TRUE]
  /\ UNCHANGED <<waiters, pc, handoff, cvWaiters, step, toWake>>

\* Mutant: the waiter is dropped from the list but not resumed.
WakeResumeLost(c) ==
  /\ claimed[c]
  /\ toWake' = [toWake EXCEPT ![c] = Tail(@)]
  /\ claimed' = [claimed EXCEPT ![c] = FALSE]
  /\ UNCHANGED <<mutexVars, cvWaiters, step>>

\* w->owns_mutex_on_resume = true and w->resume(): before_resume finds the
\* flag set and takes the mutex to be its own.
WakeResume(c) ==
  /\ claimed[c]
  /\ LET w == Head(toWake[c])
     IN  /\ pc' = [pc EXCEPT ![w] = "ready"]
         /\ step' = [step EXCEPT ![w] = "none"]
  /\ toWake' = [toWake EXCEPT ![c] = Tail(@)]
  /\ claimed' = [claimed EXCEPT ![c] = FALSE]
  /\ UNCHANGED <<locked, waiters, handoff, cvWaiters>>

\* A coroutine suspended in wait() is destroyed; ~WaitAwaiter takes it off
\* the list.  Its place is taken by a new coroutine.
AbandonWait(c) ==
  /\ Contains(cvWaiters, c)
  /\ cvWaiters' = RemoveFirst(cvWaiters, c)
  /\ step' = [step EXCEPT ![c] = "none"]
  /\ UNCHANGED <<mutexVars, toWake, claimed>>

CvNext ==
  \E c \in Coros :
    \/ MutexStep(c)
    \/ WaitUnlock(c)
    \/ WaitEnqueue(c)
    \/ NotifyOne(c)
    \/ NotifyAll(c)
    \/ AcquireForNotify(c)
    \/ WakeResume(c)
    \/ AbandonWait(c)

CvSpec == CvInit /\ [][CvNext]_vars

-----------------------------------------------------------------------------
BeingWoken(c) == \E d \in Coros : Contains(toWake[d], c)

CvTypeOK ==
  /\ TypeOK
  /\ cvWaiters \in Seq(Coros)
  /\ step \in [Coros -> {"none", "enqueue", "waiting"}]
  /\ toWake \in [Coros -> Seq(Coros)]
  /\ claimed \in [Coros -> BOOLEAN]

\* A coroutine suspended in wait() is on exactly one list, once: the condition
\* variable's or that of a single running notification.  So it is resumed by
\* one notification, whatever notifiers, waits and destructors interleave.
CvWaitersAccounted ==
  /\ IsInjective(cvWaiters)
  /\ \A c \in Coros : step[c] = "waiting" <=> Contains(cvWaiters, c) \/ BeingWoken(c)
  /\ \A c \in Coros : BeingWoken(c) => ~Contains(cvWaiters, c)
  /\ \A d \in Coros : IsInjective(toWake[d])
  /\ \A d, e \in Coros : \A c \in Coros :
       Contains(toWake[d], c) /\ Contains(toWake[e], c) => d = e

\* Types, and where every waiter is.
CvInv == CvTypeOK /\ CvWaitersAccounted

\* Even where notifications make two coroutines believe they own the mutex,
\* _locked is not left set with nobody to clear it, and nobody is queued for
\* a mutex that is free: the mutex never wedges.
NeverWedged ==
  /\ locked => \E c \in Coros : Holds(c) \/ claimed[c]
  /\ waiters # <<>> => locked
=============================================================================
