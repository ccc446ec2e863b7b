---------------------------- MODULE Await_proofs -----------------------------
(***************************************************************************)
(* Proofs about what a coroutine can wait for besides a task or a channel: *)
(* the objects of include/koroutine/sync and the combinators of            *)
(* include/koroutine/when_all.hpp and when_any.hpp.                        *)
(*                                                                         *)
(* AsyncMutex on its own, for every set of coroutines: mutual exclusion,   *)
(* _locked is never leaked, no waiter is lost, and it implements FifoLock. *)
(* Under an AsyncConditionVariable, whose notifications take the mutex     *)
(* without asking: every waiter is woken by one notification, and the      *)
(* mutex never wedges.                                                     *)
(*                                                                         *)
(* when_all and when_any, for every finite set of tasks, each of their     *)
(* forms and any order of stores.  when_all returns only after all its     *)
(* tasks, and on a single thread it returns once and leaves nothing        *)
(* running behind.  when_any has one winner, nobody schedules it before    *)
(* there is one, and on a single thread it returns once, with what the     *)
(* winner has stored.                                                      *)
(***************************************************************************)
EXTENDS AsyncConditionVariable, WhenAll, WhenAny, SequenceLemmas,
        FiniteSetTheorems

-----------------------------------------------------------------------------
(***************************************************************************)
(* AsyncMutex.                                                             *)
(***************************************************************************)
\* The new mutex is free, with nobody waiting.
LEMMA InitEstablishes == Init => MutexInv
<1> SUFFICES ASSUME Init PROVE MutexInv
  OBVIOUS
<1>1. TypeOK
  BY EmptySeq DEF Init, TypeOK, PC
<1>2. SingleHolder /\ LockedIffHeld
  BY DEF Init, SingleHolder, LockedIffHeld, Holds
<1>3. WaitersAccounted
  BY NoneAssumption DEF Init, WaitersAccounted, Queued, Contains, IsInjective
<1> QED
  BY <1>1, <1>2, <1>3 DEF MutexInv

\* Every call of the mutex, and every half of a call, preserves MutexInv.
LEMMA StepPreserves == MutexInv /\ [Next]_mutexVars => MutexInv'
<1> SUFFICES ASSUME MutexInv, [Next]_mutexVars PROVE MutexInv'
  OBVIOUS
<1> USE NoneAssumption DEF MutexInv
<1>1. ASSUME NEW c \in Coros, LockFree(c) PROVE MutexInv'
  <2>1. TypeOK'
    BY <1>1 DEF LockFree, TypeOK, PC
  <2>2. SingleHolder' /\ LockedIffHeld'
    BY <1>1 DEF LockFree, TypeOK, SingleHolder, LockedIffHeld, Holds
  <2>3. WaitersAccounted'
    BY <1>1 DEF LockFree, TypeOK, WaitersAccounted, Queued
  <2> QED
    BY <2>1, <2>2, <2>3
<1>2. ASSUME NEW c \in Coros, LockBusy(c) PROVE MutexInv'
  <2>0. /\ waiters \in Seq(Coros) /\ IsInjective(waiters) /\ ~Contains(waiters, c)
        /\ \A d \in Coros : handoff[d] # c
    BY <1>2 DEF LockBusy, TypeOK, WaitersAccounted, Queued
  <2>1. /\ waiters' \in Seq(Coros) /\ IsInjective(waiters')
        /\ \A x : Contains(waiters', x) <=> Contains(waiters, x) \/ x = c
    BY <1>2, <2>0, AppendFresh DEF LockBusy
  <2>2. TypeOK'
    BY <1>2, <2>1 DEF LockBusy, TypeOK, PC
  <2>3. SingleHolder' /\ LockedIffHeld'
    BY <1>2 DEF LockBusy, TypeOK, SingleHolder, LockedIffHeld, Holds
  <2>4. WaitersAccounted'
    BY <1>2, <2>0, <2>1 DEF LockBusy, TypeOK, WaitersAccounted, Queued
  <2> QED
    BY <2>2, <2>3, <2>4
<1>3. ASSUME NEW c \in Coros, Enter(c) PROVE MutexInv'
  <2>0. waiters \in Seq(Coros) /\ IsInjective(waiters) /\ ~Contains(waiters, c)
    BY <1>3 DEF Enter, TypeOK, WaitersAccounted, Queued
  <2>1. waiters' = waiters
    BY <1>3, <2>0 DEF Enter, RemoveFirst, Contains
  <2>2. TypeOK'
    BY <1>3, <2>1 DEF Enter, TypeOK, PC
  <2>3. SingleHolder' /\ LockedIffHeld'
    BY <1>3 DEF Enter, TypeOK, SingleHolder, LockedIffHeld, Holds
  <2>4. WaitersAccounted'
    BY <1>3, <2>1 DEF Enter, TypeOK, WaitersAccounted, Queued
  <2> QED
    BY <2>2, <2>3, <2>4
<1>4. ASSUME NEW c \in Coros, TryLock(c) PROVE MutexInv'
  <2>1. TypeOK'
    BY <1>4 DEF TryLock, TypeOK, PC
  <2>2. SingleHolder' /\ LockedIffHeld'
    BY <1>4 DEF TryLock, TypeOK, SingleHolder, LockedIffHeld, Holds
  <2>3. WaitersAccounted'
    BY <1>4 DEF TryLock, TypeOK, WaitersAccounted, Queued
  <2> QED
    BY <2>1, <2>2, <2>3
<1>5. ASSUME NEW c \in Coros, UnlockFree(c) PROVE MutexInv'
  <2>1. TypeOK'
    BY <1>5 DEF UnlockFree, TypeOK, PC
  <2>2. SingleHolder' /\ LockedIffHeld'
    BY <1>5 DEF UnlockFree, TypeOK, SingleHolder, LockedIffHeld, Holds
  <2>3. WaitersAccounted'
    BY <1>5 DEF UnlockFree, TypeOK, WaitersAccounted, Queued
  <2> QED
    BY <2>1, <2>2, <2>3
<1>6. ASSUME NEW c \in Coros, UnlockPop(c) PROVE MutexInv'
  <2>0. /\ waiters \in Seq(Coros) /\ IsInjective(waiters) /\ waiters # <<>>
        /\ \A d \in Coros : handoff[d] = None
    BY <1>6 DEF UnlockPop, TypeOK, WaitersAccounted, SingleHolder, Holds
  <2>1. /\ Head(waiters) \in Coros /\ Contains(waiters, Head(waiters))
        /\ waiters' \in Seq(Coros) /\ IsInjective(waiters')
        /\ \A x : Contains(waiters', x) <=> Contains(waiters, x) /\ x # Head(waiters)
    BY <1>6, <2>0, TailProperties DEF UnlockPop
  <2>2. TypeOK'
    BY <1>6, <2>1 DEF UnlockPop, TypeOK, PC
  <2>3. SingleHolder' /\ LockedIffHeld'
    BY <1>6 DEF UnlockPop, TypeOK, SingleHolder, LockedIffHeld, Holds
  <2>4. WaitersAccounted'
    BY <1>6, <2>0, <2>1 DEF UnlockPop, TypeOK, WaitersAccounted, Queued
  <2> QED
    BY <2>2, <2>3, <2>4
<1>7. ASSUME NEW c \in Coros, UnlockResume(c) PROVE MutexInv'
  <2>0. /\ handoff[c] \in Coros /\ pc[handoff[c]] = "waiting" /\ handoff[c] # c
        /\ ~Contains(waiters, handoff[c])
        /\ \A d \in Coros \ {c} : handoff[d] = None
    BY <1>7 DEF UnlockResume, TypeOK, WaitersAccounted, Queued, SingleHolder, Holds
  <2>1. TypeOK'
    BY <1>7, <2>0 DEF UnlockResume, TypeOK, PC
  <2>2. SingleHolder' /\ LockedIffHeld'
    BY <1>7, <2>0 DEF UnlockResume, TypeOK, SingleHolder, LockedIffHeld, Holds
  <2>3. WaitersAccounted'
    BY <1>7, <2>0 DEF UnlockResume, TypeOK, WaitersAccounted, Queued
  <2> QED
    BY <2>1, <2>2, <2>3
<1>8. ASSUME NEW c \in Coros, Abandon(c) PROVE MutexInv'
  <2>0. /\ waiters \in Seq(Coros) /\ IsInjective(waiters) /\ pc[c] = "waiting"
        /\ waiters # <<>> /\ \A d \in Coros : handoff[d] # c
    BY <1>8, EmptySeq DEF Abandon, TypeOK, WaitersAccounted, Queued, Contains
  <2>1. /\ waiters' \in Seq(Coros) /\ IsInjective(waiters')
        /\ \A x : Contains(waiters', x) <=> Contains(waiters, x) /\ x # c
    BY <1>8, <2>0, RemoveFirstProperties DEF Abandon
  <2>2. TypeOK'
    BY <1>8, <2>1 DEF Abandon, TypeOK, PC
  <2>3. SingleHolder' /\ LockedIffHeld'
    BY <1>8, <2>0 DEF Abandon, TypeOK, SingleHolder, LockedIffHeld, Holds
  <2>4. WaitersAccounted'
    BY <1>8, <2>0, <2>1 DEF Abandon, TypeOK, WaitersAccounted, Queued
  <2> QED
    BY <2>2, <2>3, <2>4
<1>9. CASE UNCHANGED mutexVars
  BY <1>9 DEF mutexVars, TypeOK, SingleHolder, LockedIffHeld, WaitersAccounted, Holds, Queued
<1> QED
  BY <1>1, <1>2, <1>3, <1>4, <1>5, <1>6, <1>7, <1>8, <1>9 DEF Next, Unlock

\* MutexInv holds in every reachable state of the mutex.
THEOREM MutexInvariant == Spec => []MutexInv
BY InitEstablishes, StepPreserves, PTL DEF Spec

\* Two coroutines are never both between the return of lock() or try_lock()
\* and their unlock(), however hand-overs and abandoned waits interleave.
THEOREM MutexExcludes == Spec => []MutualExclusion
<1>1. MutexInv => MutualExclusion
  BY DEF MutexInv, SingleHolder, MutualExclusion, Holds, Owns
<1> QED
  BY <1>1, MutexInvariant, PTL

\* _locked is true exactly while a coroutine holds the mutex or unlock() is
\* handing it over: the lock cannot leak.
THEOREM LockNeverLeaks == Spec => []LockedIffHeld
<1>1. MutexInv => LockedIffHeld
  BY DEF MutexInv
<1> QED
  BY <1>1, MutexInvariant, PTL

\* A coroutine suspended in lock() is in the queue once, or is the one an
\* unlock() is about to resume.
THEOREM NoWaiterLost == Spec => []WaitersAccounted
<1>1. MutexInv => WaitersAccounted
  BY DEF MutexInv
<1> QED
  BY <1>1, MutexInvariant, PTL

\* Who owns the abstract lock, in the terms of the mutex.
OwnerMatches ==
  /\ \A c \in Coros : Owns(c) => AbstractOwner = c
  /\ \A c \in Coros : pc[c] = "unlocking" => AbstractOwner = handoff[c]
  /\ ~locked => AbstractOwner = None

LEMMA OwnerOf == MutexInv => OwnerMatches
<1> SUFFICES ASSUME MutexInv PROVE OwnerMatches
  OBVIOUS
<1>1. ASSUME NEW c \in Coros, Owns(c) PROVE AbstractOwner = c
  BY <1>1 DEF MutexInv, SingleHolder, Holds, Owns, AbstractOwner
<1>2. ASSUME NEW c \in Coros, pc[c] = "unlocking" PROVE AbstractOwner = handoff[c]
  <2>1. \A d \in Coros : Holds(d) => d = c
    BY <1>2 DEF MutexInv, SingleHolder, Holds
  <2>2. ~ \E d \in Coros : Owns(d)
    BY <1>2, <2>1 DEF Holds, Owns
  <2>3. (CHOOSE d \in Coros : pc[d] = "unlocking") = c
    BY <1>2, <2>1 DEF Holds
  <2> QED
    BY <1>2, <2>2, <2>3 DEF AbstractOwner
<1>3. ASSUME ~locked PROVE AbstractOwner = None
  BY <1>3 DEF MutexInv, LockedIffHeld, Holds, Owns, AbstractOwner
<1> QED
  BY <1>1, <1>2, <1>3 DEF OwnerMatches

\* A step of the mutex is a step of the first-come first-served lock or
\* leaves its owner and its queue as they are.
LEMMA StepRefines ==
  MutexInv /\ MutexInv' /\ [Next]_mutexVars => [Lock!Next]_(Lock!lockVars)
<1> SUFFICES ASSUME MutexInv, MutexInv', [Next]_mutexVars
             PROVE  [Lock!Next]_(Lock!lockVars)
  OBVIOUS
<1>0. OwnerMatches /\ OwnerMatches'
  BY OwnerOf, PTL
<1> USE NoneAssumption DEF MutexInv, OwnerMatches, TypeOK, Owns
<1>1. ASSUME NEW c \in Coros, LockFree(c) PROVE Lock!Acquire(c)
  <2>1. AbstractOwner = None /\ AbstractOwner' = c
    BY <1>0, <1>1 DEF LockFree
  <2>2. waiters = <<>> /\ waiters' = waiters
    BY <1>1 DEF LockFree, WaitersAccounted
  <2> QED
    BY <2>1, <2>2 DEF Lock!Acquire
<1>2. ASSUME NEW c \in Coros, LockBusy(c) PROVE Lock!Enqueue(c)
  <2>1. PICK d \in Coros : Holds(d)
    BY <1>2 DEF LockBusy, LockedIffHeld
  <2>2. ~Contains(waiters, c) /\ \A e \in Coros : handoff[e] # c
    BY <1>2 DEF LockBusy, WaitersAccounted, Queued
  <2>3. AbstractOwner # None /\ AbstractOwner # c /\ AbstractOwner' = AbstractOwner
    BY <1>0, <1>2, <2>1, <2>2 DEF LockBusy, Holds, WaitersAccounted
  <2> QED
    BY <1>2, <2>2, <2>3 DEF LockBusy, Lock!Enqueue, Contains, Lock!Contains
<1>3. ASSUME NEW c \in Coros, Enter(c) PROVE UNCHANGED Lock!lockVars
  <2>1. waiters' = waiters
    BY <1>3 DEF Enter, RemoveFirst, Contains, WaitersAccounted, Queued
  <2>2. AbstractOwner' = AbstractOwner
    BY <1>0, <1>3 DEF Enter
  <2> QED
    BY <2>1, <2>2 DEF Lock!lockVars
<1>4. ASSUME NEW c \in Coros, TryLock(c) PROVE Lock!Acquire(c)
  <2>1. AbstractOwner = None /\ AbstractOwner' = c
    BY <1>0, <1>4 DEF TryLock
  <2>2. waiters = <<>> /\ waiters' = waiters
    BY <1>4 DEF TryLock, WaitersAccounted
  <2> QED
    BY <2>1, <2>2 DEF Lock!Acquire
<1>5. ASSUME NEW c \in Coros, UnlockFree(c) PROVE Lock!Release(c)
  <2>1. AbstractOwner = c /\ AbstractOwner' = None
    BY <1>0, <1>5 DEF UnlockFree
  <2> QED
    BY <1>5, <2>1 DEF UnlockFree, Lock!Release
<1>6. ASSUME NEW c \in Coros, UnlockPop(c) PROVE Lock!Release(c)
  <2>1. AbstractOwner = c /\ AbstractOwner' = Head(waiters)
    BY <1>0, <1>6 DEF UnlockPop, PC
  <2> QED
    BY <1>6, <2>1 DEF UnlockPop, Lock!Release
<1>7. ASSUME NEW c \in Coros, UnlockResume(c) PROVE UNCHANGED Lock!lockVars
  <2>1. handoff[c] \in Coros /\ pc[handoff[c]] = "waiting"
    BY <1>7 DEF UnlockResume, WaitersAccounted
  <2>2. AbstractOwner = handoff[c] /\ AbstractOwner' = handoff[c]
    BY <1>0, <1>7, <2>1 DEF UnlockResume, PC
  <2> QED
    BY <1>7, <2>2 DEF UnlockResume, Lock!lockVars
<1>8. ASSUME NEW c \in Coros, Abandon(c) PROVE Lock!Withdraw(c)
  <2>1. waiters # <<>>
    BY <1>8, EmptySeq DEF Abandon, Contains
  <2>2. PICK d \in Coros : Holds(d)
    BY <2>1 DEF LockedIffHeld, WaitersAccounted
  <2>3. pc[c] = "waiting" /\ \A e \in Coros : handoff[e] # c
    BY <1>8 DEF Abandon, WaitersAccounted, Queued
  <2>4. AbstractOwner' = AbstractOwner
    BY <1>0, <1>8, <2>2, <2>3 DEF Abandon, Holds
  <2>5. Lock!RemoveFirst(waiters, c) = RemoveFirst(waiters, c)
    BY DEF RemoveFirst, Lock!RemoveFirst, RemoveAt, Lock!RemoveAt,
           SelectInSeq, Lock!SelectInSeq, Min, Lock!Min
  <2> QED
    BY <1>8, <2>4, <2>5 DEF Abandon, Lock!Withdraw, Contains, Lock!Contains
<1>9. CASE UNCHANGED mutexVars
  <2>1. AbstractOwner' = AbstractOwner /\ waiters' = waiters
    BY <1>9 DEF mutexVars, AbstractOwner
  <2> QED
    BY <2>1 DEF Lock!lockVars
<1> QED
  BY <1>1, <1>2, <1>3, <1>4, <1>5, <1>6, <1>7, <1>8, <1>9
     DEF Next, Unlock, Lock!Next

\* AsyncMutex implements the first-come first-served lock: unlock() makes the
\* oldest waiter the owner, and neither lock() nor try_lock() can get in
\* between the moment it is taken off the queue and the moment it is resumed.
THEOREM MutexRefinesFifoLock == Spec => ImplementsFifoLock
<1>1. Init => Lock!Init
  <2> SUFFICES ASSUME Init PROVE Lock!Init
    OBVIOUS
  <2>1. AbstractOwner = None
    BY DEF Init, AbstractOwner, Owns
  <2> QED
    BY <2>1 DEF Init, Lock!Init
<1> QED
  BY <1>1, MutexInvariant, StepRefines, PTL DEF Spec, ImplementsFifoLock, Lock!Spec

-----------------------------------------------------------------------------
(***************************************************************************)
(* AsyncMutex under an AsyncConditionVariable.  Notifications may make two *)
(* coroutines believe that they own the mutex, so MutexInv does not hold;  *)
(* what its lists say of who waits does.                                   *)
(***************************************************************************)

\* No coroutine is handed the mutex by two unlock() calls.
HandoffUnique ==
  \A c, d \in Coros : handoff[c] = handoff[d] /\ handoff[c] # None => c = d

\* Who waits for the mutex, in which list.
MutexLists == TypeOK /\ WaitersAccounted /\ HandoffUnique

\* A notification has claimed the mutex for a waiter that it still has to
\* resume; and whoever is suspended in wait() has let go of the mutex.
NotifierHasWaiter == \A c \in Coros : claimed[c] => toWake[c] # <<>>
SleepersRun == \A c \in Coros : step[c] = "waiting" => pc[c] = "run"

\* The inductive invariant of the condition variable with its mutex.
CvIInv == CvInv /\ NeverWedged /\ MutexLists /\ NotifierHasWaiter /\ SleepersRun

LEMMA CvInitEstablishes == CvInit => CvIInv
<1> SUFFICES ASSUME CvInit PROVE CvIInv
  OBVIOUS
<1>1. TypeOK
  BY EmptySeq DEF CvInit, Init, TypeOK, PC
<1>2. WaitersAccounted /\ HandoffUnique
  BY NoneAssumption DEF CvInit, Init, WaitersAccounted, HandoffUnique, Queued, Contains, IsInjective
<1>3. CvTypeOK
  BY <1>1, EmptySeq DEF CvInit, CvTypeOK
<1>4. CvWaitersAccounted
  BY DEF CvInit, CvWaitersAccounted, BeingWoken, Contains, IsInjective
<1>5. NeverWedged /\ NotifierHasWaiter /\ SleepersRun
  BY DEF CvInit, Init, NeverWedged, NotifierHasWaiter, SleepersRun
<1> QED
  BY <1>1, <1>2, <1>3, <1>4, <1>5 DEF CvIInv, CvInv, MutexLists

\* The lists of the mutex stay in order in each of its calls.
LEMMA MutexListsPreserved ==
  ASSUME MutexLists, NEW c \in Coros,
         \/ LockFree(c) \/ LockBusy(c) \/ TryLock(c) \/ Unlock(c)
         \/ Enter(c) \/ UnlockResume(c) \/ Abandon(c)
  PROVE  MutexLists'
<1> USE NoneAssumption DEF MutexLists
<1>1. CASE LockFree(c) \/ TryLock(c)
  <2>1. TypeOK' /\ HandoffUnique'
    BY <1>1 DEF LockFree, TryLock, TypeOK, PC, HandoffUnique
  <2>2. WaitersAccounted'
    BY <1>1 DEF LockFree, TryLock, TypeOK, WaitersAccounted, Queued
  <2> QED
    BY <2>1, <2>2
<1>2. CASE LockBusy(c)
  <2>0. /\ waiters \in Seq(Coros) /\ IsInjective(waiters) /\ ~Contains(waiters, c)
        /\ \A d \in Coros : handoff[d] # c
    BY <1>2 DEF LockBusy, TypeOK, WaitersAccounted, Queued
  <2>1. /\ waiters' \in Seq(Coros) /\ IsInjective(waiters')
        /\ \A x : Contains(waiters', x) <=> Contains(waiters, x) \/ x = c
    BY <1>2, <2>0, AppendFresh DEF LockBusy
  <2> QED
    BY <1>2, <2>0, <2>1 DEF LockBusy, TypeOK, PC, WaitersAccounted, HandoffUnique, Queued
<1>3. CASE UnlockFree(c)
  BY <1>3 DEF UnlockFree, TypeOK, PC, WaitersAccounted, HandoffUnique, Queued
<1>4. CASE UnlockPop(c)
  <2>0. waiters \in Seq(Coros) /\ IsInjective(waiters) /\ waiters # <<>>
    BY <1>4 DEF UnlockPop, TypeOK, WaitersAccounted
  <2>1. /\ Head(waiters) \in Coros /\ Contains(waiters, Head(waiters))
        /\ waiters' \in Seq(Coros) /\ IsInjective(waiters')
        /\ \A x : Contains(waiters', x) <=> Contains(waiters, x) /\ x # Head(waiters)
    BY <1>4, <2>0, TailProperties DEF UnlockPop
  <2>2. handoff[c] = None /\ \A d \in Coros : handoff[d] # Head(waiters)
    BY <1>4, <2>1 DEF UnlockPop, TypeOK, WaitersAccounted, Queued
  <2>3. TypeOK'
    BY <1>4, <2>1 DEF UnlockPop, TypeOK, PC
  <2>4. HandoffUnique'
    BY <1>4, <2>1, <2>2 DEF UnlockPop, TypeOK, HandoffUnique
  <2>5. WaitersAccounted'
    BY <1>4, <2>0, <2>1, <2>2 DEF UnlockPop, TypeOK, WaitersAccounted, Queued
  <2> QED
    BY <2>3, <2>4, <2>5
<1>5. CASE Enter(c)
  <2>1. waiters' = waiters
    BY <1>5 DEF Enter, RemoveFirst, Contains, WaitersAccounted, Queued
  <2> QED
    BY <1>5, <2>1 DEF Enter, TypeOK, PC, WaitersAccounted, HandoffUnique, Queued
<1>6. CASE UnlockResume(c)
  <2>0. /\ handoff[c] \in Coros /\ pc[handoff[c]] = "waiting" /\ handoff[c] # c
        /\ ~Contains(waiters, handoff[c])
        /\ \A d \in Coros \ {c} : handoff[d] # handoff[c]
    BY <1>6 DEF UnlockResume, TypeOK, WaitersAccounted, HandoffUnique, Queued
  <2>1. TypeOK' /\ HandoffUnique'
    BY <1>6, <2>0 DEF UnlockResume, TypeOK, PC, HandoffUnique
  <2>2. WaitersAccounted'
    BY <1>6, <2>0 DEF UnlockResume, TypeOK, WaitersAccounted, Queued
  <2> QED
    BY <2>1, <2>2
<1>7. CASE Abandon(c)
  <2>0. /\ waiters \in Seq(Coros) /\ IsInjective(waiters) /\ pc[c] = "waiting"
        /\ waiters # <<>> /\ \A d \in Coros : handoff[d] # c
    BY <1>7, EmptySeq DEF Abandon, TypeOK, WaitersAccounted, Queued, Contains
  <2>1. /\ waiters' \in Seq(Coros) /\ IsInjective(waiters')
        /\ \A x : Contains(waiters', x) <=> Contains(waiters, x) /\ x # c
    BY <1>7, <2>0, RemoveFirstProperties DEF Abandon
  <2> QED
    BY <1>7, <2>0, <2>1 DEF Abandon, TypeOK, PC, WaitersAccounted, HandoffUnique, Queued
<1> QED
  BY <1>1, <1>2, <1>3, <1>4, <1>5, <1>6, <1>7 DEF Unlock

\* A call of the mutex leaves somebody to unlock it, as long as it is locked.
LEMMA MutexStepNeverWedges ==
  ASSUME MutexLists, NeverWedged, NEW c \in Coros, claimed' = claimed,
         \/ LockFree(c) \/ LockBusy(c) \/ TryLock(c) \/ Unlock(c)
         \/ Enter(c) \/ UnlockResume(c) \/ Abandon(c)
  PROVE  NeverWedged'
<1> USE NoneAssumption DEF MutexLists, NeverWedged, Holds
<1>1. (waiters # <<>> => locked)'
  <2>1. MutexLists'
    BY MutexListsPreserved
  <2> QED
    BY <2>1 DEF WaitersAccounted
<1>2. (locked => \E d \in Coros : Holds(d) \/ claimed[d])'
  <2>1. CASE LockFree(c) \/ LockBusy(c) \/ TryLock(c) \/ Enter(c)
    BY <2>1 DEF LockFree, LockBusy, TryLock, Enter, TypeOK
  <2>2. CASE Unlock(c)
    BY <2>2 DEF Unlock, UnlockFree, UnlockPop, TypeOK
  <2>3. CASE UnlockResume(c)
    <3>1. handoff[c] \in Coros /\ handoff[c] # c
      BY <2>3 DEF UnlockResume, TypeOK, WaitersAccounted, Queued
    <3>2. pc'[handoff[c]] = "ready"
      BY <2>3, <3>1 DEF UnlockResume, TypeOK
    <3> QED
      BY <3>1, <3>2
  <2>4. CASE Abandon(c)
    <3>1. pc[c] = "waiting"
      BY <2>4 DEF Abandon, WaitersAccounted, Queued
    <3> QED
      BY <2>4, <3>1 DEF Abandon, TypeOK
  <2> QED
    BY <2>1, <2>2, <2>3, <2>4
<1> QED
  BY <1>1, <1>2

\* Taking the first waiter off a notification's list leaves the rest of it.
LEMMA WakeResumeList ==
  ASSUME CvIInv, NEW c \in Coros, WakeResume(c)
  PROVE  /\ Head(toWake[c]) \in Coros /\ Contains(toWake[c], Head(toWake[c]))
         /\ toWake'[c] \in Seq(Coros) /\ IsInjective(toWake'[c])
         /\ \A x : Contains(toWake'[c], x) <=> Contains(toWake[c], x) /\ x # Head(toWake[c])
         /\ \A d \in Coros \ {c} : toWake'[d] = toWake[d]
<1>1. toWake[c] \in Seq(Coros) /\ IsInjective(toWake[c]) /\ toWake[c] # <<>>
  BY DEF CvIInv, CvInv, CvTypeOK, CvWaitersAccounted, NotifierHasWaiter, WakeResume
<1>2. toWake'[c] = Tail(toWake[c]) /\ \A d \in Coros \ {c} : toWake'[d] = toWake[d]
  BY DEF WakeResume, CvIInv, CvInv, CvTypeOK
<1> QED
  BY <1>1, <1>2, TailProperties

\* Resuming a waiter of the condition variable preserves CvIInv.
LEMMA WakeResumePreserves ==
  ASSUME CvIInv, NEW c \in Coros, WakeResume(c)
  PROVE  CvIInv'
<1> DEFINE w == Head(toWake[c])
<1>0. /\ w \in Coros /\ Contains(toWake[c], w)
      /\ toWake'[c] \in Seq(Coros) /\ IsInjective(toWake'[c])
      /\ \A x : Contains(toWake'[c], x) <=> Contains(toWake[c], x) /\ x # w
      /\ \A d \in Coros \ {c} : toWake'[d] = toWake[d]
  BY WakeResumeList
<1>1. /\ pc' = [pc EXCEPT ![w] = "ready"]
      /\ step' = [step EXCEPT ![w] = "none"]
      /\ claimed' = [claimed EXCEPT ![c] = FALSE]
      /\ UNCHANGED <<locked, waiters, handoff, cvWaiters>>
  BY DEF WakeResume
<1>2. toWake' = [toWake EXCEPT ![c] = Tail(@)]
  BY DEF WakeResume
<1> HIDE DEF w
<1>3. step[w] = "waiting" /\ pc[w] = "run"
  BY <1>0 DEF CvIInv, CvInv, CvWaitersAccounted, BeingWoken, SleepersRun
<1> USE DEF CvIInv, CvInv, CvTypeOK, MutexLists
<1>4. MutexLists'
  <2>1. TypeOK' /\ HandoffUnique'
    BY <1>0, <1>1 DEF TypeOK, PC, HandoffUnique
  <2>2. WaitersAccounted'
    BY <1>0, <1>1, <1>3 DEF TypeOK, WaitersAccounted, Queued
  <2> QED
    BY <2>1, <2>2
<1>5. CvTypeOK'
  <2>1. toWake' \in [Coros -> Seq(Coros)]
    BY <1>0, <1>2
  <2> QED
    BY <1>0, <1>1, <1>4, <2>1
<1>6. CvWaitersAccounted'
  <2>1. \A d \in Coros : IsInjective(toWake'[d])
    BY <1>0 DEF CvWaitersAccounted
  <2>2. \A d, e \in Coros : \A x \in Coros :
          Contains(toWake'[d], x) /\ Contains(toWake'[e], x) => d = e
    BY <1>0 DEF CvWaitersAccounted
  <2>3. \A x \in Coros : BeingWoken(x)' <=> BeingWoken(x) /\ x # w
    <3>1. \A d \in Coros \ {c} : ~Contains(toWake[d], w)
      BY <1>0 DEF CvWaitersAccounted
    <3>2. \A d \in Coros : \A x : Contains(toWake'[d], x) <=> Contains(toWake[d], x) /\ x # w
      BY <1>0, <3>1
    <3> QED
      BY <3>2 DEF BeingWoken
  <2>4. ~Contains(cvWaiters, w)
    BY <1>0 DEF BeingWoken, CvWaitersAccounted
  <2>5. \A x \in Coros : step'[x] = "waiting" <=> Contains(cvWaiters', x) \/ BeingWoken(x)'
    BY <1>0, <1>1, <2>3, <2>4 DEF CvWaitersAccounted
  <2> QED
    BY <1>1, <2>1, <2>2, <2>3, <2>5 DEF CvWaitersAccounted
<1>7. NeverWedged'
  BY <1>0, <1>1 DEF NeverWedged, Holds, TypeOK
<1>8. NotifierHasWaiter'
  BY <1>0, <1>1 DEF NotifierHasWaiter
<1>9. SleepersRun'
  BY <1>0, <1>1 DEF SleepersRun, TypeOK
<1> QED
  BY <1>4, <1>5, <1>6, <1>7, <1>8, <1>9

\* Every step of a condition variable and its mutex preserves CvIInv.
LEMMA CvStepPreserves == CvIInv /\ [CvNext]_vars => CvIInv'
<1> SUFFICES ASSUME CvIInv, [CvNext]_vars PROVE CvIInv'
  OBVIOUS
<1> USE DEF CvIInv, CvInv
<1>1. ASSUME NEW c \in Coros, MutexStep(c) PROVE CvIInv'
  <2>1. UNCHANGED cvVars
    BY <1>1 DEF MutexStep
  <2>2. \/ LockFree(c) \/ LockBusy(c) \/ TryLock(c) \/ Unlock(c)
        \/ Enter(c) \/ UnlockResume(c) \/ Abandon(c)
    BY <1>1 DEF MutexStep
  <2>3. MutexLists'
    BY <2>2, MutexListsPreserved
  <2>4. NeverWedged'
    BY <2>1, <2>2, MutexStepNeverWedges DEF cvVars
  <2>5. CvTypeOK' /\ CvWaitersAccounted' /\ NotifierHasWaiter'
    BY <2>1, <2>3 DEF cvVars, CvTypeOK, MutexLists, CvWaitersAccounted, BeingWoken,
       NotifierHasWaiter
  <2>6. SleepersRun'
    <3> SUFFICES ASSUME NEW d \in Coros, step'[d] = "waiting" PROVE pc'[d] = "run"
      BY DEF SleepersRun
    <3>1. step[d] = "waiting" /\ pc[d] = "run"
      BY <2>1 DEF cvVars, SleepersRun
    <3>2. ~Contains(waiters, d) /\ \A e \in Coros : handoff[e] # d
      BY <3>1 DEF MutexLists, WaitersAccounted, Queued
    <3>3. CASE Idle(c) /\ (LockFree(c) \/ LockBusy(c) \/ TryLock(c) \/ Unlock(c))
      BY <3>1, <3>3 DEF Idle, LockFree, LockBusy, TryLock, Unlock, UnlockFree, UnlockPop,
         MutexLists, TypeOK
    <3>4. CASE Enter(c) \/ UnlockResume(c) \/ Abandon(c)
      BY <3>1, <3>2, <3>4 DEF Enter, UnlockResume, Abandon, MutexLists, TypeOK
    <3> QED
      BY <1>1, <3>3, <3>4 DEF MutexStep
  <2> QED
    BY <2>3, <2>4, <2>5, <2>6
<1>2. ASSUME NEW c \in Coros, WaitUnlock(c) PROVE CvIInv'
  <2>1. MutexLists'
    BY <1>2, MutexListsPreserved DEF WaitUnlock
  <2>2. NeverWedged'
    BY <1>2, MutexStepNeverWedges DEF WaitUnlock
  <2>3. CvTypeOK' /\ CvWaitersAccounted' /\ NotifierHasWaiter'
    BY <1>2, <2>1 DEF WaitUnlock, Idle, CvTypeOK, MutexLists, CvWaitersAccounted,
       BeingWoken, NotifierHasWaiter
  <2>4. SleepersRun'
    BY <1>2 DEF WaitUnlock, Idle, Unlock, UnlockFree, UnlockPop, SleepersRun, MutexLists,
       TypeOK, CvTypeOK
  <2> QED
    BY <2>1, <2>2, <2>3, <2>4
<1>3. ASSUME NEW c \in Coros, WaitEnqueue(c) PROVE CvIInv'
  <2>0. /\ cvWaiters \in Seq(Coros) /\ IsInjective(cvWaiters)
        /\ ~Contains(cvWaiters, c) /\ ~BeingWoken(c)
    BY <1>3 DEF WaitEnqueue, CvTypeOK, CvWaitersAccounted
  <2>1. /\ cvWaiters' \in Seq(Coros) /\ IsInjective(cvWaiters')
        /\ \A x : Contains(cvWaiters', x) <=> Contains(cvWaiters, x) \/ x = c
    BY <1>3, <2>0, AppendFresh DEF WaitEnqueue
  <2>2. MutexLists' /\ NeverWedged' /\ NotifierHasWaiter' /\ SleepersRun'
    BY <1>3 DEF WaitEnqueue, mutexVars, MutexLists, TypeOK, WaitersAccounted, HandoffUnique,
       Queued, NeverWedged, Holds, NotifierHasWaiter, SleepersRun, CvTypeOK
  <2>3. CvTypeOK'
    BY <1>3, <2>1, <2>2 DEF WaitEnqueue, CvTypeOK, MutexLists
  <2>4. CvWaitersAccounted'
    BY <1>3, <2>0, <2>1 DEF WaitEnqueue, CvTypeOK, CvWaitersAccounted, BeingWoken
  <2> QED
    BY <2>2, <2>3, <2>4
<1>4. ASSUME NEW c \in Coros, NotifyOne(c) PROVE CvIInv'
  <2>0. /\ cvWaiters \in Seq(Coros) /\ IsInjective(cvWaiters) /\ cvWaiters # <<>>
        /\ toWake[c] = <<>>
    BY <1>4 DEF NotifyOne, MayNotify, Idle, CvTypeOK, CvWaitersAccounted
  <2>1. /\ Head(cvWaiters) \in Coros /\ Contains(cvWaiters, Head(cvWaiters))
        /\ cvWaiters' \in Seq(Coros) /\ IsInjective(cvWaiters')
        /\ \A x : Contains(cvWaiters', x) <=> Contains(cvWaiters, x) /\ x # Head(cvWaiters)
    BY <1>4, <2>0, TailProperties DEF NotifyOne
  <2>2. /\ toWake'[c] = <<Head(cvWaiters)>>
        /\ \A d \in Coros \ {c} : toWake'[d] = toWake[d]
        /\ toWake' \in [Coros -> Seq(Coros)]
    BY <1>4, <2>1 DEF NotifyOne, CvTypeOK
  <2>3. /\ \A x : Contains(toWake'[c], x) <=> x = Head(cvWaiters)
        /\ IsInjective(toWake'[c])
        /\ \A x : ~Contains(toWake[c], x)
    BY <2>0, <2>2 DEF Contains, IsInjective
  <2>4. MutexLists' /\ NeverWedged' /\ SleepersRun'
    BY <1>4 DEF NotifyOne, mutexVars, MutexLists, TypeOK, WaitersAccounted, HandoffUnique,
       Queued, NeverWedged, Holds, SleepersRun
  <2>5. CvTypeOK' /\ NotifierHasWaiter'
    BY <1>4, <2>1, <2>2, <2>4 DEF NotifyOne, CvTypeOK, MutexLists, NotifierHasWaiter
  <2>6. CvWaitersAccounted'
    <3>1. \A x \in Coros : BeingWoken(x)' <=> BeingWoken(x) \/ x = Head(cvWaiters)
      BY <2>1, <2>2, <2>3 DEF BeingWoken
    <3>2. ~BeingWoken(Head(cvWaiters))
      BY <2>1 DEF CvWaitersAccounted
    <3>3. \A d, e \in Coros : \A x \in Coros :
            Contains(toWake'[d], x) /\ Contains(toWake'[e], x) => d = e
      <4>1. \A d \in Coros \ {c} : ~Contains(toWake'[d], Head(cvWaiters))
        BY <2>2, <3>2 DEF BeingWoken
      <4>2. \A x : Contains(toWake'[c], x) => x = Head(cvWaiters)
        BY <2>3
      <4>3. \A d, e \in Coros \ {c} : \A x \in Coros :
              Contains(toWake'[d], x) /\ Contains(toWake'[e], x) => d = e
        BY <2>2 DEF CvWaitersAccounted
      <4> QED
        BY <4>1, <4>2, <4>3
    <3>4. \A d \in Coros : IsInjective(toWake'[d])
      BY <2>2, <2>3 DEF CvWaitersAccounted
    <3>5. \A x \in Coros : step'[x] = "waiting" <=> Contains(cvWaiters', x) \/ BeingWoken(x)'
      BY <1>4, <2>1, <3>1 DEF NotifyOne, CvWaitersAccounted
    <3>6. \A x \in Coros : BeingWoken(x)' => ~Contains(cvWaiters', x)
      BY <2>1, <3>1 DEF CvWaitersAccounted
    <3> QED
      BY <2>1, <3>3, <3>4, <3>5, <3>6 DEF CvWaitersAccounted
  <2> QED
    BY <2>4, <2>5, <2>6
<1>5. ASSUME NEW c \in Coros, NotifyAll(c) PROVE CvIInv'
  <2>0. /\ cvWaiters \in Seq(Coros) /\ IsInjective(cvWaiters) /\ cvWaiters # <<>>
        /\ toWake[c] = <<>>
    BY <1>5 DEF NotifyAll, MayNotify, Idle, CvTypeOK, CvWaitersAccounted
  <2>1. /\ toWake'[c] = cvWaiters /\ cvWaiters' = <<>>
        /\ \A d \in Coros \ {c} : toWake'[d] = toWake[d]
        /\ toWake' \in [Coros -> Seq(Coros)]
    BY <1>5, <2>0 DEF NotifyAll, CvTypeOK
  <2>2. /\ \A x : ~Contains(toWake[c], x) /\ ~Contains(cvWaiters', x)
        /\ IsInjective(cvWaiters') /\ cvWaiters' \in Seq(Coros)
    BY <2>0, <2>1, EmptySeq DEF Contains, IsInjective
  <2>3. MutexLists' /\ NeverWedged' /\ SleepersRun'
    BY <1>5 DEF NotifyAll, mutexVars, MutexLists, TypeOK, WaitersAccounted, HandoffUnique,
       Queued, NeverWedged, Holds, SleepersRun
  <2>4. CvTypeOK' /\ NotifierHasWaiter'
    BY <1>5, <2>0, <2>1, <2>2, <2>3 DEF NotifyAll, CvTypeOK, MutexLists, NotifierHasWaiter
  <2>5. CvWaitersAccounted'
    BY <1>5, <2>0, <2>1, <2>2 DEF NotifyAll, CvWaitersAccounted, BeingWoken
  <2> QED
    BY <2>3, <2>4, <2>5
<1>6. ASSUME NEW c \in Coros, AcquireForNotify(c) PROVE CvIInv'
  <2>1. MutexLists'
    BY <1>6 DEF AcquireForNotify, MutexLists, TypeOK, WaitersAccounted, HandoffUnique, Queued
  <2>2. NeverWedged' /\ NotifierHasWaiter' /\ SleepersRun'
    BY <1>6 DEF AcquireForNotify, NeverWedged, Holds, NotifierHasWaiter, SleepersRun, CvTypeOK
  <2>3. CvTypeOK' /\ CvWaitersAccounted'
    BY <1>6, <2>1 DEF AcquireForNotify, MutexLists, CvTypeOK, CvWaitersAccounted, BeingWoken
  <2> QED
    BY <2>1, <2>2, <2>3
<1>7. ASSUME NEW c \in Coros, WakeResume(c) PROVE CvIInv'
  BY <1>7, WakeResumePreserves
<1>8. ASSUME NEW c \in Coros, AbandonWait(c) PROVE CvIInv'
  <2>0. cvWaiters \in Seq(Coros) /\ IsInjective(cvWaiters) /\ ~BeingWoken(c)
    BY <1>8 DEF AbandonWait, CvTypeOK, CvWaitersAccounted
  <2>1. /\ cvWaiters' \in Seq(Coros) /\ IsInjective(cvWaiters')
        /\ \A x : Contains(cvWaiters', x) <=> Contains(cvWaiters, x) /\ x # c
    BY <1>8, <2>0, RemoveFirstProperties DEF AbandonWait
  <2>2. MutexLists' /\ NeverWedged' /\ NotifierHasWaiter' /\ SleepersRun'
    BY <1>8 DEF AbandonWait, mutexVars, MutexLists, TypeOK, WaitersAccounted, HandoffUnique,
       Queued, NeverWedged, Holds, NotifierHasWaiter, SleepersRun, CvTypeOK
  <2>3. CvTypeOK'
    BY <1>8, <2>1, <2>2 DEF AbandonWait, CvTypeOK, MutexLists
  <2>4. CvWaitersAccounted'
    BY <1>8, <2>0, <2>1 DEF AbandonWait, CvTypeOK, CvWaitersAccounted, BeingWoken
  <2> QED
    BY <2>2, <2>3, <2>4
<1>9. CASE UNCHANGED vars
  BY <1>9 DEF vars, mutexVars, cvVars, MutexLists, TypeOK, WaitersAccounted, HandoffUnique,
     Queued, NeverWedged, Holds, NotifierHasWaiter, SleepersRun, CvTypeOK,
     CvWaitersAccounted, BeingWoken
<1> QED
  BY <1>1, <1>2, <1>3, <1>4, <1>5, <1>6, <1>7, <1>8, <1>9 DEF CvNext

\* CvIInv holds in every reachable state.
LEMMA CvIInvariant == CvSpec => []CvIInv
BY CvInitEstablishes, CvStepPreserves, PTL DEF CvSpec

\* A coroutine suspended in wait() is on one list, once: the condition
\* variable's or that of one notification, which will resume it.
THEOREM CvInvariant == CvSpec => []CvInv
<1>1. CvIInv => CvInv
  BY DEF CvIInv
<1> QED
  BY <1>1, CvIInvariant, PTL

\* _locked is not left set with nobody to clear it, and nobody is queued for a
\* mutex that is free, though a notification takes the mutex from its owner.
THEOREM CvNeverWedged == CvSpec => []NeverWedged
<1>1. CvIInv => NeverWedged
  BY DEF CvIInv
<1> QED
  BY <1>1, CvIInvariant, PTL

-----------------------------------------------------------------------------
(***************************************************************************)
(* The combinators.                                                        *)
(***************************************************************************)
\* What a vector holds after push_back.
LEMMA AppendSet ==
  ASSUME NEW S, NEW s \in Seq(S), NEW e \in S
  PROVE  Append(s, e) \in Seq(S) /\ ToSet(Append(s, e)) = ToSet(s) \cup {e}
<1>1. /\ Append(s, e) \in Seq(S)
      /\ Len(Append(s, e)) = Len(s) + 1
      /\ \A i \in 1 .. Len(s) : Append(s, e)[i] = s[i]
      /\ Append(s, e)[Len(s) + 1] = e
  BY AppendProperties
<1>2. /\ Len(s) \in Nat
      /\ DOMAIN s = 1 .. Len(s)
      /\ DOMAIN Append(s, e) = 1 .. (Len(s) + 1)
  BY <1>1, LenProperties
<1>3. DOMAIN Append(s, e) = DOMAIN s \cup {Len(s) + 1}
  BY <1>2
<1> QED
  BY <1>1, <1>2, <1>3 DEF ToSet

\* The counter is 0 exactly when every wrapper has counted down.
LEMMA CounterAtZero ==
  ASSUME AllTypeOK, CountExact
  PROVE  /\ IsFiniteSet(Tasks \ Counted)
         /\ remaining \in Nat
         /\ remaining = 0 <=> Counted = Tasks
<1>1. IsFiniteSet(Tasks \ Counted)
  BY CombinatorsAssumption, FS_Subset
<1>2. Counted \subseteq Tasks
  BY DEF Counted
<1> QED
  BY <1>1, <1>2, FS_CardinalityType, FS_EmptySet DEF CountExact

\* Nothing has been counted, noted or locked at the start.
LEMMA AllInitEstablishes == AllInit => WhenAllInv
<1> SUFFICES ASSUME AllInit PROVE WhenAllInv
  OBVIOUS
<1>1. Noted = {} /\ Counted = {} /\ exceptions \in Seq(Tasks) /\ ToSet(exceptions) = {}
  BY EmptySeq DEF AllInit, Noted, Counted, ToSet, CombinatorInit
<1>2. Cardinality(Tasks) \in Nat
  BY CombinatorsAssumption, FS_CardinalityType
<1>3. AllTypeOK
  BY <1>1, <1>2 DEF AllInit, AllTypeOK, CombinatorInit
<1>4. CountExact
  BY <1>1 DEF AllInit, CountExact, CombinatorInit
<1>5. OutcomesNoted
  BY <1>1 DEF AllInit, OutcomesNoted, CombinatorInit
<1>6. LastOnly /\ LockExact
  BY <1>1 DEF AllInit, LastOnly, LockExact, CombinatorInit
<1> QED
  BY <1>3, <1>4, <1>5, <1>6 DEF WhenAllInv

\* Every step of a wrapper and of when_all's coroutine preserves WhenAllInv.
LEMMA AllStep == WhenAllInv /\ [AllNext]_allVars => WhenAllInv'
<1> SUFFICES ASSUME WhenAllInv, [AllNext]_allVars PROVE WhenAllInv'
  OBVIOUS
<1>0. AllTypeOK /\ CountExact /\ OutcomesNoted /\ LastOnly /\ LockExact
  BY DEF WhenAllInv
<1> USE DEF config, noted, awaiter
<1>1. ASSUME NEW t \in Tasks, AllStart(t) PROVE WhenAllInv'
  <2>1. Noted' = Noted /\ Counted' = Counted
    BY <1>0, <1>1 DEF AllStart, Goto, AllTypeOK, Noted, Counted, StartWrapper
  <2>2. AllTypeOK'
    BY <1>0, <1>1 DEF AllStart, Goto, AllTypeOK, StartWrapper
  <2>3. CountExact' /\ LastOnly'
    BY <1>0, <1>1, <2>1 DEF AllStart, Goto, AllTypeOK, CountExact, LastOnly, StartWrapper
  <2>4. OutcomesNoted'
    BY <1>0, <1>1, <2>1 DEF AllStart, Goto, AllTypeOK, OutcomesNoted, StartWrapper
  <2>5. LockExact'
    BY <1>0, <1>1, <2>1 DEF AllStart, Goto, AllTypeOK, LockExact, KeepsLock, Noted, StartWrapper
  <2> QED
    BY <2>2, <2>3, <2>4, <2>5 DEF WhenAllInv
<1>2. ASSUME NEW t \in Tasks, AllTaskEnds(t) PROVE WhenAllInv'
  <2>1. Noted' = Noted /\ Counted' = Counted /\ t \notin Noted
    BY <1>0, <1>2 DEF AllTaskEnds, Goto, AllTypeOK, Noted, Counted, EndTask
  <2>2. AllTypeOK'
    BY <1>0, <1>2 DEF AllTaskEnds, Goto, AllTypeOK, EndTask
  <2>3. CountExact' /\ LastOnly'
    BY <1>0, <1>2, <2>1 DEF AllTaskEnds, Goto, AllTypeOK, CountExact, LastOnly, EndTask
  <2>4. OutcomesNoted'
    <3>1. \A u \in Noted : outcome'[u] = outcome[u]
      BY <1>0, <1>2, <2>1 DEF AllTaskEnds, AllTypeOK, Noted, EndTask
    <3>2. \A u \in Tasks : outcome'[u] = "none" <=> wrapper'[u] \in {"created", "awaiting"}
      BY <1>0, <1>2 DEF AllTaskEnds, Goto, AllTypeOK, OutcomesNoted, EndTask
    <3> QED
      BY <1>0, <1>2, <2>1, <3>1, <3>2 DEF AllTaskEnds, OutcomesNoted, EndTask
  <2>5. LockExact'
    BY <1>0, <1>2, <2>1 DEF AllTaskEnds, Goto, AllTypeOK, LockExact, KeepsLock, Noted, EndTask
  <2> QED
    BY <2>2, <2>3, <2>4, <2>5 DEF WhenAllInv
<1>3. ASSUME NEW t \in Tasks, NoteOutcome(t) PROVE WhenAllInv'
  <2>1. Noted' = Noted \cup {t} /\ Counted' = Counted /\ t \notin Noted
    BY <1>0, <1>3 DEF NoteOutcome, Goto, AllTypeOK, Noted, Counted
  <2>2. outcome[t] \in {"value", "exception"}
    BY <1>0, <1>3 DEF NoteOutcome, Goto, AllTypeOK, OutcomesNoted
  <2>3. /\ exceptions' \in Seq(Tasks)
        /\ ToSet(exceptions') = IF outcome[t] = "value" THEN ToSet(exceptions)
                                ELSE ToSet(exceptions) \cup {t}
    <3>1. exceptions \in Seq(Tasks)
      BY <1>0 DEF AllTypeOK
    <3>2. CASE outcome[t] = "value"
      BY <1>3, <3>1, <3>2 DEF NoteOutcome
    <3>3. CASE outcome[t] # "value"
      <4>1. exceptions' = Append(exceptions, t)
        BY <1>3, <3>3 DEF NoteOutcome
      <4> QED
        BY <3>1, <3>3, <4>1, AppendSet
    <3> QED
      BY <3>2, <3>3
  <2>4. AllTypeOK'
    BY <1>0, <1>3, <2>3 DEF NoteOutcome, Goto, AllTypeOK
  <2>5. CountExact' /\ LastOnly'
    BY <1>0, <1>3, <2>1 DEF NoteOutcome, Goto, AllTypeOK, CountExact, LastOnly
  <2>6. OutcomesNoted'
    <3>1. results' = {u \in Noted' : outcome'[u] = "value"}
      BY <1>0, <1>3, <2>1, <2>2 DEF NoteOutcome, OutcomesNoted
    <3>2. ToSet(exceptions)' = {u \in Noted' : outcome'[u] = "exception"}
      BY <1>0, <1>3, <2>1, <2>2, <2>3 DEF NoteOutcome, OutcomesNoted
    <3>3. \A u \in Tasks : outcome'[u] = "none" <=> wrapper'[u] \in {"created", "awaiting"}
      BY <1>0, <1>3 DEF NoteOutcome, Goto, AllTypeOK, OutcomesNoted
    <3> QED
      BY <3>1, <3>2, <3>3 DEF OutcomesNoted
  <2>7. LockExact'
    BY <1>0, <1>3, <2>1 DEF NoteOutcome, Goto, AllTypeOK, LockExact, KeepsLock, Noted
  <2> QED
    BY <2>4, <2>5, <2>6, <2>7 DEF WhenAllInv
<1>4. ASSUME NEW t \in Tasks, CountDown(t) PROVE WhenAllInv'
  <2>1. Noted' = Noted /\ Counted' = Counted \cup {t} /\ t \in Tasks \ Counted
    BY <1>0, <1>4 DEF CountDown, Goto, AllTypeOK, Noted, Counted
  <2>2. IsFiniteSet(Tasks \ Counted) /\ remaining \in Nat /\ remaining # 0
    BY <1>0, <2>1, CounterAtZero
  <2>3. remaining' = remaining - 1
    BY <1>4 DEF CountDown
  <2>4. CountExact'
    <3>1. (Tasks \ Counted)' = (Tasks \ Counted) \ {t}
      BY <2>1
    <3>2. Cardinality((Tasks \ Counted) \ {t}) = Cardinality(Tasks \ Counted) - 1
      BY <2>1, <2>2, FS_RemoveElement
    <3> QED
      BY <1>0, <2>3, <3>1, <3>2 DEF CountExact
  <2>5. AllTypeOK'
    <3>1. Cardinality(Tasks) \in Nat
      BY CombinatorsAssumption, FS_CardinalityType
    <3>2. remaining \in 0 .. Cardinality(Tasks)
      BY <1>0 DEF AllTypeOK
    <3>3. remaining' \in 0 .. Cardinality(Tasks)
      BY <2>2, <2>3, <3>1, <3>2
    <3> QED
      BY <1>0, <1>4, <3>3 DEF CountDown, Goto, AllTypeOK
  <2>6. LastOnly'
    <3>1. (\A u \in Tasks : wrapper[u] # "resuming") /\ ~(queued > 0) /\ ~(resumed > 0)
      BY <1>0, <2>2 DEF LastOnly
    <3>2. \A u \in Tasks : wrapper'[u] = "resuming" => remaining = 1
      BY <1>0, <1>4, <3>1 DEF CountDown, Goto, AllTypeOK
    <3>3. queued' = queued /\ resumed' = resumed
      BY <1>4 DEF CountDown
    <3>4. remaining = 1 => remaining' = 0
      BY <2>3
    <3> QED
      BY <3>1, <3>2, <3>3, <3>4 DEF LastOnly
  <2>7. OutcomesNoted'
    BY <1>0, <1>4, <2>1 DEF CountDown, Goto, AllTypeOK, OutcomesNoted
  <2>8. LockExact'
    BY <1>0, <1>4, <2>1 DEF CountDown, Goto, AllTypeOK, LockExact, KeepsLock, Noted
  <2> QED
    BY <2>4, <2>5, <2>6, <2>7, <2>8 DEF WhenAllInv
<1>5. ASSUME NEW t \in Tasks, ResumeCaller(t) PROVE WhenAllInv'
  <2>1. Noted' = Noted /\ Counted' = Counted
    BY <1>0, <1>5 DEF ResumeCaller, Goto, AllTypeOK, Noted, Counted
  <2>2. AllTypeOK'
    BY <1>0, <1>5 DEF ResumeCaller, Goto, AllTypeOK
  <2>3. CountExact' /\ LastOnly'
    BY <1>0, <1>5, <2>1 DEF ResumeCaller, Goto, AllTypeOK, CountExact, LastOnly
  <2>4. OutcomesNoted'
    BY <1>0, <1>5, <2>1 DEF ResumeCaller, Goto, AllTypeOK, OutcomesNoted
  <2>5. LockExact'
    BY <1>0, <1>5, <2>1 DEF ResumeCaller, Goto, AllTypeOK, LockExact, KeepsLock, Noted
  <2> QED
    BY <2>2, <2>3, <2>4, <2>5 DEF WhenAllInv
<1>6. ASSUME NEW t \in Tasks, Leave(t) PROVE WhenAllInv'
  <2>1. Noted' = Noted /\ Counted' = Counted
    BY <1>0, <1>6 DEF Leave, Goto, AllTypeOK, Noted, Counted
  <2>2. AllTypeOK'
    BY <1>0, <1>6 DEF Leave, Goto, AllTypeOK
  <2>3. CountExact' /\ LastOnly'
    BY <1>0, <1>6, <2>1 DEF Leave, Goto, AllTypeOK, CountExact, LastOnly
  <2>4. OutcomesNoted'
    BY <1>0, <1>6, <2>1 DEF Leave, Goto, AllTypeOK, OutcomesNoted
  <2>5. LockExact'
    BY <1>0, <1>6, <2>1 DEF Leave, Goto, AllTypeOK, LockExact, KeepsLock, Noted
  <2> QED
    BY <2>2, <2>3, <2>4, <2>5 DEF WhenAllInv
<1>7. CASE AllCallerStep \/ AllStoreArrives \/ AllResume
  <2>1. UNCHANGED <<config, wrapper, outcome, noted, holder, remaining>>
    BY <1>7 DEF AllCallerStep, AllAwaitReady, AllSetContinuation, AllCheckCompleted, CallerGoto,
                AllStoreArrives, AllResume, AwaitReady, StoreContinuation, SeeContinuation,
                   CheckAgain, TakeCaller
  <2>2. Noted' = Noted /\ Counted' = Counted
    BY <2>1 DEF Noted, Counted
  <2>3. AllTypeOK'
    BY <1>0, <1>7, <2>1 DEF AllTypeOK, AllCallerStep, AllAwaitReady, AllSetContinuation,
       AllCheckCompleted, CallerGoto, AllStoreArrives, AllResume, AwaitReady,
          StoreContinuation, SeeContinuation, CheckAgain, TakeCaller
  <2>4. LastOnly'
    BY <1>0, <1>7, <2>1 DEF AllTypeOK, LastOnly, AllCallerStep, AllAwaitReady,
       AllSetContinuation,
       AllCheckCompleted, CallerGoto, AllStoreArrives, AllResume, AwaitReady,
          StoreContinuation, SeeContinuation, CheckAgain, TakeCaller
  <2>5. CountExact' /\ OutcomesNoted' /\ LockExact'
    BY <1>0, <2>1, <2>2 DEF CountExact, OutcomesNoted, LockExact, KeepsLock
  <2> QED
    BY <2>3, <2>4, <2>5 DEF WhenAllInv
<1>8. CASE UNCHANGED allVars
  <2>1. UNCHANGED <<form, oneWorker, ordered, wrapper, outcome, results, exceptions,
                    holder, remaining, continuation, caller, queued, resumed>>
    BY <1>8 DEF allVars
  <2> QED
    BY <1>0, <2>1 DEF WhenAllInv, AllTypeOK, CountExact, OutcomesNoted, LastOnly, LockExact,
                      KeepsLock, Noted, Counted
<1> QED
  BY <1>1, <1>2, <1>3, <1>4, <1>5, <1>6, <1>7, <1>8 DEF AllNext, AllWrapperStep

\* WhenAllInv holds in every reachable state of when_all.
THEOREM WhenAllInvariant == AllSpec => []WhenAllInv
BY AllInitEstablishes, AllStep, PTL DEF AllSpec

\* when_all's coroutine is not even scheduled before every task has ended and
\* its result or exception is stored, whoever schedules it and how often.
THEOREM WhenAllWaitsForAll == AllSpec => []ReturnsAfterAll
<1>1. WhenAllInv => ReturnsAfterAll
  <2> SUFFICES ASSUME WhenAllInv, queued > 0 \/ resumed > 0
               PROVE  results \cup ToSet(exceptions) = Tasks
    BY DEF ReturnsAfterAll
  <2>1. Counted = Tasks
    BY CounterAtZero DEF WhenAllInv, LastOnly
  <2>2. Noted = Tasks
    BY <2>1 DEF Noted, Counted
  <2>3. \A t \in Tasks : outcome[t] \in {"value", "exception"}
    BY <2>1 DEF Counted, WhenAllInv, AllTypeOK, OutcomesNoted
  <2> QED
    BY <2>2, <2>3 DEF WhenAllInv, OutcomesNoted
<1> QED
  BY <1>1, WhenAllInvariant, PTL

-----------------------------------------------------------------------------
\* On a single thread at most one wrapper is between two suspensions, none
\* while when_all itself runs, and the coroutine is scheduled by the last.
AllSerial ==
  oneWorker =>
    /\ \A t, u \in InWrapper : t = u
    /\ caller # "suspended" => Counted = {} /\ InWrapper = {}
    /\ (\E t \in Tasks : wrapper[t] = "resuming") \/ remaining # 0
         => queued = 0 /\ resumed = 0
    /\ queued + resumed <= 1
    /\ resumed = 1 => caller = "suspended" /\ \A t \in Tasks : wrapper[t] = "over"

\* Nothing runs before when_all does.
LEMMA AllSerialInit == AllInit => AllSerial
BY DEF AllInit, AllSerial, InWrapper, Counted, CombinatorInit

\* A thread that takes up a wrapper or when_all's coroutine has left every
\* other one; once the counter is 0 only the last wrapper schedules.
LEMMA AllSerialStep == WhenAllInv /\ AllSerial /\ [AllNext]_allVars => AllSerial'
<1> SUFFICES ASSUME WhenAllInv, AllSerial, [AllNext]_allVars, oneWorker'
             PROVE  AllSerial'
  BY DEF AllSerial
<1> USE DEF config, noted, awaiter
<1>0. AllTypeOK /\ CountExact /\ LastOnly
  BY DEF WhenAllInv
<1>1. oneWorker
  BY DEF AllNext, AllWrapperStep, AllCallerStep, AllStart, AllTaskEnds, NoteOutcome,
     CountDown, ResumeCaller,
         Leave, AllAwaitReady, AllSetContinuation, AllCheckCompleted, CallerGoto,
            AllStoreArrives, AllResume, allVars, StartWrapper, EndTask, AwaitReady,
               StoreContinuation, SeeContinuation, CheckAgain, TakeCaller
<1>2. /\ queued \in Nat /\ resumed \in Nat /\ remaining \in Nat
      /\ remaining = 0 <=> Counted = Tasks
  BY <1>0, CounterAtZero DEF AllTypeOK
<1>3. ASSUME NEW t \in Tasks, AllStart(t) PROVE AllSerial'
  <2>1. InWrapper' = InWrapper /\ Counted' = Counted
    BY <1>0, <1>3 DEF AllStart, Goto, AllTypeOK, InWrapper, Counted, StartWrapper
  <2> QED
    BY <1>0, <1>1, <1>3, <2>1 DEF AllSerial, AllStart, Goto, AllTypeOK, StartWrapper
<1>4. ASSUME NEW t \in Tasks, AllTaskEnds(t) PROVE AllSerial'
  <2>1. InWrapper = {} /\ caller = "suspended"
    BY <1>1, <1>4 DEF AllTaskEnds, WorkerFree, EndTask
  <2>2. InWrapper' = {t}
    BY <1>0, <1>4, <2>1 DEF AllTaskEnds, Goto, AllTypeOK, InWrapper, EndTask
  <2>3. resumed # 1
    BY <1>1, <1>4 DEF AllSerial, AllTaskEnds, Goto, EndTask
  <2>4. \A u \in Tasks : wrapper'[u] = "resuming" => wrapper[u] = "resuming"
    BY <1>0, <1>4 DEF AllTaskEnds, Goto, AllTypeOK, EndTask
  <2> QED
    BY <1>1, <1>4, <2>1, <2>2, <2>3, <2>4 DEF AllSerial, AllTaskEnds, EndTask
<1>5. ASSUME NEW t \in Tasks, NoteOutcome(t) PROVE AllSerial'
  <2>1. InWrapper' = InWrapper /\ Counted' = Counted /\ t \in InWrapper
    BY <1>0, <1>5 DEF NoteOutcome, Goto, AllTypeOK, InWrapper, Counted
  <2>2. resumed # 1 /\ \A u \in Tasks : wrapper'[u] = "resuming" => wrapper[u] = "resuming"
    BY <1>0, <1>1, <1>5 DEF AllSerial, NoteOutcome, Goto, AllTypeOK
  <2> QED
    BY <1>1, <1>5, <2>1, <2>2 DEF AllSerial, NoteOutcome
<1>6. ASSUME NEW t \in Tasks, CountDown(t) PROVE AllSerial'
  <2>1. InWrapper' = InWrapper /\ t \in InWrapper /\ t \notin Counted
    BY <1>0, <1>6 DEF CountDown, Goto, AllTypeOK, InWrapper, Counted
  <2>2. remaining # 0
    BY <1>2, <2>1
  <2>3. queued = 0 /\ resumed = 0 /\ caller = "suspended"
    BY <1>1, <2>1, <2>2 DEF AllSerial
  <2> QED
    BY <1>1, <1>6, <2>1, <2>3 DEF AllSerial, CountDown
<1>7. ASSUME NEW t \in Tasks, ResumeCaller(t) PROVE AllSerial'
  <2>1. InWrapper' = InWrapper /\ t \in InWrapper
    BY <1>0, <1>7 DEF ResumeCaller, Goto, AllTypeOK, InWrapper
  <2>2. queued = 0 /\ resumed = 0 /\ remaining = 0 /\ caller = "suspended"
    BY <1>0, <1>1, <1>7, <2>1 DEF AllSerial, ResumeCaller, Goto, LastOnly
  <2>3. /\ queued' \in {0, 1} /\ resumed' = 0 /\ remaining' = 0 /\ caller' = "suspended"
    BY <1>7, <2>2 DEF ResumeCaller
  <2>4. \A u \in Tasks : wrapper'[u] # "resuming"
    <3>1. \A u \in Tasks : wrapper[u] = "resuming" => u = t
      BY <1>1, <2>1 DEF AllSerial, InWrapper
    <3> QED
      BY <1>0, <1>7, <3>1 DEF ResumeCaller, Goto, AllTypeOK
  <2>5. \A a, b \in InWrapper' : a = b
    BY <1>1, <2>1 DEF AllSerial
  <2>6. queued' + resumed' <= 1
    <3>1. \A q \in {0, 1} : \A r \in {0} : q + r <= 1
      OBVIOUS
    <3> QED
      BY <2>3, <3>1, Zenon
  <2>7. ~ \E u \in Tasks : wrapper'[u] = "resuming"
    BY <2>4
  <2> QED
    <3>1. resumed' # 1 /\ remaining' = 0 /\ caller' = "suspended"
      BY <2>3
    <3> QED
      BY <2>5, <2>6, <2>7, <3>1, Zenon DEF AllSerial
<1>8. ASSUME NEW t \in Tasks, Leave(t) PROVE AllSerial'
  <2>1. InWrapper' = InWrapper \ {t} /\ Counted' = Counted /\ t \in InWrapper
    BY <1>0, <1>8 DEF Leave, Goto, AllTypeOK, InWrapper, Counted
  <2>2. resumed # 1 /\ \A u \in Tasks : wrapper'[u] = "resuming" => wrapper[u] = "resuming"
    BY <1>0, <1>1, <1>8 DEF AllSerial, Leave, Goto, AllTypeOK
  <2> QED
    BY <1>1, <1>8, <2>1, <2>2 DEF AllSerial, Leave
<1>9. CASE AllCallerStep
  <2>1. UNCHANGED <<wrapper, remaining>> /\ caller # "suspended"
    BY <1>9 DEF AllCallerStep, AllAwaitReady, AllSetContinuation, AllCheckCompleted,
       CallerGoto, AwaitReady, StoreContinuation, CheckAgain
  <2>2. InWrapper' = InWrapper /\ Counted' = Counted
    BY <2>1 DEF InWrapper, Counted
  <2>3. Counted = {} /\ InWrapper = {} /\ remaining # 0
    BY <1>1, <1>2, <2>1, CombinatorsAssumption DEF AllSerial
  <2>4. queued = 0 /\ resumed = 0
    BY <1>1, <2>3 DEF AllSerial
  <2>5. queued' = 0 /\ resumed' = 0
    BY <1>9, <2>3, <2>4 DEF AllCallerStep, AllAwaitReady, AllSetContinuation,
       AllCheckCompleted, AwaitReady, StoreContinuation, CheckAgain
  <2> QED
    BY <2>2, <2>3, <2>5 DEF AllSerial
<1>10. CASE AllStoreArrives
  <2>1. InWrapper' = InWrapper /\ Counted' = Counted
    BY <1>10 DEF AllStoreArrives, InWrapper, Counted, SeeContinuation
  <2> QED
    BY <1>1, <1>10, <2>1 DEF AllSerial, AllStoreArrives, SeeContinuation
<1>11. CASE AllResume
  <2>1. InWrapper = {} /\ caller = "suspended" /\ queued > 0
    BY <1>1, <1>11 DEF AllResume, WorkerFree, TakeCaller
  <2>2. queued = 1 /\ resumed = 0 /\ remaining = 0 /\ Counted = Tasks
    BY <1>1, <1>2, <2>1 DEF AllSerial
  <2>3. \A t \in Tasks : wrapper[t] = "over"
    BY <1>0, <2>1, <2>2 DEF InWrapper, Counted, AllTypeOK
  <2>4. queued' = 0 /\ resumed' = 1 /\ UNCHANGED <<wrapper, remaining, caller>>
    BY <1>11, <2>2 DEF AllResume, TakeCaller
  <2> QED
    BY <2>1, <2>2, <2>3, <2>4 DEF AllSerial, InWrapper
<1>12. CASE UNCHANGED allVars
  BY <1>1, <1>12 DEF allVars, AllSerial, InWrapper, Counted
<1> QED
  BY <1>3, <1>4, <1>5, <1>6, <1>7, <1>8, <1>9, <1>10, <1>11, <1>12 DEF AllNext, AllWrapperStep

\* On a scheduler with one thread when_all returns at most once, and never
\* while a thread is in await_suspend or in a wrapper that it destroys.
THEOREM WhenAllSerial == AllSpec => []SerialReturnIsClean
<1>1. AllSerial => SerialReturnIsClean
  BY DEF AllSerial, SerialReturnIsClean
<1> QED
  BY <1>1, AllSerialInit, AllSerialStep, WhenAllInvariant, PTL DEF AllSpec

-----------------------------------------------------------------------------
(***************************************************************************)
(* when_any: one winner, one stored outcome, at most two resumptions, and  *)
(* on a single thread one.                                                 *)
(***************************************************************************)
\* The winner and await_suspend schedule the coroutine once each at most.
TwoSchedule ==
  queued <= (IF stored = NoTask THEN 0 ELSE 1) + (IF caller = "suspended" THEN 1 ELSE 0)

\* WhenAnyInv, strengthened to be inductive.
AnyInv ==
  /\ WhenAnyInv
  /\ TwoSchedule
  /\ winner # NoTask => wrapper[winner] \in {"storing", "over"}

\* No wrapper has won, and none was scheduled, at the start.
LEMMA AnyInitEstablishes == AnyInit => AnyInv
<1> SUFFICES ASSUME AnyInit PROVE AnyInv
  OBVIOUS
<1>1. returned \in Seq([what : Outcomes, of : {NoTask, winner}])
  BY EmptySeq DEF AnyInit, CombinatorInit
<1>2. AnyTypeOK
  <2>1. /\ wrapper \in [Tasks -> {"created", "awaiting", "electing", "storing", "over"}]
        /\ outcome \in [Tasks -> {"none", "value", "exception"}]
    BY DEF AnyInit, CombinatorInit
  <2>3. oneWorker \in BOOLEAN /\ ordered \in BOOLEAN /\ completed \in BOOLEAN
    BY Zenon DEF AnyInit, CombinatorInit
  <2>2. /\ form \in {"vector", "void", "pack"}
        /\ winner \in Tasks \cup {NoTask} /\ stored \in {NoTask, winner}
        /\ continuation \in {"null", "buffered", "set"}
        /\ caller \in {"starting", "suspending", "checking", "suspended"} /\ queued \in 0 .. 2
    BY DEF AnyInit, CombinatorInit
  <2> QED
    BY <1>1, <2>1, <2>2, <2>3 DEF AnyTypeOK
<1>3. OneWinner /\ AfterWinnerOnly /\ TwoSchedule
  BY WhenAnyAssumption DEF AnyInit, OneWinner, AfterWinnerOnly, TwoSchedule, CombinatorInit
<1> QED
  BY <1>2, <1>3 DEF AnyInit, AnyInv, WhenAnyInv, CombinatorInit

\* What a sequence holds is still there when it grows.
LEMMA Appended ==
  ASSUME NEW S, NEW s \in Seq(S), NEW e \in S
  PROVE  /\ Append(s, e) \in Seq(S) /\ Append(s, e) # <<>>
         /\ Len(Append(s, e)) = Len(s) + 1
         /\ \A i \in DOMAIN Append(s, e) :
              \/ i \in DOMAIN s /\ Append(s, e)[i] = s[i]
              \/ Append(s, e)[i] = e
<1>1. /\ Append(s, e) \in Seq(S)
      /\ Len(Append(s, e)) = Len(s) + 1
      /\ \A i \in 1 .. Len(s) : Append(s, e)[i] = s[i]
      /\ Append(s, e)[Len(s) + 1] = e
  BY AppendProperties
<1>2. /\ Len(s) \in Nat
      /\ DOMAIN s = 1 .. Len(s)
      /\ DOMAIN Append(s, e) = 1 .. (Len(s) + 1)
  BY <1>1, LenProperties
<1>3. Append(s, e) # <<>>
  BY <1>1, <1>2, EmptySeq
<1> QED
  BY <1>1, <1>2, <1>3

\* What await_resume adds to the history.
LEMMA AwaitResumeAdds ==
  ASSUME AnyTypeOK, AwaitResume
  PROVE  /\ returned' \in Seq([what : Outcomes, of : {NoTask, winner}])
         /\ Len(returned) \in Nat /\ Len(returned') = Len(returned) + 1
         /\ returned' # <<>>
         /\ \A i \in DOMAIN returned' :
              \/ i \in DOMAIN returned /\ returned'[i] = returned[i]
              \/ returned'[i] = [what |-> Outcome, of |-> stored]
<1> DEFINE E == [what : Outcomes, of : {NoTask, winner}]
           e == [what |-> Outcome, of |-> stored]
<1>1. Outcome \in Outcomes
  BY DEF Outcome, Outcomes
<1>2. e \in E /\ returned \in Seq(E)
  BY <1>1 DEF AnyTypeOK
<1>3. returned' = Append(returned, e)
  BY DEF AwaitResume
<1> HIDE DEF E, e
<1>4. Len(returned) \in Nat
  BY <1>2, LenProperties
<1>5. /\ Append(returned, e) \in Seq(E) /\ Append(returned, e) # <<>>
      /\ Len(Append(returned, e)) = Len(returned) + 1
      /\ \A i \in DOMAIN Append(returned, e) :
           \/ i \in DOMAIN returned /\ Append(returned, e)[i] = returned[i]
           \/ Append(returned, e)[i] = e
  BY <1>2, Appended
<1> QED
  BY <1>3, <1>4, <1>5 DEF E, e

\* Every step of a wrapper and of when_any's coroutine preserves the invariant.
LEMMA AnyStep ==
  AnyInv /\ [AnyNext]_anyVars => AnyInv'
<1> SUFFICES ASSUME AnyInv, [AnyNext]_anyVars PROVE AnyInv'
  OBVIOUS
<1>0. AnyTypeOK /\ OneWinner /\ AfterWinnerOnly
  BY DEF AnyInv, WhenAnyInv
<1>01. TwoSchedule /\ (winner # NoTask => wrapper[winner] \in {"storing", "over"})
  BY DEF AnyInv
<1>a. NoTask \notin Tasks
  BY WhenAnyAssumption
<1> USE DEF config, raced, awaiter
<1>1. ASSUME NEW t \in Tasks, AnyStart(t) PROVE AnyInv'
  <2>1. AnyTypeOK'
    BY <1>0, <1>1 DEF AnyStart, Goto, AnyTypeOK, StartWrapper
  <2>2. OneWinner' /\ AfterWinnerOnly'
    BY <1>0, <1>1 DEF AnyStart, Goto, AnyTypeOK, OneWinner, AfterWinnerOnly, StartWrapper
  <2>3. TwoSchedule' /\ (winner # NoTask => wrapper[winner] \in {"storing", "over"})'
    BY <1>0, <1>01, <1>1 DEF AnyStart, Goto, AnyTypeOK, TwoSchedule, StartWrapper
  <2> QED
    BY <2>1, <2>2, <2>3 DEF AnyInv, WhenAnyInv
<1>2. ASSUME NEW t \in Tasks, AnyTaskEnds(t) PROVE AnyInv'
  <2>1. AnyTypeOK'
    BY <1>0, <1>2 DEF AnyTaskEnds, Goto, AnyTypeOK, EndTask
  <2>2. OneWinner' /\ AfterWinnerOnly'
    BY <1>0, <1>2 DEF AnyTaskEnds, Goto, AnyTypeOK, OneWinner,
       AfterWinnerOnly, EndTask
  <2>3. TwoSchedule' /\ (winner # NoTask => wrapper[winner] \in {"storing", "over"})'
    BY <1>0, <1>01, <1>2 DEF AnyTaskEnds, Goto, AnyTypeOK, TwoSchedule, EndTask
  <2> QED
    BY <2>1, <2>2, <2>3 DEF AnyInv, WhenAnyInv
<1>3. ASSUME NEW t \in Tasks, Elect(t) PROVE AnyInv'
  <2>1. /\ winner' \in Tasks
        /\ winner # NoTask => winner' = winner
        /\ winner = NoTask => winner' = t /\ stored = NoTask /\ ~completed
    BY <1>0, <1>3, <1>a DEF Elect, AnyTypeOK, OneWinner
  <2>2. returned \in Seq([what : Outcomes, of : {NoTask, winner'}])
    <3>1. [what : Outcomes, of : {NoTask, winner}] \subseteq [what : Outcomes,
       of : {NoTask, winner'}]
      BY <2>1
    <3>2. returned \in Seq([what : Outcomes, of : {NoTask, winner}])
      BY <1>0 DEF AnyTypeOK
    <3> QED
      BY <3>1, <3>2, SeqMonotonic
  <2>3. AnyTypeOK'
    BY <1>0, <1>3, <2>1, <2>2 DEF Elect, Goto, AnyTypeOK
  <2>4. OneWinner'
    BY <1>0, <1>3, <1>a, <2>1 DEF Elect, Goto, AnyTypeOK, OneWinner
  <2>5. AfterWinnerOnly' /\ TwoSchedule'
    BY <1>0, <1>01, <1>3 DEF Elect, AfterWinnerOnly, TwoSchedule
  <2>6. (winner # NoTask => wrapper[winner] \in {"storing", "over"})'
    BY <1>0, <1>01, <1>3, <2>1 DEF Elect, Goto, AnyTypeOK, OneWinner
  <2> QED
    BY <2>3, <2>4, <2>5, <2>6 DEF AnyInv, WhenAnyInv
<1>4. ASSUME NEW t \in Tasks, Publish(t) PROVE AnyInv'
  <2>1. winner = t /\ stored = NoTask /\ completed
    BY <1>0, <1>4, <1>a DEF Publish, Goto, OneWinner
  <2>2. /\ queued \in 0 .. 2 /\ queued' \in {queued, queued + 1}
        /\ queued <= IF caller = "suspended" THEN 1 ELSE 0
    BY <1>0, <1>01, <1>4, <2>1 DEF Publish, AnyTypeOK, TwoSchedule
  <2>3. AnyTypeOK'
    BY <1>0, <1>4, <2>1, <2>2 DEF Publish, Goto, AnyTypeOK
  <2>4. OneWinner'
    BY <1>0, <1>4, <1>a, <2>1 DEF Publish, Goto, AnyTypeOK, OneWinner
  <2>5. AfterWinnerOnly' /\ TwoSchedule'
    BY <1>4, <1>a, <2>1, <2>2 DEF Publish, AfterWinnerOnly, TwoSchedule
  <2>6. (winner # NoTask => wrapper[winner] \in {"storing", "over"})'
    BY <1>0, <1>4, <2>1 DEF Publish, Goto, AnyTypeOK
  <2> QED
    BY <2>3, <2>4, <2>5, <2>6 DEF AnyInv, WhenAnyInv
<1>5. ASSUME AnyAwaitReady PROVE AnyInv'
  <2>1. /\ caller = "starting" /\ caller' \in {"suspending", "suspended"}
        /\ UNCHANGED <<config, wrapper, outcome, raced, continuation, queued>>
    BY <1>5 DEF AnyAwaitReady, CallerGoto, AwaitReady
  <2>2. /\ returned' \in Seq([what : Outcomes, of : {NoTask, winner}])
        /\ returned' # <<>> => completed
    BY <1>0, <1>5, AwaitResumeAdds DEF AnyAwaitReady, AnyTypeOK, AfterWinnerOnly, AwaitReady
  <2>3. AnyTypeOK'
    BY <1>0, <2>1, <2>2 DEF AnyTypeOK
  <2>4. OneWinner' /\ AfterWinnerOnly'
    BY <1>0, <2>1, <2>2 DEF OneWinner, AfterWinnerOnly
  <2>5. TwoSchedule' /\ (winner # NoTask => wrapper[winner] \in {"storing", "over"})'
    BY <1>0, <1>01, <2>1 DEF TwoSchedule, AnyTypeOK
  <2> QED
    BY <2>3, <2>4, <2>5 DEF AnyInv, WhenAnyInv
<1>6. ASSUME AnySetContinuation PROVE AnyInv'
  <2>1. AnyTypeOK'
    BY <1>0, <1>6 DEF AnySetContinuation, CallerGoto, AnyTypeOK, StoreContinuation
  <2>2. OneWinner' /\ AfterWinnerOnly'
    BY <1>0, <1>6 DEF AnySetContinuation, CallerGoto, OneWinner,
       AfterWinnerOnly, StoreContinuation
  <2>3. TwoSchedule' /\ (winner # NoTask => wrapper[winner] \in {"storing", "over"})'
    BY <1>01, <1>6 DEF AnySetContinuation, CallerGoto, TwoSchedule, StoreContinuation
  <2> QED
    BY <2>1, <2>2, <2>3 DEF AnyInv, WhenAnyInv
<1>7. ASSUME AnyCheckCompleted PROVE AnyInv'
  <2>1. /\ queued \in 0 .. 2 /\ queued' \in {queued, queued + 1}
        /\ queued' # queued => completed
        /\ queued <= IF stored = NoTask THEN 0 ELSE 1
    BY <1>0, <1>01, <1>7 DEF AnyCheckCompleted, CallerGoto, AnyTypeOK, TwoSchedule, CheckAgain
  <2>2. AnyTypeOK'
    BY <1>0, <1>7, <2>1 DEF AnyCheckCompleted, CallerGoto, AnyTypeOK, CheckAgain
  <2>3. OneWinner' /\ AfterWinnerOnly'
    BY <1>0, <1>7, <2>1 DEF AnyCheckCompleted, CallerGoto, OneWinner,
       AfterWinnerOnly, CheckAgain
  <2>4. TwoSchedule' /\ (winner # NoTask => wrapper[winner] \in {"storing", "over"})'
    BY <1>01, <1>7, <2>1 DEF AnyCheckCompleted, CallerGoto, TwoSchedule, CheckAgain
  <2> QED
    BY <2>2, <2>3, <2>4 DEF AnyInv, WhenAnyInv
<1>8. ASSUME AnyStoreArrives PROVE AnyInv'
  <2>1. AnyTypeOK'
    BY <1>0, <1>8 DEF AnyStoreArrives, AnyTypeOK, SeeContinuation
  <2>2. OneWinner' /\ AfterWinnerOnly'
    BY <1>0, <1>8 DEF AnyStoreArrives, OneWinner, AfterWinnerOnly, SeeContinuation
  <2>3. TwoSchedule' /\ (winner # NoTask => wrapper[winner] \in {"storing", "over"})'
    BY <1>01, <1>8 DEF AnyStoreArrives, TwoSchedule, SeeContinuation
  <2> QED
    BY <2>1, <2>2, <2>3 DEF AnyInv, WhenAnyInv
<1>9. ASSUME AnyResume PROVE AnyInv'
  <2>1. /\ queued \in 1 .. 2 /\ queued' = queued - 1
        /\ UNCHANGED <<config, wrapper, outcome, raced, continuation, caller>>
    BY <1>0, <1>9 DEF AnyResume, AnyTypeOK, TakeCaller
  <2>2. returned' \in Seq([what : Outcomes, of : {NoTask, winner}])
    BY <1>0, <1>9, AwaitResumeAdds DEF AnyResume, TakeCaller
  <2>3. AnyTypeOK'
    BY <1>0, <2>1, <2>2 DEF AnyTypeOK
  <2>4. OneWinner' /\ AfterWinnerOnly'
    BY <1>0, <2>1 DEF OneWinner, AfterWinnerOnly
  <2>5. TwoSchedule' /\ (winner # NoTask => wrapper[winner] \in {"storing", "over"})'
    BY <1>01, <2>1 DEF TwoSchedule
  <2> QED
    BY <2>3, <2>4, <2>5 DEF AnyInv, WhenAnyInv
<1>10. CASE UNCHANGED anyVars
  <2>1. AnyTypeOK' /\ OneWinner' /\ AfterWinnerOnly'
    BY <1>0, <1>10 DEF anyVars, AnyTypeOK, OneWinner, AfterWinnerOnly
  <2>2. TwoSchedule' /\ (winner # NoTask => wrapper[winner] \in {"storing", "over"})'
    BY <1>01, <1>10 DEF anyVars, TwoSchedule
  <2> QED
    BY <2>1, <2>2 DEF AnyInv, WhenAnyInv
<1> QED
  BY <1>1, <1>2, <1>3, <1>4, <1>5, <1>6, <1>7, <1>8, <1>9, <1>10 DEF AnyNext,
     AnyWrapperStep, AnyCallerStep

\* On any number of threads when_any has one winner, and nobody schedules its
\* coroutine before there is one (when_any.hpp:65-108).
THEOREM WhenAnyInvariant ==
  AnySpec => []WhenAnyInv
<1>1. AnyInv => WhenAnyInv
  BY DEF AnyInv
<1> QED
  BY <1>1, AnyInitEstablishes, AnyStep, PTL DEF AnySpec

-----------------------------------------------------------------------------
\* On a single thread no wrapper runs before the coroutine is suspended, its
\* continuation is seen by the winner, and the winner alone schedules it, when
\* it has stored its outcome.
AnySerial ==
  oneWorker =>
    /\ ordered
    /\ caller # "suspended" => \A t \in Tasks : wrapper[t] \in {"created", "awaiting"}
    /\ caller \in {"checking", "suspended"} => continuation = "set"
    /\ queued + Len(returned) = IF stored = NoTask THEN 0 ELSE 1
    /\ \A i \in DOMAIN returned : returned[i].of = stored /\ returned[i].what = Outcome

\* There is no winner while when_any itself runs.
LEMMA NoEarlyWinner ==
  ASSUME AnyInv, AnySerial, oneWorker, caller # "suspended"
  PROVE  ~completed /\ stored = NoTask
<1>1. \A t \in Tasks : wrapper[t] \in {"created", "awaiting"}
  BY DEF AnySerial
<1>2. winner = NoTask
  BY <1>1 DEF AnyInv, WhenAnyInv, AnyTypeOK
<1> QED
  BY <1>2 DEF AnyInv, WhenAnyInv, AnyTypeOK, OneWinner

\* Every step preserves AnySerial, given the invariant of any schedule.
LEMMA AnySerialStep ==
  AnyInv /\ AnyInv' /\ AnySerial /\ [AnyNext]_anyVars => AnySerial'
<1> SUFFICES ASSUME AnyInv, AnyInv', AnySerial, [AnyNext]_anyVars,
   oneWorker' PROVE AnySerial'
  BY DEF AnySerial
<1> USE DEF config, raced, awaiter
<1>0. AnyTypeOK /\ OneWinner /\ AfterWinnerOnly /\ AnyTypeOK' /\ OneWinner'
  BY DEF AnyInv, WhenAnyInv
<1>1. oneWorker /\ oneWorker' = oneWorker /\ ordered' = ordered /\ form' = form
  BY DEF AnyNext, anyVars, AnyStart, AnyTaskEnds, AnyWrapperStep, Elect,
     Publish, AnyCallerStep, AnyAwaitReady,
         AnySetContinuation, AnyCheckCompleted, CallerGoto, AnyStoreArrives,
            AnyResume, StartWrapper, EndTask, AwaitReady, StoreContinuation, SeeContinuation,
               CheckAgain, TakeCaller
<1>a. NoTask \notin Tasks
  BY WhenAnyAssumption
<1>b. Len(returned) \in Nat /\ queued \in 0 .. 2
  BY <1>0, LenProperties DEF AnyTypeOK
<1>2. /\ ordered
      /\ caller # "suspended" => \A t \in Tasks : wrapper[t] \in {"created", "awaiting"}
      /\ caller \in {"checking", "suspended"} => continuation = "set"
      /\ queued + Len(returned) = IF stored = NoTask THEN 0 ELSE 1
      /\ \A i \in DOMAIN returned : returned[i].of = stored /\ returned[i].what = Outcome
  BY <1>1 DEF AnySerial
<1>3. ASSUME NEW t \in Tasks, AnyStart(t) PROVE AnySerial'
  <2>1. Outcome' = Outcome
    BY <1>3 DEF AnyStart, Outcome, StartWrapper
  <2> QED
    BY <1>0, <1>1, <1>2, <1>3, <2>1 DEF AnyStart, Goto, AnyTypeOK, AnySerial, StartWrapper
<1>4. ASSUME NEW t \in Tasks, AnyTaskEnds(t) PROVE AnySerial'
  <2>1. caller = "suspended"
    BY <1>1, <1>4 DEF AnyTaskEnds, WorkerFree, EndTask
  <2>2. stored # NoTask => outcome'[stored] = outcome[stored]
    <3>1. stored # NoTask => stored = winner /\ wrapper[stored] \in {"storing", "over"}
      BY <1>0 DEF AnyTypeOK, AnyInv
    <3>2. wrapper[t] = "awaiting"
      BY <1>4 DEF AnyTaskEnds, Goto, EndTask
    <3> QED
      BY <1>0, <1>4, <3>1, <3>2 DEF AnyTaskEnds, AnyTypeOK, EndTask
  <2>3. Outcome' = Outcome
    BY <1>1, <1>4, <2>2 DEF AnyTaskEnds, Outcome, EndTask
  <2> QED
    BY <1>1, <1>2, <1>4, <2>1, <2>3 DEF AnyTaskEnds, AnySerial, EndTask
<1>5. ASSUME NEW t \in Tasks, Elect(t) PROVE AnySerial'
  <2>1. Outcome' = Outcome
    BY <1>5 DEF Elect, Outcome
  <2>2. caller = "suspended"
    BY <1>2, <1>5 DEF Elect, Goto
  <2> QED
    BY <1>1, <1>2, <1>5, <2>1, <2>2 DEF Elect, AnySerial
<1>6. ASSUME NEW t \in Tasks, Publish(t) PROVE AnySerial'
  <2>1. stored = NoTask /\ stored' # NoTask
    BY <1>0, <1>6, <1>a DEF Publish, Goto, OneWinner
  <2>2. caller = "suspended" /\ continuation = "set"
    BY <1>2, <1>6 DEF Publish, Goto
  <2>3. queued = 0 /\ Len(returned) = 0 /\ queued' = 1 /\ returned' = returned
    BY <1>b, <1>2, <1>6, <2>1, <2>2 DEF Publish
  <2>4. DOMAIN returned = {}
    BY <1>0, <2>3, LenProperties DEF AnyTypeOK
  <2> QED
    BY <1>1, <1>2, <1>6, <2>1, <2>2, <2>3, <2>4 DEF Publish, AnySerial
<1>7. ASSUME AnyAwaitReady PROVE AnySerial'
  <2>1. caller = "starting"
    BY <1>7 DEF AnyAwaitReady, CallerGoto, AwaitReady
  <2>2. ~completed /\ stored = NoTask
    BY <1>1, <2>1, NoEarlyWinner
  <2>3. caller' = "suspending" /\ UNCHANGED <<config, wrapper, outcome, raced, continuation,
     queued, returned>>
    BY <1>7, <2>2 DEF AnyAwaitReady, CallerGoto, AwaitReady
  <2>4. Outcome' = Outcome
    BY <2>3 DEF Outcome
  <2> QED
    BY <1>1, <1>2, <2>1, <2>3, <2>4 DEF AnySerial
<1>8. ASSUME AnySetContinuation PROVE AnySerial'
  <2>1. caller = "suspending" /\ caller' = "checking" /\ continuation' = "set"
    BY <1>2, <1>8 DEF AnySetContinuation, CallerGoto, StoreContinuation
  <2>2. UNCHANGED <<config, wrapper, outcome, raced, queued,
     returned>> /\ Outcome' = Outcome
    BY <1>8 DEF AnySetContinuation, CallerGoto, Outcome, StoreContinuation
  <2> QED
    BY <1>1, <1>2, <2>1, <2>2 DEF AnySerial
<1>9. ASSUME AnyCheckCompleted PROVE AnySerial'
  <2>1. caller = "checking" /\ caller' = "suspended"
    BY <1>9 DEF AnyCheckCompleted, CallerGoto, CheckAgain
  <2>2. ~completed /\ stored = NoTask
    BY <1>1, <2>1, NoEarlyWinner
  <2>3. UNCHANGED <<config, wrapper, outcome, raced, continuation, queued,
     returned>> /\ Outcome' = Outcome
    BY <1>9, <2>2 DEF AnyCheckCompleted, CallerGoto, Outcome, CheckAgain
  <2> QED
    BY <1>1, <1>2, <2>1, <2>3 DEF AnySerial
<1>10. ASSUME AnyStoreArrives PROVE AnySerial'
  <2>1. Outcome' = Outcome
    BY <1>10 DEF AnyStoreArrives, Outcome, SeeContinuation
  <2> QED
    BY <1>1, <1>2, <1>10, <2>1 DEF AnyStoreArrives, AnySerial, SeeContinuation
<1>11. ASSUME AnyResume PROVE AnySerial'
  <2>1. queued' = queued - 1 /\ queued > 0 /\ UNCHANGED <<config, wrapper, outcome, raced,
     continuation, caller>>
    BY <1>11 DEF AnyResume, TakeCaller
  <2>2. Outcome' = Outcome
    BY <2>1 DEF Outcome
  <2>3. /\ Len(returned') = Len(returned) + 1
        /\ \A i \in DOMAIN returned' :
             \/ i \in DOMAIN returned /\ returned'[i] = returned[i]
             \/ returned'[i] = [what |-> Outcome, of |-> stored]
    BY <1>0, <1>11, AwaitResumeAdds DEF AnyResume, TakeCaller
  <2>4. \A i \in DOMAIN returned' : returned'[i].of = stored /\ returned'[i].what = Outcome
    BY <1>2, <2>3
  <2>5. queued' + Len(returned') = queued + Len(returned)
    BY <1>b, <2>1, <2>3
  <2> QED
    BY <1>1, <1>2, <2>1, <2>2, <2>4, <2>5 DEF AnySerial
<1>12. CASE UNCHANGED anyVars
  <2>1. Outcome' = Outcome
    BY <1>12 DEF anyVars, Outcome
  <2> QED
    BY <1>1, <1>2, <1>12, <2>1 DEF anyVars, AnySerial
<1> QED
  BY <1>3, <1>4, <1>5, <1>6, <1>7, <1>8, <1>9, <1>10, <1>11, <1>12 DEF AnyNext,
     AnyWrapperStep, AnyCallerStep

\* What AnySerial says of the returns, in terms of the winner.
LEMMA AnySerialImplies == AnyInv /\ AnySerial => SerialReturnsWinner
<1> SUFFICES ASSUME AnyInv, AnySerial, oneWorker
             PROVE  /\ queued + Len(returned) <= 1
                    /\ \A i \in DOMAIN returned :
                         returned[i].of = winner /\ returned[i].what = Outcome
  BY DEF SerialReturnsWinner
<1>1. queued + Len(returned) = IF stored = NoTask THEN 0 ELSE 1
  BY DEF AnySerial
<1>2. returned \in Seq([what : Outcomes, of : {NoTask, winner}]) /\ queued \in 0 .. 2
  BY DEF AnyInv, WhenAnyInv, AnyTypeOK
<1>3. Len(returned) \in Nat /\ DOMAIN returned = 1 .. Len(returned)
  BY <1>2, LenProperties
<1>4. DOMAIN returned # {} => stored # NoTask
  BY <1>1, <1>2, <1>3
<1>5. stored # NoTask => stored = winner
  BY DEF AnyInv, WhenAnyInv, AnyTypeOK
<1> QED
  BY <1>1, <1>4, <1>5 DEF AnySerial

\* when_any.hpp:20: on a single thread when_any returns once, with what its
\* winner stored, for any number of tasks.
THEOREM WhenAnySerial ==
  AnySpec => []SerialReturnsWinner
<1>1. AnyInit => AnySerial
  <2> SUFFICES ASSUME AnyInit, oneWorker PROVE AnySerial
    BY DEF AnySerial
  <2>1. DOMAIN returned = {} /\ Len(returned) = 0
    BY DEF AnyInit, CombinatorInit
  <2> QED
    BY <2>1 DEF AnyInit, AnySerial, CombinatorInit
<1> QED
  BY <1>1, AnyInitEstablishes, AnyStep, AnySerialStep, AnySerialImplies, PTL DEF AnySpec
=============================================================================
