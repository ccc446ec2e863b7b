---------------------- MODULE ThreadPoolExecutor_proofs ----------------------
(***************************************************************************)
(* For any number of threads, callers and tasks: no task is stranded in    *)
(* the pool, none is lost or repeated, no wakeup is lost, and what callers *)
(* see of the pool is a DelayedExecutor.                                   *)
(***************************************************************************)
EXTENDS ThreadPoolExecutor, SequenceLemmas

\* A thread that has found nothing to do keeps the lock until it sleeps, so
\* there is still nothing to do when it does.
CheckedIsEmpty ==
  /\ \A w \in Workers : pc[w] = "checked" => tasks = <<>>
  /\ pc[Timer] = "checked" => delayed = {}

\* The inductive invariant: a task can only be added while nobody is about to
\* go to sleep, and only before the pool stops.
IInv ==
  /\ ThreadsInv
  /\ CheckedIsEmpty
  /\ NothingStranded
  /\ NoLostWakeup
  /\ TimerNeverOversleeps

\* Before the first step nobody waits, holds or has queued anything.
LEMMA InitIInv == Init => IInv
<1> SUFFICES ASSUME Init PROVE IInv
  OBVIOUS
<1>1. TypeOK
  <2>1. tasks \in Seq(Tasks)
    BY EmptySeq DEF Init
  <2>2. runs \in [Tasks -> Nat]
    BY DEF Init
  <2>3. pc \in [Threads -> WorkerPC \cup TimerPC \cup ClientPC]
    BY PoolAssumption DEF Init, Threads, WorkerPC, ClientPC
  <2>4. /\ \A w \in Workers : pc[w] \in WorkerPC
        /\ pc[Timer] \in TimerPC
        /\ \A c \in Clients : pc[c] \in ClientPC
    BY PoolAssumption DEF Init, Threads, WorkerPC, TimerPC, ClientPC
  <2>5. /\ hand \in [Workers \cup {Timer} -> Tasks \cup {None}]
        /\ hand[Timer] \in Delayed \cup {None}
    BY DEF Init
  <2>6. /\ delayed \in SUBSET [at : 0 .. MaxTime, task : Delayed]
        /\ until \in 0 .. MaxTime /\ now \in 0 .. MaxTime
    BY PoolAssumption DEF Init
  <2> QED
    BY <2>1, <2>2, <2>3, <2>4, <2>5, <2>6 DEF Init, TypeOK
<1>2. LocksHeld /\ HandsFull /\ CheckedIsEmpty
  BY PoolAssumption DEF Init, LocksHeld, HandsFull, CheckedIsEmpty, Threads
<1>3. NothingStranded /\ NoLostWakeup /\ TimerNeverOversleeps
  BY PoolAssumption DEF Init, NothingStranded, NoLostWakeup, TimerNeverOversleeps, Threads
<1> QED
  BY <1>1, <1>2, <1>3 DEF IInv, ThreadsInv

\* A step of a worker.
LEMMA WorkerPreserves ==
  ASSUME IInv, NEW w \in Workers, WorkerStep(w)
  PROVE  IInv'
<1>1. CASE WorkerFindsNothing(w)
  <2>1. TypeOK'
    BY <1>1, PoolAssumption DEF WorkerFindsNothing, Goto, IInv, ThreadsInv, TypeOK,
       WorkerPC, TimerPC, ClientPC, Threads, Tasks
  <2>2. LocksHeld'
    BY <1>1, PoolAssumption DEF WorkerFindsNothing, Goto, IInv, ThreadsInv, TypeOK,
       LocksHeld, WorkerPC, TimerPC, ClientPC, Threads
  <2>3. CheckedIsEmpty'
    BY <1>1, PoolAssumption DEF WorkerFindsNothing, Goto, IInv, ThreadsInv, TypeOK,
       CheckedIsEmpty, WorkerPC, TimerPC, ClientPC, Threads
  <2>4. NoLostWakeup'
    BY <1>1, PoolAssumption DEF WorkerFindsNothing, Goto, IInv, ThreadsInv, TypeOK,
       NoLostWakeup, WorkerPC, TimerPC, ClientPC, Threads
  <2>5. HandsFull' /\ NothingStranded' /\ TimerNeverOversleeps'
    BY <1>1, PoolAssumption DEF WorkerFindsNothing, Goto, IInv, ThreadsInv, TypeOK,
       HandsFull, NothingStranded, TimerNeverOversleeps, WorkerPC, TimerPC,
       ClientPC, Threads
  <2> QED
    BY <2>1, <2>2, <2>3, <2>4, <2>5 DEF IInv, ThreadsInv
<1>2. CASE WorkerBlocks(w)
  <2>1. TypeOK'
    BY <1>2, PoolAssumption DEF WorkerBlocks, Goto, IInv, ThreadsInv, TypeOK,
       WorkerPC, TimerPC, ClientPC, Threads, Tasks
  <2>2. LocksHeld'
    BY <1>2, PoolAssumption DEF WorkerBlocks, Goto, IInv, ThreadsInv, TypeOK,
       LocksHeld, WorkerPC, TimerPC, ClientPC, Threads
  <2>3. NoLostWakeup'
    BY <1>2, PoolAssumption DEF WorkerBlocks, Goto, IInv, ThreadsInv, TypeOK,
       NoLostWakeup, CheckedIsEmpty, WorkerPC, TimerPC, ClientPC, Threads
  <2>4. HandsFull' /\ CheckedIsEmpty' /\ NothingStranded' /\ TimerNeverOversleeps'
    BY <1>2, PoolAssumption DEF WorkerBlocks, Goto, IInv, ThreadsInv, TypeOK,
       HandsFull, CheckedIsEmpty, NothingStranded, TimerNeverOversleeps,
       WorkerPC, TimerPC, ClientPC, Threads
  <2> QED
    BY <2>1, <2>2, <2>3, <2>4 DEF IInv, ThreadsInv
<1>3. CASE WorkerTakes(w)
  <2>1. TypeOK'
    BY <1>3, PoolAssumption DEF WorkerTakes, Goto, IInv, ThreadsInv, TypeOK,
       WorkerPC, TimerPC, ClientPC, Threads, Tasks
  <2>2. HandsFull'
    BY <1>3, PoolAssumption DEF WorkerTakes, Goto, IInv, ThreadsInv, TypeOK,
       HandsFull, WorkerPC, TimerPC, ClientPC, Threads
  <2>3. NothingStranded'
    BY <1>3, PoolAssumption DEF WorkerTakes, Goto, IInv, ThreadsInv, TypeOK,
       NothingStranded, WorkerPC, TimerPC, ClientPC, Threads
  <2>4. LocksHeld' /\ CheckedIsEmpty' /\ NoLostWakeup' /\ TimerNeverOversleeps'
    BY <1>3, PoolAssumption DEF WorkerTakes, Goto, IInv, ThreadsInv, TypeOK,
       LocksHeld, CheckedIsEmpty, NoLostWakeup, TimerNeverOversleeps, WorkerPC,
       TimerPC, ClientPC, Threads
  <2> QED
    BY <2>1, <2>2, <2>3, <2>4 DEF IInv, ThreadsInv
<1>4. CASE WorkerExits(w)
  <2>1. TypeOK'
    BY <1>4, PoolAssumption DEF WorkerExits, Goto, IInv, ThreadsInv, TypeOK,
       WorkerPC, TimerPC, ClientPC, Threads, Tasks
  <2>2. NothingStranded'
    BY <1>4, PoolAssumption DEF WorkerExits, Goto, IInv, ThreadsInv, TypeOK,
       NothingStranded, WorkerPC, TimerPC, ClientPC, Threads
  <2>3. LocksHeld' /\ HandsFull' /\ CheckedIsEmpty' /\ NoLostWakeup' /\ TimerNeverOversleeps'
    BY <1>4, PoolAssumption DEF WorkerExits, Goto, IInv, ThreadsInv, TypeOK,
       LocksHeld, HandsFull, CheckedIsEmpty, NoLostWakeup, TimerNeverOversleeps,
       WorkerPC, TimerPC, ClientPC, Threads
  <2> QED
    BY <2>1, <2>2, <2>3 DEF IInv, ThreadsInv
<1>5. CASE WorkerRuns(w)
  <2>1. TypeOK'
    BY <1>5, PoolAssumption DEF WorkerRuns, Goto, IInv, ThreadsInv, TypeOK,
       HandsFull, WorkerPC, TimerPC, ClientPC, Threads, Tasks
  <2>2. HandsFull'
    BY <1>5, PoolAssumption DEF WorkerRuns, Goto, IInv, ThreadsInv, TypeOK,
       HandsFull, WorkerPC, TimerPC, ClientPC, Threads
  <2>3. LocksHeld' /\ CheckedIsEmpty' /\ NothingStranded' /\ NoLostWakeup' /\ TimerNeverOversleeps'
    BY <1>5, PoolAssumption DEF WorkerRuns, Goto, IInv, ThreadsInv, TypeOK,
       LocksHeld, CheckedIsEmpty, NothingStranded, NoLostWakeup,
       TimerNeverOversleeps, WorkerPC, TimerPC, ClientPC, Threads
  <2> QED
    BY <2>1, <2>2, <2>3 DEF IInv, ThreadsInv
<1> QED
  BY <1>1, <1>2, <1>3, <1>4, <1>5 DEF WorkerStep

\* notify_one() on the workers' condition variable, by whichever thread.
LEMMA NotifyPreserves ==
  ASSUME IInv, NEW t \in Clients \cup {Timer}, NotifyWorker(t)
  PROVE  IInv'
<1> DEFINE Blocked == {w \in Workers : pc[w] = "blocked"}
<1>1. CASE Blocked = {}
  <2>1. /\ pc' = [pc EXCEPT ![t] = AfterNotify(t)]
        /\ UNCHANGED <<stop, tasks, delayed, queueLock, timerLock, hand, until, now,
                       accepted, dropped, runs>>
    BY <1>1 DEF NotifyWorker
  <2>2. TypeOK'
    BY <2>1, PoolAssumption DEF IInv, ThreadsInv, TypeOK, WorkerPC, TimerPC, ClientPC, Threads, AfterNotify
  <2>3. NoLostWakeup'
    BY <1>1, <2>1, PoolAssumption DEF IInv, ThreadsInv, TypeOK, Threads, NoLostWakeup
  <2>4. LocksHeld' /\ HandsFull' /\ CheckedIsEmpty' /\ NothingStranded' /\ TimerNeverOversleeps'
    <3>1. pc[t] = "notifyWorker"
      BY DEF NotifyWorker
    <3>2. TimerNeverOversleeps'
      BY <2>1, <3>1, PoolAssumption DEF IInv, ThreadsInv, TypeOK, Threads, AfterNotify,
         TimerNeverOversleeps
    <3>3. LocksHeld' /\ HandsFull'
      BY <2>1, <3>1, PoolAssumption DEF IInv, ThreadsInv, TypeOK, Threads, AfterNotify,
         LocksHeld, HandsFull
    <3>4. CheckedIsEmpty' /\ NothingStranded'
      BY <2>1, <3>1, PoolAssumption DEF IInv, ThreadsInv, TypeOK, Threads, AfterNotify,
         CheckedIsEmpty, NothingStranded
    <3> QED
      BY <3>2, <3>3, <3>4
  <2> QED
    BY <2>2, <2>3, <2>4 DEF IInv, ThreadsInv
<1>2. CASE Blocked # {}
  <2>1. PICK w \in Blocked :
          /\ pc' = [pc EXCEPT ![t] = AfterNotify(t), ![w] = "top"]
          /\ UNCHANGED <<stop, tasks, delayed, queueLock, timerLock, hand, until, now,
                         accepted, dropped, runs>>
    BY <1>2 DEF NotifyWorker
  <2>2. w \in Workers /\ pc[w] = "blocked" /\ w # t /\ pc[t] = "notifyWorker"
    BY PoolAssumption DEF NotifyWorker
  <2> HIDE DEF Blocked
  <2>3. TypeOK'
    BY <2>1, <2>2, PoolAssumption DEF IInv, ThreadsInv, TypeOK, WorkerPC, TimerPC, ClientPC,
       Threads, AfterNotify
  <2>4. NoLostWakeup'
    BY <2>1, <2>2 DEF IInv, ThreadsInv, TypeOK, Threads, NoLostWakeup
  <2>5. LocksHeld' /\ HandsFull' /\ CheckedIsEmpty' /\ NothingStranded' /\ TimerNeverOversleeps'
    BY <2>1, <2>2, PoolAssumption DEF IInv, ThreadsInv, TypeOK, Threads, AfterNotify,
       LocksHeld, HandsFull, CheckedIsEmpty, NothingStranded, TimerNeverOversleeps
  <2> QED
    BY <2>3, <2>4, <2>5 DEF IInv, ThreadsInv
<1> QED
  BY <1>1, <1>2

\* A step of the timer thread.
LEMMA TimerPreserves ==
  ASSUME IInv, TimerStep
  PROVE  IInv'
<1>1. CASE TimerFindsNothing
  <2>1. TypeOK'
    BY <1>1, PoolAssumption DEF TimerFindsNothing, Goto, IInv, ThreadsInv, TypeOK,
       WorkerPC, TimerPC, ClientPC, Threads, Tasks
  <2>2. LocksHeld'
    BY <1>1, PoolAssumption DEF TimerFindsNothing, Goto, IInv, ThreadsInv, TypeOK,
       LocksHeld, WorkerPC, TimerPC, ClientPC, Threads
  <2>3. CheckedIsEmpty'
    BY <1>1, PoolAssumption DEF TimerFindsNothing, Goto, IInv, ThreadsInv, TypeOK,
       CheckedIsEmpty, WorkerPC, TimerPC, ClientPC, Threads
  <2>4. HandsFull' /\ NothingStranded' /\ NoLostWakeup' /\ TimerNeverOversleeps'
    BY <1>1, PoolAssumption DEF TimerFindsNothing, Goto, IInv, ThreadsInv, TypeOK,
       HandsFull, NothingStranded, NoLostWakeup, TimerNeverOversleeps, WorkerPC,
       TimerPC, ClientPC, Threads
  <2> QED
    BY <2>1, <2>2, <2>3, <2>4 DEF IInv, ThreadsInv
<1>2. CASE TimerBlocks
  <2>1. TypeOK'
    BY <1>2, PoolAssumption DEF TimerBlocks, Goto, IInv, ThreadsInv, TypeOK,
       WorkerPC, TimerPC, ClientPC, Threads, Tasks
  <2>2. LocksHeld'
    BY <1>2, PoolAssumption DEF TimerBlocks, Goto, IInv, ThreadsInv, TypeOK,
       LocksHeld, WorkerPC, TimerPC, ClientPC, Threads
  <2>3. TimerNeverOversleeps'
    BY <1>2, PoolAssumption DEF TimerBlocks, Goto, IInv, ThreadsInv, TypeOK,
       TimerNeverOversleeps, CheckedIsEmpty, WorkerPC, TimerPC, ClientPC,
       Threads
  <2>4. HandsFull' /\ CheckedIsEmpty' /\ NothingStranded' /\ NoLostWakeup'
    BY <1>2, PoolAssumption DEF TimerBlocks, Goto, IInv, ThreadsInv, TypeOK,
       HandsFull, CheckedIsEmpty, NothingStranded, NoLostWakeup, WorkerPC,
       TimerPC, ClientPC, Threads
  <2> QED
    BY <2>1, <2>2, <2>3, <2>4 DEF IInv, ThreadsInv
<1>3. CASE TimerExits
  <2>1. TypeOK'
    BY <1>3, PoolAssumption DEF TimerExits, Goto, IInv, ThreadsInv, TypeOK,
       WorkerPC, TimerPC, ClientPC, Threads, Tasks
  <2>2. /\ LocksHeld' /\ HandsFull' /\ CheckedIsEmpty'
         /\ NothingStranded' /\ NoLostWakeup' /\ TimerNeverOversleeps'
    BY <1>3, PoolAssumption DEF TimerExits, Goto, IInv, ThreadsInv, TypeOK,
       LocksHeld, HandsFull, CheckedIsEmpty, NothingStranded, NoLostWakeup,
       TimerNeverOversleeps, WorkerPC, TimerPC, ClientPC, Threads
  <2> QED
    BY <2>1, <2>2 DEF IInv, ThreadsInv
<1>4. CASE TimerPops
  <2>1. TypeOK'
    BY <1>4, PoolAssumption DEF TimerPops, Goto, Earliest, Due, IInv, ThreadsInv,
       TypeOK, WorkerPC, TimerPC, ClientPC, Threads, Tasks
  <2>2. HandsFull'
    BY <1>4, PoolAssumption DEF TimerPops, Goto, Earliest, Due, IInv, ThreadsInv,
       TypeOK, HandsFull, Tasks, WorkerPC, TimerPC, ClientPC, Threads
  <2>3. TimerNeverOversleeps'
    BY <1>4, PoolAssumption DEF TimerPops, Goto, Earliest, Due, IInv, ThreadsInv,
       TypeOK, TimerNeverOversleeps, WorkerPC, TimerPC, ClientPC, Threads
  <2>4. LocksHeld' /\ CheckedIsEmpty' /\ NothingStranded' /\ NoLostWakeup'
    BY <1>4, PoolAssumption DEF TimerPops, Goto, Earliest, Due, IInv, ThreadsInv,
       TypeOK, LocksHeld, CheckedIsEmpty, NothingStranded, NoLostWakeup,
       WorkerPC, TimerPC, ClientPC, Threads
  <2> QED
    BY <2>1, <2>2, <2>3, <2>4 DEF IInv, ThreadsInv
<1>5. CASE TimerSleeps
  <2>1. TypeOK'
    BY <1>5, PoolAssumption DEF TimerSleeps, Goto, Earliest, Due, IInv, ThreadsInv,
       TypeOK, WorkerPC, TimerPC, ClientPC, Threads, Tasks
  <2>2. TimerNeverOversleeps'
    BY <1>5, PoolAssumption DEF TimerSleeps, Goto, Earliest, Due, IInv, ThreadsInv,
       TypeOK, TimerNeverOversleeps, WorkerPC, TimerPC, ClientPC, Threads
  <2>3. LocksHeld' /\ HandsFull' /\ CheckedIsEmpty' /\ NothingStranded' /\ NoLostWakeup'
    BY <1>5, PoolAssumption DEF TimerSleeps, Goto, Earliest, Due, IInv, ThreadsInv,
       TypeOK, LocksHeld, HandsFull, CheckedIsEmpty, NothingStranded,
       NoLostWakeup, WorkerPC, TimerPC, ClientPC, Threads
  <2> QED
    BY <2>1, <2>2, <2>3 DEF IInv, ThreadsInv
<1>6. CASE TimerTimesOut
  <2>1. TypeOK'
    BY <1>6, PoolAssumption DEF TimerTimesOut, Goto, IInv, ThreadsInv, TypeOK,
       WorkerPC, TimerPC, ClientPC, Threads, Tasks
  <2>2. TimerNeverOversleeps'
    BY <1>6, PoolAssumption DEF TimerTimesOut, Goto, IInv, ThreadsInv, TypeOK,
       TimerNeverOversleeps, WorkerPC, TimerPC, ClientPC, Threads
  <2>3. LocksHeld' /\ HandsFull' /\ CheckedIsEmpty' /\ NothingStranded' /\ NoLostWakeup'
    BY <1>6, PoolAssumption DEF TimerTimesOut, Goto, IInv, ThreadsInv, TypeOK,
       LocksHeld, HandsFull, CheckedIsEmpty, NothingStranded, NoLostWakeup,
       WorkerPC, TimerPC, ClientPC, Threads
  <2> QED
    BY <2>1, <2>2, <2>3 DEF IInv, ThreadsInv
<1>7. CASE TimerSubmits
  <2>1. TypeOK'
    <3>1. hand[Timer] \in Delayed
      BY <1>7 DEF TimerSubmits, IInv, ThreadsInv, TypeOK, HandsFull
    <3>2. /\ tasks' \in Seq(Tasks)
          /\ dropped' \in SUBSET Delayed
      <4>1. hand[Timer] \in Tasks
        BY <3>1 DEF Tasks
      <4>2. tasks \in Seq(Tasks) /\ dropped \in SUBSET Delayed
        BY DEF IInv, ThreadsInv, TypeOK
      <4>3. CASE stop
        BY <1>7, <3>1, <4>2, <4>3 DEF TimerSubmits
      <4>4. CASE ~stop
        BY <1>7, <4>1, <4>2, <4>4, AppendProperties DEF TimerSubmits
      <4> QED
        BY <4>3, <4>4
    <3>3. /\ hand' \in [Workers \cup {Timer} -> Tasks \cup {None}]
          /\ hand'[Timer] = None
      BY <1>7, PoolAssumption DEF TimerSubmits, IInv, ThreadsInv, TypeOK
    <3>4. /\ pc' \in [Threads -> WorkerPC \cup TimerPC \cup ClientPC]
          /\ pc'[Timer] \in TimerPC
          /\ \A t \in Threads \ {Timer} : pc'[t] = pc[t]
      BY <1>7, PoolAssumption DEF TimerSubmits, IInv, ThreadsInv, TypeOK, TimerPC, Threads
    <3> QED
      BY <1>7, <3>2, <3>3, <3>4, PoolAssumption DEF TimerSubmits, IInv, ThreadsInv, TypeOK, Threads
  <2>2. HandsFull'
    BY <1>7, PoolAssumption DEF TimerSubmits, IInv, ThreadsInv, TypeOK, HandsFull,
       WorkerPC, TimerPC, ClientPC, Threads
  <2>3. CheckedIsEmpty'
    BY <1>7, PoolAssumption DEF TimerSubmits, IInv, ThreadsInv, TypeOK,
       CheckedIsEmpty, LocksHeld, WorkerPC, TimerPC, ClientPC, Threads
  <2>4. NothingStranded'
    BY <1>7, PoolAssumption DEF TimerSubmits, IInv, ThreadsInv, TypeOK,
       NothingStranded, WorkerPC, TimerPC, ClientPC, Threads
  <2>5. NoLostWakeup'
    BY <1>7, PoolAssumption DEF TimerSubmits, IInv, ThreadsInv, TypeOK,
       NoLostWakeup, WorkerPC, TimerPC, ClientPC, Threads
  <2>6. LocksHeld' /\ TimerNeverOversleeps'
    BY <1>7, PoolAssumption DEF TimerSubmits, IInv, ThreadsInv, TypeOK, LocksHeld,
       TimerNeverOversleeps, WorkerPC, TimerPC, ClientPC, Threads
  <2> QED
    BY <2>1, <2>2, <2>3, <2>4, <2>5, <2>6 DEF IInv, ThreadsInv
<1>8. CASE NotifyWorker(Timer)
  BY <1>8, NotifyPreserves
<1> QED
  BY <1>1, <1>2, <1>3, <1>4, <1>5, <1>6, <1>7, <1>8 DEF TimerStep

\* A step of a caller that is inside the executor.
LEMMA ClientPreserves ==
  ASSUME IInv, NEW c \in Clients, ClientStep(c)
  PROVE  IInv'
<1>1. CASE NotifyTimer(c)
  <2>1. TypeOK'
    BY <1>1, PoolAssumption DEF NotifyTimer, TimerAwake, IInv, ThreadsInv, TypeOK,
       WorkerPC, TimerPC, ClientPC, Threads, Tasks
  <2>2. TimerNeverOversleeps'
    BY <1>1, PoolAssumption DEF NotifyTimer, TimerAwake, IInv, ThreadsInv, TypeOK,
       TimerNeverOversleeps, WorkerPC, TimerPC, ClientPC, Threads
  <2>3. LocksHeld' /\ HandsFull' /\ CheckedIsEmpty' /\ NothingStranded' /\ NoLostWakeup'
    BY <1>1, PoolAssumption DEF NotifyTimer, TimerAwake, IInv, ThreadsInv, TypeOK,
       LocksHeld, HandsFull, CheckedIsEmpty, NothingStranded, NoLostWakeup,
       WorkerPC, TimerPC, ClientPC, Threads
  <2> QED
    BY <2>1, <2>2, <2>3 DEF IInv, ThreadsInv
<1>2. CASE CrossQueue(c)
  <2>1. TypeOK'
    BY <1>2, PoolAssumption DEF CrossQueue, Goto, IInv, ThreadsInv, TypeOK,
       WorkerPC, TimerPC, ClientPC, Threads, Tasks
  <2>2. /\ LocksHeld' /\ HandsFull' /\ CheckedIsEmpty'
         /\ NothingStranded' /\ NoLostWakeup' /\ TimerNeverOversleeps'
    BY <1>2, PoolAssumption DEF CrossQueue, Goto, IInv, ThreadsInv, TypeOK,
       LocksHeld, HandsFull, CheckedIsEmpty, NothingStranded, NoLostWakeup,
       TimerNeverOversleeps, WorkerPC, TimerPC, ClientPC, Threads
  <2> QED
    BY <2>1, <2>2 DEF IInv, ThreadsInv
<1>3. CASE NotifyWorkers(c)
  <2>1. TypeOK'
    BY <1>3, PoolAssumption DEF NotifyWorkers, IInv, ThreadsInv, TypeOK, WorkerPC,
       TimerPC, ClientPC, Threads, Tasks
  <2>2. NoLostWakeup'
    BY <1>3, PoolAssumption DEF NotifyWorkers, IInv, ThreadsInv, TypeOK,
       NoLostWakeup, WorkerPC, TimerPC, ClientPC, Threads
  <2>3. TimerNeverOversleeps'
    BY <1>3, PoolAssumption DEF NotifyWorkers, IInv, ThreadsInv, TypeOK,
       TimerNeverOversleeps, WorkerPC, TimerPC, ClientPC, Threads
  <2>4. LocksHeld' /\ HandsFull' /\ CheckedIsEmpty' /\ NothingStranded'
    BY <1>3, PoolAssumption DEF NotifyWorkers, IInv, ThreadsInv, TypeOK, LocksHeld,
       HandsFull, CheckedIsEmpty, NothingStranded, WorkerPC, TimerPC, ClientPC,
       Threads
  <2> QED
    BY <2>1, <2>2, <2>3, <2>4 DEF IInv, ThreadsInv
<1>4. CASE CrossTimer(c)
  <2>1. TypeOK'
    BY <1>4, PoolAssumption DEF CrossTimer, Goto, IInv, ThreadsInv, TypeOK,
       WorkerPC, TimerPC, ClientPC, Threads, Tasks
  <2>2. /\ LocksHeld' /\ HandsFull' /\ CheckedIsEmpty'
         /\ NothingStranded' /\ NoLostWakeup' /\ TimerNeverOversleeps'
    BY <1>4, PoolAssumption DEF CrossTimer, Goto, IInv, ThreadsInv, TypeOK,
       LocksHeld, HandsFull, CheckedIsEmpty, NothingStranded, NoLostWakeup,
       TimerNeverOversleeps, WorkerPC, TimerPC, ClientPC, Threads
  <2> QED
    BY <2>1, <2>2 DEF IInv, ThreadsInv
<1>5. CASE WakeTimer(c)
  <2>1. TypeOK'
    BY <1>5, PoolAssumption DEF WakeTimer, TimerAwake, IInv, ThreadsInv, TypeOK,
       WorkerPC, TimerPC, ClientPC, Threads, Tasks
  <2>2. TimerNeverOversleeps'
    BY <1>5, PoolAssumption DEF WakeTimer, TimerAwake, IInv, ThreadsInv, TypeOK,
       TimerNeverOversleeps, WorkerPC, TimerPC, ClientPC, Threads
  <2>3. LocksHeld' /\ HandsFull' /\ CheckedIsEmpty' /\ NothingStranded' /\ NoLostWakeup'
    BY <1>5, PoolAssumption DEF WakeTimer, TimerAwake, IInv, ThreadsInv, TypeOK,
       LocksHeld, HandsFull, CheckedIsEmpty, NothingStranded, NoLostWakeup,
       WorkerPC, TimerPC, ClientPC, Threads
  <2> QED
    BY <2>1, <2>2, <2>3 DEF IInv, ThreadsInv
<1>6. CASE Join(c)
  <2>1. TypeOK'
    BY <1>6, PoolAssumption DEF Join, Goto, Exited, IInv, ThreadsInv, TypeOK,
       WorkerPC, TimerPC, ClientPC, Threads, Tasks
  <2>2. /\ LocksHeld' /\ HandsFull' /\ CheckedIsEmpty'
         /\ NothingStranded' /\ NoLostWakeup' /\ TimerNeverOversleeps'
    BY <1>6, PoolAssumption DEF Join, Goto, Exited, IInv, ThreadsInv, TypeOK,
       LocksHeld, HandsFull, CheckedIsEmpty, NothingStranded, NoLostWakeup,
       TimerNeverOversleeps, WorkerPC, TimerPC, ClientPC, Threads
  <2> QED
    BY <2>1, <2>2 DEF IInv, ThreadsInv
<1>7. CASE NotifyWorker(c)
  BY <1>7, NotifyPreserves
<1> QED
  BY <1>1, <1>2, <1>3, <1>4, <1>5, <1>6, <1>7 DEF ClientStep

\* A call of shutdown.
LEMMA ShutdownPreserves ==
  ASSUME IInv, NEW c \in Clients, Shutdown(c)
  PROVE  IInv'
<1>1. CASE Shutdown(c)
  <2>1. TypeOK'
    BY <1>1, PoolAssumption DEF Shutdown, Goto, IInv, ThreadsInv, TypeOK, WorkerPC,
       TimerPC, ClientPC, Threads, Tasks
  <2>2. NothingStranded'
    BY <1>1, PoolAssumption DEF Shutdown, Goto, IInv, ThreadsInv, TypeOK,
       NothingStranded, WorkerPC, TimerPC, ClientPC, Threads
  <2>3. NoLostWakeup'
    BY <1>1, PoolAssumption DEF Shutdown, Goto, IInv, ThreadsInv, TypeOK,
       NoLostWakeup, WorkerPC, TimerPC, ClientPC, Threads
  <2>4. TimerNeverOversleeps'
    <3>1. SUFFICES ASSUME NEW d \in delayed,
                          pc[Timer] = "blocked" \/ (pc[Timer] = "sleeping" /\ until > d.at)
                   PROVE  \E b \in Clients : pc'[b] \in {"notifyTimer", "crossQueue", "notifyWorkers", "crossTimer", "wakeTimer"}
      BY <1>1, PoolAssumption DEF Shutdown, Goto, IInv, ThreadsInv, TypeOK, Threads,
         TimerNeverOversleeps
    <3>2. PICK b \in Clients : pc[b] \in {"notifyTimer", "crossQueue", "notifyWorkers", "crossTimer", "wakeTimer"}
      BY <3>1 DEF IInv, TimerNeverOversleeps
    <3>3. pc'[b] = pc[b]
      BY <1>1, <3>2 DEF Shutdown, Goto, IInv, ThreadsInv, TypeOK, Threads
    <3> QED
      BY <3>2, <3>3
  <2>5. LocksHeld' /\ HandsFull' /\ CheckedIsEmpty'
    BY <1>1, PoolAssumption DEF Shutdown, Goto, IInv, ThreadsInv, TypeOK,
       LocksHeld, HandsFull, CheckedIsEmpty, WorkerPC, TimerPC, ClientPC,
       Threads
  <2> QED
    BY <2>1, <2>2, <2>3, <2>4, <2>5 DEF IInv, ThreadsInv
<1> QED
  BY <1>1

\* A call of execute or execute_delayed.
LEMMA CallPreserves ==
  ASSUME IInv, NEW c \in Clients, NEW t \in Tasks,
         \/ t \in Immediate /\ Execute(c, t)
         \/ t \in Delayed /\ ExecuteDelayed(c, t)
  PROVE  IInv'
<1>1. CASE t \in Immediate /\ Execute(c, t)
  <2>1. TypeOK'
    BY <1>1, PoolAssumption DEF Execute, Goto, Fresh, IInv, ThreadsInv, TypeOK,
       WorkerPC, TimerPC, ClientPC, Threads, Tasks
  <2>2. CheckedIsEmpty'
    BY <1>1, PoolAssumption DEF Execute, Goto, Fresh, IInv, ThreadsInv, TypeOK,
       CheckedIsEmpty, LocksHeld, WorkerPC, TimerPC, ClientPC, Threads
  <2>3. NothingStranded'
    BY <1>1, PoolAssumption DEF Execute, Goto, Fresh, IInv, ThreadsInv, TypeOK,
       NothingStranded, WorkerPC, TimerPC, ClientPC, Threads
  <2>4. NoLostWakeup'
    BY <1>1, PoolAssumption DEF Execute, Goto, Fresh, IInv, ThreadsInv, TypeOK,
       NoLostWakeup, WorkerPC, TimerPC, ClientPC, Threads
  <2>5. LocksHeld' /\ HandsFull' /\ TimerNeverOversleeps'
    BY <1>1, PoolAssumption DEF Execute, Goto, Fresh, IInv, ThreadsInv, TypeOK,
       LocksHeld, HandsFull, TimerNeverOversleeps, WorkerPC, TimerPC, ClientPC,
       Threads
  <2> QED
    BY <2>1, <2>2, <2>3, <2>4, <2>5 DEF IInv, ThreadsInv
<1>2. CASE t \in Delayed /\ ExecuteDelayed(c, t)
  <2>1. TypeOK'
    BY <1>2, PoolAssumption DEF ExecuteDelayed, Goto, Fresh, IInv, ThreadsInv,
       TypeOK, WorkerPC, TimerPC, ClientPC, Threads, Tasks
  <2>2. CheckedIsEmpty'
    BY <1>2, PoolAssumption DEF ExecuteDelayed, Goto, Fresh, IInv, ThreadsInv,
       TypeOK, CheckedIsEmpty, LocksHeld, WorkerPC, TimerPC, ClientPC, Threads
  <2>3. TimerNeverOversleeps'
    BY <1>2, PoolAssumption DEF ExecuteDelayed, Goto, Fresh, IInv, ThreadsInv,
       TypeOK, TimerNeverOversleeps, WorkerPC, TimerPC, ClientPC, Threads
  <2>4. LocksHeld' /\ HandsFull' /\ NothingStranded' /\ NoLostWakeup'
    BY <1>2, PoolAssumption DEF ExecuteDelayed, Goto, Fresh, IInv, ThreadsInv,
       TypeOK, LocksHeld, HandsFull, NothingStranded, NoLostWakeup, WorkerPC,
       TimerPC, ClientPC, Threads
  <2> QED
    BY <2>1, <2>2, <2>3, <2>4 DEF IInv, ThreadsInv
<1> QED
  BY <1>1, <1>2

\* A spurious wakeup, or the passing of time.
LEMMA EnvironmentPreserves ==
  ASSUME IInv, NEW t \in Workers \cup {Timer}, WakeSpuriously(t) \/ Tick
  PROVE  IInv'
<1>1. CASE WakeSpuriously(t)
  <2>1. TypeOK'
    BY <1>1, PoolAssumption DEF WakeSpuriously, IInv, ThreadsInv, TypeOK, WorkerPC,
       TimerPC, ClientPC, Threads, Tasks
  <2>2. NoLostWakeup'
    BY <1>1, PoolAssumption DEF WakeSpuriously, IInv, ThreadsInv, TypeOK,
       NoLostWakeup, WorkerPC, TimerPC, ClientPC, Threads
  <2>3. TimerNeverOversleeps'
    BY <1>1, PoolAssumption DEF WakeSpuriously, IInv, ThreadsInv, TypeOK,
       TimerNeverOversleeps, WorkerPC, TimerPC, ClientPC, Threads
  <2>4. LocksHeld' /\ HandsFull' /\ CheckedIsEmpty' /\ NothingStranded'
    BY <1>1, PoolAssumption DEF WakeSpuriously, IInv, ThreadsInv, TypeOK,
       LocksHeld, HandsFull, CheckedIsEmpty, NothingStranded, WorkerPC, TimerPC,
       ClientPC, Threads
  <2> QED
    BY <2>1, <2>2, <2>3, <2>4 DEF IInv, ThreadsInv
<1>2. CASE Tick
  <2>1. TypeOK'
    BY <1>2, PoolAssumption DEF Tick, IInv, ThreadsInv, TypeOK, WorkerPC, TimerPC,
       ClientPC, Threads, Tasks
  <2>2. /\ LocksHeld' /\ HandsFull' /\ CheckedIsEmpty'
         /\ NothingStranded' /\ NoLostWakeup' /\ TimerNeverOversleeps'
    BY <1>2, PoolAssumption DEF Tick, IInv, ThreadsInv, TypeOK, LocksHeld,
       HandsFull, CheckedIsEmpty, NothingStranded, NoLostWakeup,
       TimerNeverOversleeps, WorkerPC, TimerPC, ClientPC, Threads
  <2> QED
    BY <2>1, <2>2 DEF IInv, ThreadsInv
<1> QED
  BY <1>1, <1>2

\* Every step of a worker, the timer and a caller preserves IInv.
LEMMA NextIInv == IInv /\ [Next]_vars => IInv'
<1> SUFFICES ASSUME IInv, [Next]_vars PROVE IInv'
  OBVIOUS
<1>1. CASE \E w \in Workers : WorkerStep(w)
  BY <1>1, WorkerPreserves
<1>2. CASE TimerStep
  BY <1>2, TimerPreserves
<1>3. CASE \E c \in Clients : ClientStep(c)
  BY <1>3, ClientPreserves
<1>4. CASE \E c \in Clients : Shutdown(c)
  BY <1>4, ShutdownPreserves
<1>5. CASE \E c \in Clients : \/ \E t \in Immediate : Execute(c, t)
                              \/ \E t \in Delayed : ExecuteDelayed(c, t)
  BY <1>5, CallPreserves DEF Tasks
<1>6. CASE (\E t \in Workers \cup {Timer} : WakeSpuriously(t)) \/ Tick
  BY <1>6, EnvironmentPreserves
<1>7. CASE UNCHANGED vars
  BY <1>7 DEF vars, IInv, ThreadsInv, TypeOK, LocksHeld, HandsFull, CheckedIsEmpty,
     NothingStranded, NoLostWakeup, TimerNeverOversleeps
<1> QED
  BY <1>1, <1>2, <1>3, <1>4, <1>5, <1>6, <1>7 DEF Next

\* IInv holds in every reachable state of the pool.
THEOREM PoolIsInductive == Spec => []IInv
  BY InitIInv, NextIInv, PTL DEF Spec

\* Whatever execute() accepted has been taken by a worker before the first
\* worker leaves, although shutdown() sets stop_ without the lock.
THEOREM PoolDrains == Spec => []NothingStranded
  BY PoolIsInductive, PTL DEF IInv

\* A queued task finds a worker awake or a notification on its way, and the
\* timer thread never sleeps past the time of a delayed task.
THEOREM PoolNobodyOversleeps == Spec => []NobodyOversleeps
  BY PoolIsInductive, PTL DEF IInv, NobodyOversleeps

-----------------------------------------------------------------------------
(***************************************************************************)
(* No task is lost or doubled.  A step moves at most one task, from one    *)
(* place to the next; NoTaskMoves lists the steps that move none.          *)
(***************************************************************************)
Heap == {d.task : d \in delayed}
Queue == ToSet(tasks)
Hands == {hand[t] : t \in Workers \cup {Timer}} \ {None}
Over == {t \in Tasks : runs[t] > 0}

\* EachInOnePlace with its places by name.
Apart ==
  /\ accepted = Heap \cup Queue \cup Hands \cup Over \cup dropped
  /\ Heap \cap (Queue \cup Hands \cup Over \cup dropped) = {}
  /\ Queue \cap (Hands \cup Over \cup dropped) = {}
  /\ Hands \cap (Over \cup dropped) = {}
  /\ Over \cap dropped = {}

Once ==
  /\ \A d, e \in delayed : d.task = e.task => d = e
  /\ IsInjective(tasks)
  /\ \A s, t \in Workers \cup {Timer} : hand[s] = hand[t] /\ hand[s] # None => s = t
  /\ \A t \in Tasks : runs[t] <= 1

\* EachInOnePlace, one task at a time.
LEMMA PlacesByName == EachInOnePlace <=> Apart /\ Once
<1>1. /\ DOMAIN Places = {"heap", "queue", "hands", "over", "dropped"}
      /\ Places["heap"] = Heap /\ Places["queue"] = Queue /\ Places["hands"] = Hands
      /\ Places["over"] = Over /\ Places["dropped"] = dropped
  BY DEF Places, Heap, Queue, Hands, Over
<1>2. UNION {Places[p] : p \in DOMAIN Places} = Heap \cup Queue \cup Hands \cup Over \cup dropped
  BY <1>1
<1>3. (\A p, q \in DOMAIN Places : p # q => Places[p] \cap Places[q] = {})
        <=> /\ Heap \cap (Queue \cup Hands \cup Over \cup dropped) = {}
            /\ Queue \cap (Hands \cup Over \cup dropped) = {}
            /\ Hands \cap (Over \cup dropped) = {}
            /\ Over \cap dropped = {}
  BY <1>1
<1> QED
  BY <1>2, <1>3 DEF EachInOnePlace, Apart, Once

\* A step that leaves the places alone.
Still == UNCHANGED <<tasks, delayed, hand, accepted, dropped, runs>>

\* A step that moves no task leaves them where they are.
LEMMA StillApart == ASSUME Still PROVE Apart /\ Once => Apart' /\ Once'
  BY DEF Still, Apart, Once, Heap, Queue, Hands, Over

\* A hand is filled, or emptied.
LEMMA HandsMove ==
  ASSUME hand \in [Workers \cup {Timer} -> Tasks \cup {None}],
         NEW s \in Workers \cup {Timer}, NEW k \in Tasks \cup {None},
         Once, k = None \/ k \notin Hands,
         hand' = [hand EXCEPT ![s] = k]
  PROVE  /\ Hands' = (Hands \ {hand[s]}) \cup ({k} \ {None})
         /\ \A a, b \in Workers \cup {Timer} : hand'[a] = hand'[b] /\ hand'[a] # None => a = b
<1>1. \A u \in Workers \cup {Timer} : hand'[u] = IF u = s THEN k ELSE hand[u]
  OBVIOUS
<1>2. \A a, b \in Workers \cup {Timer} : hand[a] = hand[b] /\ hand[a] # None => a = b
  BY DEF Once
<1>3. \A x : x \in Hands <=> x # None /\ \E u \in Workers \cup {Timer} : hand[u] = x
  BY DEF Hands
<1>4. \A x : x \in Hands' <=> x # None /\ \E u \in Workers \cup {Timer} : hand'[u] = x
  BY DEF Hands
<1>5. \A a, b \in Workers \cup {Timer} : hand'[a] = hand'[b] /\ hand'[a] # None => a = b
  BY <1>1, <1>2, <1>3
<1>6. ASSUME NEW x PROVE x \in Hands' <=> x \in (Hands \ {hand[s]}) \cup ({k} \ {None})
  BY <1>1, <1>2, <1>3, <1>4
<1> QED
  BY <1>5, <1>6

\* The inductive invariant of the places: the types and what the hands hold are
\* known of every state.
PlacesInv == Apart /\ Once

\* At the start no task is anywhere.
LEMMA InitPlaces == Init => PlacesInv
<1> SUFFICES ASSUME Init PROVE PlacesInv
  OBVIOUS
<1>1. Heap = {} /\ Queue = {} /\ Hands = {} /\ Over = {}
  BY DEF Init, Heap, Queue, ToSet, Hands, Over
<1>2. IsInjective(tasks)
  BY DEF Init, IsInjective
<1> QED
  BY <1>1, <1>2 DEF Init, PlacesInv, Apart, Once

\* What a thread holds is a task, and what holds nothing has its hands free.
LEMMA HandsKnown ==
  ASSUME IInv
  PROVE  /\ hand \in [Workers \cup {Timer} -> Tasks \cup {None}]
         /\ tasks \in Seq(Tasks) /\ runs \in [Tasks -> Nat]
         /\ delayed \in SUBSET [at : 0 .. MaxTime, task : Delayed]
         /\ None \notin Tasks /\ Delayed \subseteq Tasks /\ Immediate \subseteq Tasks
         /\ \A w \in Workers : hand[w] \in Tasks <=> pc[w] = "running"
         /\ hand[Timer] \in Delayed <=> pc[Timer] = "submitting"
<1>1. None \notin Tasks /\ Delayed \subseteq Tasks /\ Immediate \subseteq Tasks
  BY PoolAssumption DEF Tasks
<1>2. TypeOK /\ HandsFull
  BY DEF IInv, ThreadsInv
<1> QED
  BY <1>1, <1>2 DEF TypeOK, HandsFull

\* execute() puts a task that is new into the queue.
LEMMA ExecuteMoves ==
  ASSUME IInv, PlacesInv, NEW c \in Clients, NEW t \in Immediate, Execute(c, t)
  PROVE  PlacesInv'
<1>1. t \in Tasks /\ tasks \in Seq(Tasks)
  BY HandsKnown
<1>2. /\ t \notin accepted /\ tasks' = Append(tasks, t) /\ accepted' = accepted \cup {t}
      /\ UNCHANGED <<delayed, hand, runs, dropped>>
  BY DEF Execute, Fresh
<1>3. Heap' = Heap /\ Hands' = Hands /\ Over' = Over
  BY <1>2 DEF Heap, Hands, Over
<1>4. Queue' = Queue \cup {t}
  BY <1>1, <1>2, ToSetProperties DEF Queue
<1>5. Apart'
  BY <1>2, <1>3, <1>4 DEF PlacesInv, Apart
<1>6. t \notin Queue
  BY <1>2 DEF PlacesInv, Apart
<1>7. IsInjective(tasks')
  BY <1>1, <1>2, <1>6, ToSetProperties, AppendFresh DEF Queue, PlacesInv, Once
<1> QED
  BY <1>2, <1>5, <1>7 DEF PlacesInv, Once

\* execute_delayed() puts one into the heap.
LEMMA ExecuteDelayedMoves ==
  ASSUME IInv, PlacesInv, NEW c \in Clients, NEW t \in Delayed, ExecuteDelayed(c, t)
  PROVE  PlacesInv'
<1>1. /\ t \notin accepted /\ accepted' = accepted \cup {t}
      /\ delayed' = delayed \cup {[at |-> now + Delay[t], task |-> t]}
      /\ UNCHANGED <<tasks, hand, runs, dropped>>
  BY DEF ExecuteDelayed, Fresh
<1>2. Queue' = Queue /\ Hands' = Hands /\ Over' = Over
  BY <1>1 DEF Queue, Hands, Over
<1>3. Heap' = Heap \cup {t}
  <2>1. \A x : x \in Heap' <=> \E d \in delayed' : d.task = x
    BY DEF Heap
  <2>2. \A x : x \in Heap <=> \E d \in delayed : d.task = x
    BY DEF Heap
  <2>3. [at |-> now + Delay[t], task |-> t].task = t
    OBVIOUS
  <2>4. \A x : x \in Heap' <=> x \in Heap \/ x = t
    BY <1>1, <2>1, <2>2, <2>3
  <2> QED
    BY <2>4
<1>4. Apart'
  BY <1>1, <1>2, <1>3 DEF PlacesInv, Apart
<1>5. \A d \in delayed : d.task # t
  BY <1>1 DEF PlacesInv, Apart, Heap
<1>6. \A d, e \in delayed' : d.task = e.task => d = e
  BY <1>1, <1>5 DEF PlacesInv, Once
<1> QED
  BY <1>1, <1>4, <1>6 DEF PlacesInv, Once

\* The timer thread takes a task off the heap into its hands.
LEMMA TimerPopsMoves ==
  ASSUME IInv, PlacesInv, TimerPops
  PROVE  PlacesInv'
<1>1. PICK d \in delayed : /\ delayed' = delayed \ {d}
                           /\ hand' = [hand EXCEPT ![Timer] = d.task]
  BY DEF TimerPops, Earliest
<1>2. UNCHANGED <<tasks, accepted, runs, dropped>> /\ pc[Timer] = "top"
  BY DEF TimerPops, Goto
<1>3. d.task \in Tasks
  BY HandsKnown
<1>4. hand[Timer] = None
  BY <1>2 DEF IInv, ThreadsInv, HandsFull
<1>5. d.task \in Heap /\ Heap' = Heap \ {d.task}
  BY <1>1 DEF PlacesInv, Once, Heap
<1>6. d.task \notin Hands /\ None \notin Hands
  BY <1>5 DEF PlacesInv, Apart, Hands
<1>7. /\ Hands' = Hands \cup {d.task}
      /\ \A s, t \in Workers \cup {Timer} : hand'[s] = hand'[t] /\ hand'[s] # None => s = t
  <2>1. /\ Hands' = (Hands \ {hand[Timer]}) \cup ({d.task} \ {None})
        /\ \A s, t \in Workers \cup {Timer} : hand'[s] = hand'[t] /\ hand'[s] # None => s = t
    BY <1>1, <1>3, <1>6, HandsMove, HandsKnown DEF PlacesInv
  <2>2. d.task # None
    BY <1>3, HandsKnown
  <2> QED
    BY <1>4, <1>6, <2>1, <2>2
<1>8. Queue' = Queue /\ Over' = Over
  BY <1>2 DEF Queue, Over
<1>9. Apart'
  BY <1>2, <1>5, <1>7, <1>8 DEF PlacesInv, Apart
<1> QED
  BY <1>1, <1>2, <1>7, <1>9 DEF PlacesInv, Once

\* It gives the task to execute(), which queues it or, once stopped, drops it.
LEMMA TimerSubmitsMoves ==
  ASSUME IInv, PlacesInv, TimerSubmits
  PROVE  PlacesInv'
<1> DEFINE k == hand[Timer]
<1>1. k \in Tasks /\ tasks \in Seq(Tasks) /\ k # None
  BY HandsKnown DEF TimerSubmits
<1>2. /\ UNCHANGED <<delayed, accepted, runs>>
      /\ hand' = [hand EXCEPT ![Timer] = None]
      /\ IF stop THEN dropped' = dropped \cup {k} /\ UNCHANGED tasks
                 ELSE tasks' = Append(tasks, k) /\ UNCHANGED dropped
  BY DEF TimerSubmits
<1>3. k \in Hands
  BY <1>1 DEF Hands
<1>4. /\ Hands' = Hands \ {k}
      /\ \A s, t \in Workers \cup {Timer} : hand'[s] = hand'[t] /\ hand'[s] # None => s = t
  <2>1. /\ Hands' = (Hands \ {hand[Timer]}) \cup ({None} \ {None})
        /\ \A s, t \in Workers \cup {Timer} : hand'[s] = hand'[t] /\ hand'[s] # None => s = t
    BY <1>2, HandsMove, HandsKnown DEF PlacesInv
  <2> QED
    BY <2>1
<1>5. Heap' = Heap /\ Over' = Over
  BY <1>2 DEF Heap, Over
<1>6. k \notin Queue
  BY <1>3 DEF PlacesInv, Apart
<1> HIDE DEF k
<1>7. CASE stop
  <2>1. Queue' = Queue
    BY <1>2, <1>7 DEF Queue
  <2>2. Apart'
    BY <1>2, <1>3, <1>4, <1>5, <1>7, <2>1 DEF PlacesInv, Apart
  <2> QED
    BY <1>2, <1>4, <1>7, <2>2 DEF PlacesInv, Once
<1>8. CASE ~stop
  <2>1. Queue' = Queue \cup {k}
    BY <1>1, <1>2, <1>8, ToSetProperties DEF Queue
  <2>2. Apart'
    BY <1>2, <1>3, <1>4, <1>5, <1>8, <2>1 DEF PlacesInv, Apart
  <2>3. IsInjective(tasks')
    <3>1. tasks' = Append(tasks, k) /\ ~Contains(tasks, k)
      BY <1>1, <1>2, <1>6, <1>8, ToSetProperties DEF Queue
    <3> QED
      BY <1>1, <3>1, AppendFresh DEF PlacesInv, Once
  <2> QED
    BY <1>2, <1>4, <2>2, <2>3 DEF PlacesInv, Once
<1> QED
  BY <1>7, <1>8

\* A worker takes the first task of the queue.
LEMMA WorkerTakesMoves ==
  ASSUME IInv, PlacesInv, NEW w \in Workers, WorkerTakes(w)
  PROVE  PlacesInv'
<1> DEFINE k == Head(tasks)
<1>1. /\ tasks # <<>> /\ tasks' = Tail(tasks) /\ hand' = [hand EXCEPT ![w] = k]
      /\ UNCHANGED <<delayed, accepted, runs, dropped>> /\ pc[w] = "top"
  BY DEF WorkerTakes, Goto
<1>2. tasks \in Seq(Tasks) /\ IsInjective(tasks)
  BY HandsKnown DEF PlacesInv, Once
<1>3. k \in Tasks /\ k \in Queue /\ Queue' = Queue \ {k} /\ IsInjective(tasks')
  BY <1>1, <1>2, TailProperties, ToSetProperties DEF Queue
<1>4. hand[w] = None
  BY <1>1 DEF IInv, ThreadsInv, HandsFull
<1>5. k \notin Hands /\ None \notin Hands
  BY <1>3 DEF PlacesInv, Apart, Hands
<1>6. k # None
  BY <1>3, HandsKnown
<1> HIDE DEF k
<1>7. /\ Hands' = Hands \cup {k}
      /\ \A s, t \in Workers \cup {Timer} : hand'[s] = hand'[t] /\ hand'[s] # None => s = t
  <2>1. /\ Hands' = (Hands \ {hand[w]}) \cup ({k} \ {None})
        /\ \A s, t \in Workers \cup {Timer} : hand'[s] = hand'[t] /\ hand'[s] # None => s = t
    BY <1>1, <1>3, <1>5, HandsMove, HandsKnown DEF PlacesInv
  <2> QED
    BY <1>4, <1>5, <1>6, <2>1
<1>8. Heap' = Heap /\ Over' = Over
  BY <1>1 DEF Heap, Over
<1>9. Apart'
  BY <1>1, <1>3, <1>7, <1>8 DEF PlacesInv, Apart
<1> QED
  BY <1>1, <1>3, <1>7, <1>9 DEF PlacesInv, Once

\* It has run it.
LEMMA WorkerRunsMoves ==
  ASSUME IInv, PlacesInv, NEW w \in Workers, WorkerRuns(w)
  PROVE  PlacesInv'
<1> DEFINE k == hand[w]
<1>1. /\ runs' = [runs EXCEPT ![k] = @ + 1] /\ hand' = [hand EXCEPT ![w] = None]
      /\ UNCHANGED <<tasks, delayed, accepted, dropped>>
  BY DEF WorkerRuns
<1>2. k \in Tasks /\ k # None /\ runs \in [Tasks -> Nat]
  BY HandsKnown DEF WorkerRuns, Goto
<1>3. k \in Hands
  BY <1>2 DEF Hands
<1>4. /\ Hands' = Hands \ {k}
      /\ \A s, t \in Workers \cup {Timer} : hand'[s] = hand'[t] /\ hand'[s] # None => s = t
  <2>1. /\ Hands' = (Hands \ {hand[w]}) \cup ({None} \ {None})
        /\ \A s, t \in Workers \cup {Timer} : hand'[s] = hand'[t] /\ hand'[s] # None => s = t
    BY <1>1, HandsMove, HandsKnown DEF PlacesInv
  <2> QED
    BY <2>1
<1>5. runs[k] = 0
  BY <1>2, <1>3 DEF PlacesInv, Apart, Over
<1> HIDE DEF k
<1>6. \A t \in Tasks : runs'[t] = IF t = k THEN 1 ELSE runs[t]
  BY <1>1, <1>2, <1>5
<1>7. Over' = Over \cup {k} /\ \A t \in Tasks : runs'[t] <= 1
  BY <1>2, <1>6 DEF Over, PlacesInv, Once
<1>8. Heap' = Heap /\ Queue' = Queue
  BY <1>1 DEF Heap, Queue
<1>9. Apart'
  BY <1>1, <1>3, <1>4, <1>7, <1>8 DEF PlacesInv, Apart
<1> QED
  BY <1>1, <1>4, <1>7, <1>9 DEF PlacesInv, Once

\* No other step moves a task; the clock and the flag have a step each.
LEMMA OthersStill ==
  ASSUME [Next]_vars
  PROVE  \/ Still /\ UNCHANGED <<stop, now>>
         \/ Still /\ (Tick \/ \E c \in Clients : Shutdown(c))
         \/ \E w \in Workers : WorkerTakes(w) \/ WorkerRuns(w)
         \/ TimerPops \/ TimerSubmits
         \/ \E c \in Clients : \/ \E t \in Immediate : Execute(c, t)
                               \/ \E t \in Delayed : ExecuteDelayed(c, t)
<1> DEFINE still == Still /\ UNCHANGED <<stop, now>>
<1>1. ASSUME NEW w \in Workers, WorkerStep(w)
      PROVE  still \/ WorkerTakes(w) \/ WorkerRuns(w)
  BY <1>1 DEF WorkerStep, WorkerFindsNothing, WorkerBlocks, WorkerExits, Still
<1>2. ASSUME NEW t \in Threads, NotifyWorker(t) PROVE still
  BY <1>2 DEF NotifyWorker, Still
<1>3. ASSUME TimerStep PROVE still \/ TimerPops \/ TimerSubmits
  BY <1>2, <1>3 DEF TimerStep, TimerFindsNothing, TimerBlocks, TimerExits, TimerSleeps,
     TimerTimesOut, Still, Threads
<1>4. ASSUME NEW c \in Clients, ClientStep(c) PROVE still
  BY <1>2, <1>4 DEF ClientStep, NotifyTimer, CrossQueue, NotifyWorkers, CrossTimer, WakeTimer,
     Join, Still, Threads
<1>5. ASSUME NEW c \in Clients, Shutdown(c) PROVE Still
  BY <1>5 DEF Shutdown, Still
<1>6. ASSUME Tick PROVE Still
  BY <1>6 DEF Tick, Still
<1>7. ASSUME (\E t \in Workers \cup {Timer} : WakeSpuriously(t)) \/ UNCHANGED vars PROVE still
  BY <1>7 DEF WakeSpuriously, vars, Still
<1> QED
  BY <1>1, <1>3, <1>4, <1>5, <1>6, <1>7 DEF Next

\* Every step preserves PlacesInv.
LEMMA NextPlaces == IInv /\ PlacesInv /\ [Next]_vars => PlacesInv'
<1> SUFFICES ASSUME IInv, PlacesInv, [Next]_vars PROVE PlacesInv'
  OBVIOUS
<1>1. CASE Still
  BY <1>1, StillApart DEF PlacesInv
<1> QED
  BY <1>1, OthersStill, ExecuteMoves, ExecuteDelayedMoves, TimerPopsMoves, TimerSubmitsMoves,
     WorkerTakesMoves, WorkerRunsMoves

\* PlacesInv holds in every reachable state.
LEMMA PlacesInductive == Spec => []PlacesInv
  BY PoolIsInductive, InitPlaces, NextPlaces, PTL DEF Spec

\* A task is handed from the heap to the timer thread, to the queue, to a
\* worker, each step under another lock or none: it is never in two places, in
\* one place twice, or in none.  Who holds a lock or a task is known as well.
THEOREM PoolInvariant == Spec => []PoolInv
<1>1. Spec => []EachInOnePlace
  BY PlacesInductive, PlacesByName, PTL DEF PlacesInv
<1>2. Spec => []ThreadsInv
  BY PoolIsInductive, PTL DEF IInv
<1> QED
  BY <1>1, <1>2, PTL DEF PoolInv

-----------------------------------------------------------------------------
(***************************************************************************)
(* The pool implements DelayedExecutor.                                    *)
(***************************************************************************)
LEMMA StatusIs ==
  /\ Status = [t \in Tasks |-> Status[t]]
  /\ \A t \in Tasks :
       Status[t] = IF t \notin accepted THEN "new"
                   ELSE IF t \in dropped THEN "cleared"
                   ELSE IF t \in Begun THEN "begun" ELSE "accepted"
  BY DEF Status

\* What has begun is with a worker or over, and is nowhere else.
LEMMA BegunIs ==
  ASSUME IInv, PlacesInv
  PROVE  /\ \A t : t \in Begun <=> t \in Over \/ (t # None /\ \E w \in Workers : hand[w] = t)
         /\ Begun \subseteq accepted
         /\ Begun \cap (Heap \cup Queue \cup dropped) = {}
         /\ hand[Timer] \notin Begun
<1>1. \A t : t \in Begun <=> t \in Over \/ (t # None /\ \E w \in Workers : hand[w] = t)
  BY DEF Begun, Places, Over
<1>2. \A t : t \in Begun => t \in Over \/ t \in Hands
  BY <1>1 DEF Hands
<1>3. \A w \in Workers : hand[w] # None => hand[w] # hand[Timer]
  BY PoolAssumption DEF PlacesInv, Once
<1>4. None \notin Over /\ hand[Timer] \notin Over
  <2>1. None \notin Over
    BY HandsKnown DEF Over
  <2>2. hand[Timer] # None => hand[Timer] \in Hands
    BY DEF Hands
  <2> QED
    BY <2>1, <2>2 DEF PlacesInv, Apart
<1>5. hand[Timer] \notin Begun
  BY <1>1, <1>3, <1>4
<1> QED
  BY <1>1, <1>2, <1>5 DEF PlacesInv, Apart

\* As long as no worker's hand and no count changes, what has begun does not.
LEMMA BegunStays ==
  ASSUME UNCHANGED runs, \A w \in Workers : hand'[w] = hand[w]
  PROVE  Begun' = Begun
<1>1. Over' = Over
  BY DEF Over
<1>2. {hand'[w] : w \in Workers} = {hand[w] : w \in Workers}
  OBVIOUS
<1> QED
  BY <1>1, <1>2 DEF Begun, Places, Over

\* What the abstract executor sees of tasks that do not move.
LEMMA StatusStays ==
  ASSUME UNCHANGED <<accepted, dropped>>, Begun' = Begun
  PROVE  Status' = Status
  BY DEF Status

\* The initial states are those of DelayedExecutor.
LEMMA InitRefines == Init => DE!Init
<1> SUFFICES ASSUME Init PROVE DE!Init
  OBVIOUS
<1>1. Status = [t \in Tasks |-> "new"]
  BY DEF Init, Status
<1> QED
  BY <1>1 DEF Init, DE!Init

\* Steps that move no task are stutters of DelayedExecutor.
LEMMA StillRefines ==
  ASSUME IInv, Still, \/ UNCHANGED <<stop, now>>
                      \/ Tick
                      \/ \E c \in Clients : Shutdown(c)
  PROVE  [DE!Next]_(DE!vars)
<1>1. Status' = Status
  BY BegunStays, StatusStays DEF Still
<1>2. CASE UNCHANGED <<stop, now>>
  BY <1>1, <1>2 DEF Still, DE!vars
<1>3. CASE Tick
  BY <1>1, <1>3 DEF Still, Tick, DE!Tick, DE!Next
<1>4. CASE \E c \in Clients : Shutdown(c)
  BY <1>1, <1>4 DEF Still, Shutdown, DE!Close, DE!Next
<1> QED
  BY <1>2, <1>3, <1>4

\* execute() accepts, or refuses once stop_ is set.
LEMMA ExecuteRefines ==
  ASSUME IInv, PlacesInv, NEW c \in Clients, NEW t \in Tasks,
         \/ t \in Immediate /\ Execute(c, t)
         \/ t \in Delayed /\ ExecuteDelayed(c, t)
  PROVE  DE!Next
<1>1. /\ ~stop /\ t \notin accepted /\ accepted' = accepted \cup {t}
      /\ UNCHANGED <<stop, now, hand, runs, dropped>>
  BY DEF Execute, ExecuteDelayed, Fresh
<1>2. Begun' = Begun /\ t \notin Begun /\ t \notin dropped
  BY <1>1, BegunStays, BegunIs DEF PlacesInv, Apart
<1>3. DE!Move(t, "new", "accepted")
  <2>1. Status[t] = "new"
    BY <1>1, StatusIs
  <2>2. Status' = [Status EXCEPT ![t] = "accepted"]
    BY <1>1, <1>2 DEF Status
  <2> QED
    BY <2>1, <2>2 DEF DE!Move
<1>4. CASE t \in Immediate /\ Execute(c, t)
  <2>1. UNCHANGED delayed
    BY <1>4 DEF Execute
  <2> QED
    BY <1>1, <1>3, <2>1 DEF DE!Accept, DE!Next
<1>5. CASE t \in Delayed /\ ExecuteDelayed(c, t)
  <2>1. delayed' = delayed \cup {[at |-> now + Delay[t], task |-> t]}
    BY <1>5 DEF ExecuteDelayed
  <2>2. Delay[t] \in {Delay[u] : u \in Delayed}
    BY <1>5
  <2> QED
    BY <1>1, <1>3, <2>1, <2>2 DEF DE!AcceptDelayed, DE!Next
<1> QED
  BY <1>4, <1>5

\* The timer pops a task when its time has come.
LEMMA TimerPopsRefines ==
  ASSUME IInv, TimerPops
  PROVE  DE!Next
<1>1. PICK d \in Due : /\ delayed' = delayed \ {d}
                       /\ hand' = [hand EXCEPT ![Timer] = d.task]
  BY DEF TimerPops
<1>2. UNCHANGED <<stop, now, accepted, dropped, runs>>
  BY DEF TimerPops
<1>3. \A w \in Workers : hand'[w] = hand[w]
  BY <1>1, HandsKnown, PoolAssumption
<1>4. Status' = Status
  BY <1>2, <1>3, BegunStays, StatusStays
<1> QED
  BY <1>1, <1>2, <1>4 DEF Due, DE!Due, DE!FallDue, DE!Next

\* A task that the timer submits stays accepted, or is thrown away.
LEMMA TimerSubmitsRefines ==
  ASSUME IInv, PlacesInv, TimerSubmits
  PROVE  [DE!Next]_(DE!vars)
<1> DEFINE k == hand[Timer]
<1>1. /\ UNCHANGED <<stop, delayed, now, accepted, runs>>
      /\ hand' = [hand EXCEPT ![Timer] = None]
      /\ IF stop THEN dropped' = dropped \cup {k} ELSE UNCHANGED dropped
  BY DEF TimerSubmits
<1>2. k \in Tasks /\ k # None
  BY HandsKnown DEF TimerSubmits
<1>3. \A w \in Workers : hand'[w] = hand[w]
  BY <1>1, HandsKnown, PoolAssumption
<1>4. Begun' = Begun /\ k \notin Begun
  BY <1>1, <1>3, BegunStays, BegunIs
<1>5. k \in accepted /\ k \notin dropped /\ k \notin Heap
  <2>1. k \in Hands
    BY <1>2 DEF Hands
  <2> QED
    BY <2>1 DEF PlacesInv, Apart
<1> HIDE DEF k
<1>6. CASE ~stop
  <2>1. Status' = Status
    BY <1>1, <1>4, <1>6, StatusStays
  <2> QED
    BY <1>1, <2>1 DEF DE!vars
<1>7. CASE stop
  <2>1. Status[k] = "accepted"
    BY <1>2, <1>4, <1>5, StatusIs
  <2>2. Status' = [t \in Tasks |-> IF t \in {k} THEN "cleared" ELSE Status[t]]
    BY <1>1, <1>4, <1>5, <1>7 DEF Status
  <2>3. {d \in delayed : d.task \notin {k}} = delayed
    BY <1>5 DEF Heap
  <2>4. DE!ThrowAway({k})
    BY <1>1, <1>7, <2>1, <2>2, <2>3 DEF DE!ThrowAway
  <2> QED
    BY <1>2, <2>4 DEF DE!Next
<1> QED
  BY <1>6, <1>7

\* A worker that takes a task begins it.
LEMMA WorkerTakesRefines ==
  ASSUME IInv, PlacesInv, NEW w \in Workers, WorkerTakes(w)
  PROVE  DE!Next
<1> DEFINE k == Head(tasks)
<1>1. /\ tasks # <<>> /\ hand' = [hand EXCEPT ![w] = k] /\ pc[w] = "top"
      /\ UNCHANGED <<stop, delayed, now, accepted, runs, dropped>>
  BY DEF WorkerTakes, Goto
<1>2. tasks \in Seq(Tasks) /\ IsInjective(tasks)
  BY HandsKnown DEF PlacesInv, Once
<1>3. k \in Tasks /\ k \in Queue
  BY <1>1, <1>2, TailProperties, ToSetProperties DEF Queue
<1>4. k \in accepted /\ k \notin dropped /\ k \notin Heap /\ k \notin Begun
  BY <1>3, BegunIs DEF PlacesInv, Apart
<1>5. hand[w] = None /\ k # None
  BY <1>1, <1>3, HandsKnown DEF IInv, ThreadsInv, HandsFull
<1> HIDE DEF k
<1>6. \A v \in Workers : hand'[v] = IF v = w THEN k ELSE hand[v]
  BY <1>1, HandsKnown
<1>7. Begun' = Begun \cup {k}
  <2>1. Over' = Over
    BY <1>1 DEF Over
  <2>2. \A t : t \in Begun' <=> t \in Over' \/ (t # None /\ \E v \in Workers : hand'[v] = t)
    BY DEF Begun, Places, Over
  <2>3. \A t : t \in Begun' <=> t \in Begun \/ t = k
    BY <1>5, <1>6, <2>1, <2>2, BegunIs
  <2> QED
    BY <2>3
<1>8. DE!Move(k, "accepted", "begun")
  <2>1. Status[k] = "accepted"
    BY <1>3, <1>4, StatusIs
  <2>2. Status' = [Status EXCEPT ![k] = "begun"]
    BY <1>1, <1>4, <1>7 DEF Status
  <2> QED
    BY <2>1, <2>2 DEF DE!Move
<1>9. DE!Of(k) = {}
  BY <1>4 DEF DE!Of, Heap
<1>10. DE!Begin(k)
  BY <1>1, <1>8, <1>9 DEF DE!Begin
<1> QED
  BY <1>3, <1>10 DEF DE!Next

\* That the task has run is not seen from outside.
LEMMA WorkerRunsRefines ==
  ASSUME IInv, PlacesInv, NEW w \in Workers, WorkerRuns(w)
  PROVE  UNCHANGED DE!vars
<1> DEFINE k == hand[w]
<1>1. /\ runs' = [runs EXCEPT ![k] = @ + 1] /\ hand' = [hand EXCEPT ![w] = None]
      /\ UNCHANGED <<stop, delayed, now, accepted, dropped>>
  BY DEF WorkerRuns
<1>2. k \in Tasks /\ k # None /\ runs \in [Tasks -> Nat]
  BY HandsKnown DEF WorkerRuns, Goto
<1>3. \A v \in Workers : hand[v] = k => v = w
  BY <1>2 DEF PlacesInv, Once
<1> HIDE DEF k
<1>4. \A v \in Workers : hand'[v] = IF v = w THEN None ELSE hand[v]
  BY <1>1, HandsKnown
<1>5. \A t : t \in Over' <=> t \in Over \/ t = k
  BY <1>1, <1>2 DEF Over
<1>6. Begun' = Begun
  <2>1. \A t : t \in Begun' <=> t \in Over' \/ (t # None /\ \E v \in Workers : hand'[v] = t)
    BY DEF Begun, Places, Over
  <2>2. hand[w] = k
    BY DEF k
  <2>3. \A t : t \in Begun' <=> t \in Begun
    BY <1>2, <1>3, <1>4, <1>5, <2>1, <2>2, BegunIs
  <2> QED
    BY <2>3
<1>7. Status' = Status
  BY <1>1, <1>6, StatusStays
<1> QED
  BY <1>1, <1>7 DEF DE!vars

\* Every step maps to one of DelayedExecutor or to a stutter.
LEMMA StepRefines == IInv /\ PlacesInv /\ [Next]_vars => [DE!Next]_(DE!vars)
<1> SUFFICES ASSUME IInv, PlacesInv, [Next]_vars PROVE [DE!Next]_(DE!vars)
  OBVIOUS
<1>1. CASE Still /\ (UNCHANGED <<stop, now>> \/ Tick \/ \E c \in Clients : Shutdown(c))
  BY <1>1, StillRefines
<1>2. CASE \E c \in Clients : \/ \E t \in Immediate : Execute(c, t)
                              \/ \E t \in Delayed : ExecuteDelayed(c, t)
  BY <1>2, ExecuteRefines, HandsKnown
<1>3. CASE TimerPops \/ TimerSubmits
  BY <1>3, TimerPopsRefines, TimerSubmitsRefines
<1>4. CASE \E w \in Workers : WorkerTakes(w) \/ WorkerRuns(w)
  BY <1>4, WorkerTakesRefines, WorkerRunsRefines
<1> QED
  BY <1>1, <1>2, <1>3, <1>4, OthersStill

\* The pool implements DelayedExecutor, whatever its threads and tasks: a task
\* begins once at most, not before its time, and not at all once it was dropped.
THEOREM PoolRefinesDelayedExecutor == Spec => ImplementsDelayedExecutor
  BY PoolIsInductive, PlacesInductive, InitRefines, StepRefines, PTL
     DEF Spec, ImplementsDelayedExecutor, DE!Spec
==============================================================================
