------------------------- MODULE ThreadPoolExecutor -------------------------
(***************************************************************************)
(* koroutine::ThreadPoolExecutor                                           *)
(* (include/koroutine/executors/thread_pool_executor.h), the executor of   *)
(* SimpleScheduler, which is the default scheduler.                        *)
(*                                                                         *)
(* A critical section is one step, except for the wait of a condition      *)
(* variable: stop_ is an atomic that shutdown() sets without a lock, so a  *)
(* thread that has found the predicate false keeps the lock ("checked")    *)
(* until it blocks, and stop_ may be set in between.                       *)
(***************************************************************************)
EXTENDS SequencesExt, Integers, FiniteSets

CONSTANTS
  Workers,     \* the worker threads
  Timer,       \* the timer thread
  Clients,     \* the threads that call the executor
  Immediate,   \* the functions given to execute()
  Delay,       \* for each function given to execute_delayed(), its ms
  MaxTime,     \* bound: the clock stops here
  None         \* no task, no thread

Delayed == DOMAIN Delay
Tasks == Immediate \cup Delayed
Threads == Workers \cup {Timer} \cup Clients

ASSUME PoolAssumption ==
  /\ Workers # {}
  /\ Timer \notin Workers \cup Clients
  /\ Workers \cap Clients = {}
  /\ Immediate \cap Delayed = {}
  /\ None \notin Tasks \cup Threads
  /\ Delay \in [Delayed -> Nat]
  /\ MaxTime \in Nat

VARIABLES
  stop,       \* stop_
  tasks,      \* tasks_
  delayed,    \* delayed_tasks_: pairs of a time and a task
  queueLock,  \* the thread that holds queue_mutex_ while it goes to sleep
  timerLock,  \* the same for timer_mutex_
  pc,         \* where each thread is
  hand,       \* the task that each worker and the timer thread holds
  until,      \* the time to which the timer thread sleeps
  now         \* the steady clock

\* History: the tasks a caller was not turned away with, those that execute()
\* dropped in the timer thread, and how often each task has been run.
VARIABLES accepted, dropped, runs

vars == <<stop, tasks, delayed, queueLock, timerLock, pc, hand, until, now,
          accepted, dropped, runs>>

Init ==
  /\ stop = FALSE
  /\ tasks = <<>>
  /\ delayed = {}
  /\ queueLock = None
  /\ timerLock = None
  /\ pc = [t \in Threads |-> IF t \in Clients THEN "idle" ELSE "top"]
  /\ hand = [t \in Workers \cup {Timer} |-> None]
  /\ until = 0
  /\ now = 0
  /\ accepted = {}
  /\ dropped = {}
  /\ runs = [t \in Tasks |-> 0]

Goto(t, from, to) ==
  /\ pc[t] = from
  /\ pc' = [pc EXCEPT ![t] = to]

Due == {d \in delayed : d.at <= now}
Earliest == {d \in delayed : \A e \in delayed : d.at <= e.at}

-----------------------------------------------------------------------------
(***************************************************************************)
(* A worker: wait until there is a task or the pool stops; run the task.   *)
(***************************************************************************)
\* The predicate of the wait is false; the lock is held.
WorkerFindsNothing(w) ==
  /\ Goto(w, "top", "checked")
  /\ queueLock = None
  /\ tasks = <<>> /\ ~stop
  /\ queueLock' = w
  /\ UNCHANGED <<stop, tasks, delayed, timerLock, hand, until, now, accepted, dropped, runs>>

\* wait() gives the lock back and blocks, in one step.
WorkerBlocks(w) ==
  /\ Goto(w, "checked", "blocked")
  /\ queueLock' = None
  /\ UNCHANGED <<stop, tasks, delayed, timerLock, hand, until, now, accepted, dropped, runs>>

\* Mutant: the task is copied, not moved, out of the queue.
WorkerTakesCopy(w) ==
  /\ Goto(w, "top", "running")
  /\ queueLock = None
  /\ tasks # <<>>
  /\ hand' = [hand EXCEPT ![w] = Head(tasks)]
  /\ UNCHANGED <<stop, tasks, delayed, queueLock, timerLock, until, now, accepted, dropped, runs>>

WorkerTakes(w) ==
  /\ Goto(w, "top", "running")
  /\ queueLock = None
  /\ tasks # <<>>
  /\ hand' = [hand EXCEPT ![w] = Head(tasks)]
  /\ tasks' = Tail(tasks)
  /\ UNCHANGED <<stop, delayed, queueLock, timerLock, until, now, accepted, dropped, runs>>

\* Mutant: a stopped worker leaves whatever is still queued.
WorkerExitsAtOnce(w) ==
  /\ Goto(w, "top", "exited")
  /\ queueLock = None
  /\ stop
  /\ UNCHANGED <<stop, tasks, delayed, queueLock, timerLock, hand, until, now, accepted, dropped, runs>>

WorkerExits(w) ==
  /\ Goto(w, "top", "exited")
  /\ queueLock = None
  /\ stop /\ tasks = <<>>
  /\ UNCHANGED <<stop, tasks, delayed, queueLock, timerLock, hand, until, now, accepted, dropped, runs>>

\* The task returns, or throws and the worker swallows the exception.
WorkerRuns(w) ==
  /\ Goto(w, "running", "top")
  /\ runs' = [runs EXCEPT ![hand[w]] = @ + 1]
  /\ hand' = [hand EXCEPT ![w] = None]
  /\ UNCHANGED <<stop, tasks, delayed, queueLock, timerLock, until, now, accepted, dropped>>

(***************************************************************************)
(* The timer thread.                                                       *)
(***************************************************************************)
TimerFindsNothing ==
  /\ Goto(Timer, "top", "checked")
  /\ timerLock = None
  /\ delayed = {} /\ ~stop
  /\ timerLock' = Timer
  /\ UNCHANGED <<stop, tasks, delayed, queueLock, hand, until, now, accepted, dropped, runs>>

TimerBlocks ==
  /\ Goto(Timer, "checked", "blocked")
  /\ timerLock' = None
  /\ UNCHANGED <<stop, tasks, delayed, queueLock, hand, until, now, accepted, dropped, runs>>

TimerExits ==
  /\ Goto(Timer, "top", "exited")
  /\ timerLock = None
  /\ stop /\ delayed = {}
  /\ UNCHANGED <<stop, tasks, delayed, queueLock, timerLock, hand, until, now, accepted, dropped, runs>>

\* Mutant: the earliest task is taken without a look at the clock.
TimerPopsEarly ==
  /\ Goto(Timer, "top", "submitting")
  /\ timerLock = None
  /\ \E d \in Earliest :
       /\ delayed' = delayed \ {d}
       /\ hand' = [hand EXCEPT ![Timer] = d.task]
  /\ UNCHANGED <<stop, tasks, queueLock, timerLock, until, now, accepted, dropped, runs>>

\* The earliest task is due: off the heap, to be given to execute().
TimerPops ==
  /\ Goto(Timer, "top", "submitting")
  /\ timerLock = None
  /\ \E d \in Earliest \cap Due :
       /\ delayed' = delayed \ {d}
       /\ hand' = [hand EXCEPT ![Timer] = d.task]
  /\ UNCHANGED <<stop, tasks, queueLock, timerLock, until, now, accepted, dropped, runs>>

\* wait_until(the earliest time), which has no predicate.
TimerSleeps ==
  /\ Goto(Timer, "top", "sleeping")
  /\ timerLock = None
  /\ delayed # {} /\ Due = {}
  /\ \E d \in Earliest : until' = d.at
  /\ UNCHANGED <<stop, tasks, delayed, queueLock, timerLock, hand, now, accepted, dropped, runs>>

TimerTimesOut ==
  /\ Goto(Timer, "sleeping", "top")
  /\ now >= until
  /\ UNCHANGED <<stop, tasks, delayed, queueLock, timerLock, hand, until, now, accepted, dropped, runs>>

\* execute() from the timer thread: a stopped pool drops the task.
TimerSubmits ==
  /\ pc[Timer] = "submitting"
  /\ queueLock = None
  /\ hand' = [hand EXCEPT ![Timer] = None]
  /\ IF stop
     THEN /\ dropped' = dropped \cup {hand[Timer]}
          /\ pc' = [pc EXCEPT ![Timer] = "top"]
          /\ UNCHANGED tasks
     ELSE /\ tasks' = Append(tasks, hand[Timer])
          /\ pc' = [pc EXCEPT ![Timer] = "notifyWorker"]
          /\ UNCHANGED dropped
  /\ UNCHANGED <<stop, delayed, queueLock, timerLock, until, now, accepted, runs>>

-----------------------------------------------------------------------------
(***************************************************************************)
(* execute and execute_delayed: the task is stored under the lock, then    *)
(* one waiting thread is notified.  A stopped pool drops the task and      *)
(* changes nothing.  A client may also be a task that runs on a worker.    *)
(***************************************************************************)
Fresh(t) == t \notin accepted

Execute(c, t) ==
  /\ Goto(c, "idle", "notifyWorker")
  /\ queueLock = None
  /\ ~stop /\ Fresh(t)
  /\ tasks' = Append(tasks, t)
  /\ accepted' = accepted \cup {t}
  /\ UNCHANGED <<stop, delayed, queueLock, timerLock, hand, until, now, dropped, runs>>

ExecuteDelayed(c, t) ==
  /\ Goto(c, "idle", "notifyTimer")
  /\ timerLock = None
  /\ ~stop /\ Fresh(t)
  /\ now + Delay[t] <= MaxTime
  /\ delayed' = delayed \cup {[at |-> now + Delay[t], task |-> t]}
  /\ accepted' = accepted \cup {t}
  /\ UNCHANGED <<stop, tasks, queueLock, timerLock, hand, until, now, dropped, runs>>

AfterNotify(t) == IF t = Timer THEN "top" ELSE "idle"

\* condition_.notify_one(): any one of the blocked workers, if there is one.
NotifyWorker(t) ==
  /\ pc[t] = "notifyWorker"
  /\ LET Blocked == {w \in Workers : pc[w] = "blocked"}
     IN  IF Blocked = {}
         THEN pc' = [pc EXCEPT ![t] = AfterNotify(t)]
         ELSE \E w \in Blocked : pc' = [pc EXCEPT ![t] = AfterNotify(t), ![w] = "top"]
  /\ UNCHANGED <<stop, tasks, delayed, queueLock, timerLock, hand, until, now, accepted, dropped, runs>>

TimerAwake == IF pc[Timer] \in {"blocked", "sleeping"} THEN "top" ELSE pc[Timer]

\* Mutant: a delayed task wakes the timer thread only if it has none to wait for.
NotifyTimerIfBlocked(c) ==
  /\ pc[c] = "notifyTimer"
  /\ pc' = [pc EXCEPT ![c] = "idle",
                      ![Timer] = IF @ = "blocked" THEN "top" ELSE @]
  /\ UNCHANGED <<stop, tasks, delayed, queueLock, timerLock, hand, until, now, accepted, dropped, runs>>

NotifyTimer(c) ==
  /\ pc[c] = "notifyTimer"
  /\ pc' = [pc EXCEPT ![c] = "idle", ![Timer] = TimerAwake]
  /\ UNCHANGED <<stop, tasks, delayed, queueLock, timerLock, hand, until, now, accepted, dropped, runs>>

\* A wait may end without a notification.
WakeSpuriously(t) ==
  /\ pc[t] \in {"blocked", "sleeping"}
  /\ pc' = [pc EXCEPT ![t] = "top"]
  /\ UNCHANGED <<stop, tasks, delayed, queueLock, timerLock, hand, until, now, accepted, dropped, runs>>

-----------------------------------------------------------------------------
(***************************************************************************)
(* shutdown().                                                             *)
(***************************************************************************)
\* stop_.exchange(true): only the first caller goes on.
Shutdown(c) ==
  /\ Goto(c, "idle", IF stop THEN "returned" ELSE "crossQueue")
  /\ stop' = TRUE
  /\ UNCHANGED <<tasks, delayed, queueLock, timerLock, hand, until, now, accepted, dropped, runs>>

\* Mutant: the workers are notified without taking queue_mutex_ first.
CrossQueueUnlocked(c) ==
  /\ Goto(c, "crossQueue", "notifyWorkers")
  /\ UNCHANGED <<stop, tasks, delayed, queueLock, timerLock, hand, until, now, accepted, dropped, runs>>

\* The lock is taken and released, with nothing done under it.
CrossQueue(c) ==
  /\ Goto(c, "crossQueue", "notifyWorkers")
  /\ queueLock = None
  /\ UNCHANGED <<stop, tasks, delayed, queueLock, timerLock, hand, until, now, accepted, dropped, runs>>

NotifyWorkers(c) ==
  /\ pc[c] = "notifyWorkers"
  /\ pc' = [t \in Threads |->
              CASE t = c -> "crossTimer"
                [] t \in Workers /\ pc[t] = "blocked" -> "top"
                [] OTHER -> pc[t]]
  /\ UNCHANGED <<stop, tasks, delayed, queueLock, timerLock, hand, until, now, accepted, dropped, runs>>

CrossTimer(c) ==
  /\ Goto(c, "crossTimer", "wakeTimer")
  /\ timerLock = None
  /\ UNCHANGED <<stop, tasks, delayed, queueLock, timerLock, hand, until, now, accepted, dropped, runs>>

WakeTimer(c) ==
  /\ pc[c] = "wakeTimer"
  /\ pc' = [pc EXCEPT ![c] = "joining", ![Timer] = TimerAwake]
  /\ UNCHANGED <<stop, tasks, delayed, queueLock, timerLock, hand, until, now, accepted, dropped, runs>>

Exited == \A t \in Workers \cup {Timer} : pc[t] = "exited"

Join(c) ==
  /\ Goto(c, "joining", "returned")
  /\ Exited
  /\ UNCHANGED <<stop, tasks, delayed, queueLock, timerLock, hand, until, now, accepted, dropped, runs>>

Tick ==
  /\ now < MaxTime
  /\ now' = now + 1
  /\ UNCHANGED <<stop, tasks, delayed, queueLock, timerLock, pc, hand, until, accepted, dropped, runs>>

WorkerStep(w) ==
  \/ WorkerFindsNothing(w) \/ WorkerBlocks(w) \/ WorkerTakes(w)
  \/ WorkerExits(w) \/ WorkerRuns(w)

TimerStep ==
  \/ TimerFindsNothing \/ TimerBlocks \/ TimerExits \/ TimerPops
  \/ TimerSleeps \/ TimerTimesOut \/ TimerSubmits \/ NotifyWorker(Timer)

\* What a caller that is inside the executor does next.
ClientStep(c) ==
  \/ NotifyWorker(c) \/ NotifyTimer(c)
  \/ CrossQueue(c) \/ NotifyWorkers(c) \/ CrossTimer(c) \/ WakeTimer(c) \/ Join(c)

Next ==
  \/ \E w \in Workers : WorkerStep(w)
  \/ TimerStep
  \/ \E c \in Clients :
       \/ ClientStep(c) \/ Shutdown(c)
       \/ \E t \in Immediate : Execute(c, t)
       \/ \E t \in Delayed : ExecuteDelayed(c, t)
  \/ \E t \in Workers \cup {Timer} : WakeSpuriously(t)
  \/ Tick

Spec == Init /\ [][Next]_vars

\* The operating system runs every thread and no mutex starves one that waits
\* for it; tasks return; time passes.
Fairness ==
  /\ \A w \in Workers : WF_vars(WorkerStep(w))
  /\ WF_vars(TimerStep) /\ SF_vars(TimerSubmits)
  /\ \A c \in Clients : WF_vars(ClientStep(c))
  /\ WF_vars(Tick)

FairSpec == Spec /\ Fairness

-----------------------------------------------------------------------------
WorkerPC == {"top", "checked", "blocked", "running", "exited"}
TimerPC == {"top", "checked", "blocked", "sleeping", "submitting", "notifyWorker", "exited"}
ClientPC == {"idle", "notifyWorker", "notifyTimer", "crossQueue", "notifyWorkers",
             "crossTimer", "wakeTimer", "joining", "returned"}

TypeOK ==
  /\ stop \in BOOLEAN
  /\ tasks \in Seq(Tasks)
  /\ delayed \in SUBSET [at : 0 .. MaxTime, task : Delayed]
  /\ queueLock \in Workers \cup {None}
  /\ timerLock \in {Timer, None}
  /\ pc \in [Threads -> WorkerPC \cup TimerPC \cup ClientPC]
  /\ \A w \in Workers : pc[w] \in WorkerPC
  /\ pc[Timer] \in TimerPC
  /\ \A c \in Clients : pc[c] \in ClientPC
  /\ hand \in [Workers \cup {Timer} -> Tasks \cup {None}]
  /\ hand[Timer] \in Delayed \cup {None}
  /\ until \in 0 .. MaxTime
  /\ now \in 0 .. MaxTime
  /\ accepted \in SUBSET Tasks
  /\ dropped \in SUBSET Delayed
  /\ runs \in [Tasks -> Nat]

\* Who holds a lock while it goes to sleep.
LocksHeld ==
  /\ \A w \in Workers : pc[w] = "checked" <=> queueLock = w
  /\ pc[Timer] = "checked" <=> timerLock = Timer

\* A thread holds a task exactly while it has one to run or to submit.
HandsFull ==
  /\ \A w \in Workers : hand[w] # None <=> pc[w] = "running"
  /\ hand[Timer] # None <=> pc[Timer] = "submitting"

ThreadsInv == TypeOK /\ LocksHeld /\ HandsFull

\* Nothing is left in the queue by the time the first worker is gone, although
\* stop_ is set without the lock: what execute() accepted is never stranded.
NothingStranded ==
  (\E w \in Workers : pc[w] = "exited") => stop /\ tasks = <<>>

\* While a task is queued not every worker sleeps, or a notification is coming.
NoLostWakeup ==
  tasks # <<>> /\ (\A w \in Workers : pc[w] = "blocked")
    => \E t \in Threads : pc[t] \in {"notifyWorker", "crossQueue", "notifyWorkers"}

\* The timer thread does not sleep past the time of a task, unless a
\* notification is coming: a task sooner than the rest must wake it.
TimerNeverOversleeps ==
  \A d \in delayed :
    pc[Timer] = "blocked" \/ (pc[Timer] = "sleeping" /\ until > d.at)
      => \E c \in Clients : pc[c] \in {"notifyTimer", "crossQueue", "notifyWorkers", "crossTimer", "wakeTimer"}

\* Nobody sleeps while there is something to do and nobody about to say so: a
\* predicate is tested and its thread blocked under the lock that the caller
\* takes before it notifies (thread_pool_executor.h:50, 84, 103).
NobodyOversleeps == NoLostWakeup /\ TimerNeverOversleeps

\* Where the tasks are that were accepted, in the order they go through it.
Places ==
  [heap    |-> {d.task : d \in delayed},
   queue   |-> ToSet(tasks),
   hands   |-> {hand[t] : t \in Workers \cup {Timer}} \ {None},
   over    |-> {t \in Tasks : runs[t] > 0},
   dropped |-> dropped]

\* Each accepted task is in one place, once: it goes from the heap through the
\* timer thread's hands and the queue into a worker's, under two mutexes and
\* none (thread_pool_executor.h:49-67, 89-121), and none is lost or doubled.
EachInOnePlace ==
  /\ accepted = UNION {Places[p] : p \in DOMAIN Places}
  /\ \A p, q \in DOMAIN Places : p # q => Places[p] \cap Places[q] = {}
  /\ \A d, e \in delayed : d.task = e.task => d = e
  /\ IsInjective(tasks)
  /\ \A s, t \in Workers \cup {Timer} : hand[s] = hand[t] /\ hand[s] # None => s = t
  /\ \A t \in Tasks : runs[t] <= 1

\* Types, what each thread holds, and where each task is.
PoolInv == ThreadsInv /\ EachInOnePlace

Begun == Places.over \cup ({hand[w] : w \in Workers} \ {None})

Status ==
  [t \in Tasks |->
     IF t \notin accepted THEN "new"
     ELSE IF t \in dropped THEN "cleared"
     ELSE IF t \in Begun THEN "begun" ELSE "accepted"]

DE == INSTANCE DelayedExecutor WITH
        Delays <- {Delay[t] : t \in Delayed}, open <- ~stop, status <- Status

\* Every step of the pool is a step of DelayedExecutor or a stutter: no task
\* begins before its time, twice, or once it was dropped.
ImplementsDelayedExecutor == DE!Spec

\* A task that execute() accepted is run once, also when the pool is shut down;
\* a delayed task is run once unless the pool is shut down before.
AcceptedRuns ==
  /\ \A t \in Immediate : t \in accepted ~> [](runs[t] = 1)
  /\ \A t \in Delayed : t \in accepted ~> [](runs[t] = 1) \/ stop

\* shutdown() returns: no thread of the pool sleeps through it.
ShutdownReturns ==
  \A c \in Clients : pc[c] = "crossQueue" ~> pc[c] = "returned"
=============================================================================
