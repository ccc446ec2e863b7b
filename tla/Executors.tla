------------------------------ MODULE Executors ------------------------------
(***************************************************************************)
(* The executors other than the thread pool.                               *)
(*   looper       LooperExecutor (executors/looper_executor.h): a thread   *)
(*                with a queue and a queue of delayed tasks                *)
(*   timer        TimerScheduler (schedulers/timer_scheduler.hpp): a       *)
(*                thread with a queue of delayed tasks                     *)
(*   async        AsyncExecutor: the caller waits for the std::async       *)
(*                whose future it throws away                              *)
(*   new_thread   NewThreadExecutor: a detached thread for each task       *)
(*   noop         NoopExecutor: the caller runs the task                   *)
(* new_thread and noop delay a task in a detached thread (executor.h).     *)
(***************************************************************************)
EXTENDS SequencesExt, FiniteSets, Integers

CONSTANTS
  Tasks,
  Delays,
  MaxTime  \* bound of the clock

ASSUME ExecutorsAssumption == Delays \subseteq Nat /\ 0 \in Delays /\ MaxTime \in Nat

VARIABLES
  kind,           \* which of the executors it is
  now,            \* the clock
  is_active,
  status,         \* where each task is
  due,            \* when each accepted task may run
  tasks_,         \* looper: the tasks that may run
  delayed,        \* the tasks in the queue of delayed tasks
  worker,         \* where the executor's thread is
  pushing,        \* timer: schedule() has found is_active set, and holds the
                  \* queue's lock, but has still to push this task
  unnotified,     \* a caller has queued a task and has still to notify
  prompt,         \* the clock does not move meanwhile
  top,            \* timer: the task at the top of the queue when it looked
  stopper         \* where the thread that calls shutdown is

queues == <<tasks_, delayed>>
config == <<kind, prompt>>
vars == <<config, now, is_active, status, due, queues, worker, pushing, unnotified, top, stopper>>

Kinds == {"looper", "timer", "async", "new_thread", "noop"}
Threaded == kind \in {"looper", "timer"}

Init ==
  /\ kind \in Kinds
  /\ prompt \in BOOLEAN
  /\ pushing = {}
  /\ unnotified = FALSE
  /\ now = 0
  /\ is_active = TRUE
  /\ status = [t \in Tasks |-> "new"]
  /\ due = [t \in Tasks |-> 0]
  /\ tasks_ = <<>>
  /\ delayed = {}
  /\ worker = "checking"
  /\ top \in Tasks
  /\ stopper = "idle"

Empty == tasks_ = <<>> /\ delayed = {}
Soonest(S) == {t \in S : \A u \in S : due[t] <= due[u]}
Become(S, what) == status' = [t \in Tasks |-> IF t \in S THEN what ELSE status[t]]

\* notify_one: the looper's thread, if it waits, looks at its queues again; the
\* timer's goes on from where it waits.
Notify ==
  worker' = CASE worker = "waiting" -> IF kind = "looper" THEN "entering" ELSE "woken"
              [] worker = "timed" -> "checking"
              [] OTHER -> worker

-----------------------------------------------------------------------------
(***************************************************************************)
(* The callers.                                                            *)
(***************************************************************************)
\* One caller at a time.  It notifies before it comes back; std::async's future
\* is thrown away, and its destructor waits for the task.
CallerBusy ==
  \/ pushing # {} \/ unnotified
  \/ kind = "async" /\ \E t \in Tasks : status[t] = "accepted"

\* execute (d = 0), execute_delayed and TimerScheduler::schedule find the executor
\* active.  The timer tests is_active, which shutdown clears without the lock,
\* before it pushes the task; the others do both in one step.
Accept(t, d) ==
  /\ status[t] = "new" /\ is_active /\ ~CallerBusy
  /\ ~(kind = "noop" /\ d = 0)
  /\ now + d <= MaxTime
  /\ Become({t}, "accepted")
  /\ due' = [due EXCEPT ![t] = now + d]
  /\ CASE kind = "timer" ->
            pushing' = {t} /\ UNCHANGED <<queues, unnotified>>
       [] kind = "looper" /\ d = 0 ->
            tasks_' = Append(tasks_, t) /\ unnotified' = TRUE /\ UNCHANGED <<delayed, pushing>>
       [] OTHER ->
            delayed' = delayed \cup {t} /\ unnotified' = Threaded /\ UNCHANGED <<tasks_, pushing>>
  /\ UNCHANGED <<config, now, is_active, worker, top, stopper>>

\* Mutant: the timer is only notified when its queue was empty.
NeedNotifyFirst(t) == delayed = {}

\* The timer is only notified of a task before all others.
NeedNotify(t) == \A u \in delayed : due[t] < due[u]

\* schedule() pushes the task, whatever shutdown and the timer's thread, which read
\* and write is_active without the lock, have done since it was tested.
Push(t) ==
  /\ t \in pushing
  /\ pushing' = {}
  /\ delayed' = delayed \cup {t}
  /\ unnotified' = NeedNotify(t)
  /\ UNCHANGED <<config, now, is_active, status, due, tasks_, worker, top, stopper>>

\* cv_.notify_one(), with the lock released.
NotifyOne ==
  /\ unnotified
  /\ unnotified' = FALSE
  /\ Notify
  /\ UNCHANGED <<config, now, is_active, status, due, queues, pushing, top, stopper>>

\* NoopExecutor::execute.
RunInline(t) ==
  /\ kind = "noop" /\ status[t] = "new"
  /\ Become({t}, "ran")
  /\ due' = [due EXCEPT ![t] = now]
  /\ UNCHANGED <<config, now, is_active, queues, worker, pushing, unnotified, top, stopper>>

\* A task handed over after shutdown is dropped in silence.
Refuse(t) ==
  /\ status[t] = "new" /\ ~is_active /\ pushing = {}
  /\ Become({t}, "refused")
  /\ UNCHANGED <<config, now, is_active, due, queues, worker, pushing, unnotified, top, stopper>>

\* A std::async, or a detached thread, sleeps and runs its task.
RunDetached(t) ==
  /\ ~Threaded /\ status[t] = "accepted" /\ due[t] <= now
  /\ Become({t}, "ran")
  /\ delayed' = delayed \ {t}
  /\ UNCHANGED <<config, now, is_active, due, tasks_, worker, pushing, unnotified, top, stopper>>

\* The looper clears is_active under the lock and notifies.
ShutdownLooper ==
  /\ kind = "looper" /\ stopper = "idle"
  /\ is_active' = FALSE
  /\ Notify
  /\ stopper' = "joining"
  /\ UNCHANGED <<config, now, status, due, queues, pushing, unnotified, top>>

\* The timer clears is_active without the lock, clears the queue under the lock
\* if it is not to be waited for, and notifies without the lock.
ShutdownTimer ==
  /\ kind = "timer" /\ stopper = "idle"
  /\ is_active' = FALSE
  /\ stopper' \in {"clearing", "notifying"}
  /\ UNCHANGED <<config, now, status, due, queues, worker, pushing, unnotified, top>>

ClearQueue ==
  /\ stopper = "clearing" /\ pushing = {}
  /\ Become(delayed, "cleared")
  /\ delayed' = {}
  /\ stopper' = "notifying"
  /\ UNCHANGED <<config, now, is_active, due, tasks_, worker, pushing, unnotified, top>>

NotifyAll ==
  /\ stopper = "notifying"
  /\ Notify
  /\ stopper' = "joining"
  /\ UNCHANGED <<config, now, is_active, status, due, queues, pushing, unnotified, top>>

Shutdown == ShutdownLooper \/ ShutdownTimer

\* join() in the destructor.
Join ==
  /\ stopper = "joining" /\ worker = "exited"
  /\ stopper' = "done"
  /\ UNCHANGED <<config, now, is_active, status, due, queues, worker, pushing, unnotified, top>>

-----------------------------------------------------------------------------
(***************************************************************************)
(* The executor's thread.                                                  *)
(***************************************************************************)
\* The condition of the loop, read without the lock: the timer's thread may find
\* it false and exit when schedule() is about to push a task.
Check ==
  /\ Threaded /\ worker = "checking"
  /\ worker' = IF is_active \/ ~Empty THEN "entering" ELSE "exited"
  /\ UNCHANGED <<config, now, is_active, status, due, queues, pushing, unnotified, top, stopper>>

\* Mutant: a delayed task counts as ready a moment too early.
ReadyEarly == {t \in delayed : due[t] <= now + 1}

Ready == {t \in delayed : due[t] <= now}

\* The tasks of a set in the order in which the priority queue gives them out.
InOrder(S) ==
  {s \in [1 .. Cardinality(S) -> S] :
     /\ ToSet(s) = S /\ IsInjective(s)
     /\ \A i, j \in DOMAIN s : i < j => due[s[i]] <= due[s[j]]}

\* The first of the tasks that may run is run.
RunFirst(runnable) ==
  /\ tasks_' = Tail(runnable)
  /\ Become({Head(runnable)}, "running")
  /\ worker' = "running"

\* Mutant: a delayed task that is ready is copied to tasks_ and stays queued.
EnterLooperCopying ==
  /\ kind = "looper" /\ worker = "entering"
  /\ \E ready \in InOrder(Ready) : tasks_ \o ready # <<>> /\ RunFirst(tasks_ \o ready)
  /\ UNCHANGED <<config, now, is_active, due, delayed, pushing, unnotified, top, stopper>>

\* The looper, under the lock: it waits if there is nothing, or ends; it moves
\* what is ready to tasks_, and runs the first of these.  wait_for, whose
\* predicate is true as soon as there is a delayed task, does not wait.
EnterLooper ==
  /\ kind = "looper" /\ worker = "entering"
  /\ delayed' = delayed \ Ready
  /\ IF tasks_ # <<>> \/ Ready # {}
     THEN \E ready \in InOrder(Ready) : RunFirst(tasks_ \o ready)
     ELSE /\ worker' = IF delayed # {} THEN "checking"
                       ELSE IF is_active THEN "waiting" ELSE "exited"
          /\ UNCHANGED <<tasks_, status>>
  /\ UNCHANGED <<config, now, is_active, due, pushing, unnotified, top, stopper>>

\* The timer, under the lock: it waits if there is nothing, until the time of
\* the first task, or pops and runs that task.
EnterTimer ==
  /\ kind = "timer" /\ worker \in {"entering", "woken"} /\ pushing = {}
  /\ IF delayed = {}
     THEN worker' = (IF worker = "woken" THEN "checking" ELSE "waiting")
          /\ UNCHANGED <<status, delayed, top>>
     ELSE \E t \in Soonest(delayed) :
            /\ top' = t
            /\ IF due[t] > now
               THEN worker' = "timed" /\ UNCHANGED <<status, delayed>>
               ELSE worker' = "running" /\ Become({t}, "running") /\ delayed' = delayed \ {t}
  /\ UNCHANGED <<config, now, is_active, due, tasks_, pushing, unnotified, stopper>>

\* wait_for times out: what is popped is the queue's first task by now, what
\* runs is the task that was first before.  Nothing is known of a pop from a
\* queue that shutdown has cleared meanwhile.
Timeout ==
  /\ worker = "timed" /\ due[top] <= now /\ pushing = {}
  /\ IF delayed = {}
     THEN worker' = "undefined" /\ UNCHANGED <<status, delayed>>
     ELSE /\ \E t \in IF top \in Soonest(delayed) THEN {top} ELSE Soonest(delayed) :
               delayed' = delayed \ {t}
          /\ Become({top}, "running")
          /\ worker' = "running"
  /\ UNCHANGED <<config, now, is_active, due, tasks_, pushing, unnotified, top, stopper>>

\* The task returns, and the thread goes round again.
Ran ==
  /\ worker = "running"
  /\ status' = [t \in Tasks |-> IF status[t] = "running" THEN "ran" ELSE status[t]]
  /\ worker' = "checking"
  /\ UNCHANGED <<config, now, is_active, due, queues, pushing, unnotified, top, stopper>>

WorkerStep == Check \/ EnterLooper \/ EnterTimer \/ Timeout \/ Ran

\* Nothing that may come between schedule()'s test and its push reads the clock,
\* which therefore does not move there.
Tick ==
  /\ now < MaxTime /\ pushing = {}
  /\ prompt => ~unnotified
  /\ now' = now + 1
  /\ UNCHANGED <<config, is_active, status, due, queues, worker, pushing, unnotified, top, stopper>>

Next ==
  \/ \E t \in Tasks : (\E d \in Delays : Accept(t, d)) \/ Push(t) \/ RunInline(t) \/ Refuse(t) \/ RunDetached(t)
  \/ NotifyOne \/ Shutdown \/ ClearQueue \/ NotifyAll \/ Join
  \/ WorkerStep \/ Tick

Spec == Init /\ [][Next]_vars

\* The clock and every thread go on; nobody has to hand a task over or to call
\* shutdown.
Fairness ==
  /\ \A t \in Tasks : WF_vars(Push(t)) /\ WF_vars(RunDetached(t))
  /\ WF_vars(NotifyOne) /\ WF_vars(ClearQueue) /\ WF_vars(NotifyAll) /\ WF_vars(Join)
  /\ WF_vars(WorkerStep) /\ WF_vars(Tick)

FairSpec == Spec /\ Fairness

-----------------------------------------------------------------------------
Statuses == {"new", "accepted", "refused", "running", "ran", "cleared"}

TypeOK ==
  /\ kind \in Kinds
  /\ prompt \in BOOLEAN
  /\ now \in 0 .. MaxTime
  /\ is_active \in BOOLEAN
  /\ status \in [Tasks -> Statuses]
  /\ due \in [Tasks -> 0 .. MaxTime]
  /\ tasks_ \in Seq(Tasks)
  /\ delayed \in SUBSET Tasks
  /\ worker \in {"checking", "entering", "waiting", "woken", "timed", "running", "exited",
                 "undefined"}
  /\ pushing \subseteq Tasks
  /\ unnotified \in BOOLEAN
  /\ top \in Tasks
  /\ stopper \in {"idle", "clearing", "notifying", "joining", "done"}

\* Every accepted task is in one of the queues or about to be pushed, once, and
\* only such tasks are.
Accounted ==
  /\ {t \in Tasks : status[t] = "accepted"} = ToSet(tasks_) \cup delayed \cup pushing
  /\ ToSet(tasks_) \cap delayed = {} /\ IsInjective(tasks_)
  /\ (ToSet(tasks_) \cup delayed) \cap pushing = {}
  /\ worker = "running" <=> \E t \in Tasks : status[t] = "running"

\* Types; and, as long as notifications are prompt, what was accepted is kept
\* (looper_executor.h:62, timer_scheduler.hpp:37).
ExecutorsInv == TypeOK /\ (prompt => Accounted)

Status == [t \in Tasks |-> IF status[t] \in {"running", "ran"} THEN "begun" ELSE status[t]]
Waiting == {[at |-> due[t], task |-> t] : t \in {u \in Tasks : status[u] = "accepted"}}

DE == INSTANCE DelayedExecutor WITH
        open <- is_active, status <- Status, delayed <- Waiting

\* While notifications are prompt every step of an executor is one of
\* DelayedExecutor: no task begins before its time, twice, or once it has been
\* refused or cleared.
ImplementsDelayedExecutor == DE!Init /\ [][prompt => DE!Next]_(DE!vars)

\* The timer's thread has found is_active cleared and the queue empty, and has
\* exited, when schedule() has still to push the task it accepted before
\* (timer_scheduler.hpp:66, 78, 27, 70).
TooLate(t) == t \in pushing /\ worker = "exited"

\* While notifications are prompt an accepted task runs, unless the queue is
\* cleared or the task comes too late: the timer is notified whenever its first
\* task changes, and neither thread leaves anything in its queues after shutdown.
AcceptedRuns ==
  \A t \in Tasks :
    prompt /\ status[t] = "accepted" /\ worker # "exited"
      ~> status[t] \in {"ran", "cleared"} \/ TooLate(t)
=============================================================================
