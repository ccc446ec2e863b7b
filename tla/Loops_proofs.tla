--------------------------- MODULE Loops_proofs ---------------------------
(***************************************************************************)
(* The components that are a loop over queues: the executors other than    *)
(* the pool, and the IO engines.  No loop loses, repeats or mixes up what  *)
(* it is given, for any number of tasks and operations.                    *)
(***************************************************************************)
EXTENDS Executors, IOEngines, SequenceLemmas, FiniteSetTheorems

-----------------------------------------------------------------------------
(***************************************************************************)
(* The looper, the timer and the executors without a thread of their own   *)
(* neither lose nor repeat a task, and start none before its time, for any *)
(* number of tasks and any delays, as long as notifications are prompt.    *)
(***************************************************************************)
\* What the timer's thread will pop when its wait times out is what it waits
\* for, unless the queue was cleared or a notification is coming.
WaitsForTop ==
  worker = "timed" =>
    /\ kind = "timer"
    /\ \/ delayed = {} /\ ~is_active /\ pushing = {}
       \/ top \in Soonest(delayed)
       \/ unnotified /\ top \in delayed /\ due[top] > now

\* What the looper has moved to tasks_ may run.
MovedAreDue == \A t \in ToSet(tasks_) : due[t] <= now

\* Only a task of the timer is between schedule()'s test and its push, and its
\* time cannot pass there.
PushingOK ==
  \A t \in pushing : pushing = {t} /\ kind = "timer" /\ ~unnotified /\ now <= due[t]

\* The inductive invariant.
LoopInv ==
  /\ TypeOK
  /\ IsFiniteSet(delayed)
  /\ kind # "looper" => tasks_ = <<>>
  /\ ~is_active => Threaded
  /\ stopper = "clearing" => kind = "timer" /\ ~is_active
  /\ PushingOK
  /\ prompt => Accounted /\ WaitsForTop /\ MovedAreDue

\* At the start the queues are empty and nothing runs.
LEMMA InitLoopInv == ASSUME ExecutorsAssumption, Init PROVE LoopInv
<1>1. tasks_ \in Seq(Tasks) /\ ToSet(tasks_) = {} /\ IsInjective(tasks_)
  BY EmptySeq DEF Init, ToSet, IsInjective
<1>2. 0 \in 0 .. MaxTime
  BY DEF ExecutorsAssumption
<1>3. TypeOK
  BY <1>1, <1>2 DEF Init, TypeOK, Statuses
<1>4. Accounted
  BY <1>1 DEF Init, Accounted
<1> QED
  BY <1>1, <1>3, <1>4, FS_EmptySet DEF Init, LoopInv, WaitsForTop, MovedAreDue, PushingOK

\* A step that leaves the tasks and the queues alone, and runs nothing.
IdleStep ==
  /\ UNCHANGED <<config, status, due, queues, pushing, top>>
  /\ worker' = "running" <=> worker = "running"

\* Such a step leaves every task accounted for.
LEMMA IdleAccounted == ASSUME IdleStep PROVE Accounted => Accounted'
  BY DEF IdleStep, Accounted, queues

\* A notification makes a thread look again; it never starts a task.
LEMMA NotifyIdle ==
  ASSUME TypeOK, Notify
  PROVE  /\ worker' = "running" <=> worker = "running"
         /\ worker' # "timed"
         /\ worker' \in {"checking", "entering", "waiting", "woken", "timed", "running",
                         "exited", "undefined"}
<1>1. CASE worker = "waiting"
  BY <1>1 DEF Notify
<1>2. CASE worker = "timed"
  BY <1>2 DEF Notify
<1>3. CASE worker # "waiting" /\ worker # "timed"
  <2>1. worker' = worker
    BY <1>3 DEF Notify
  <2> QED
    BY <1>3, <2>1 DEF TypeOK
<1> QED
  BY <1>1, <1>2, <1>3

\* The steps that only wake or stop a thread, or the clock.
LEMMA IdlePreserves ==
  ASSUME ExecutorsAssumption, LoopInv,
         NotifyOne \/ Shutdown \/ NotifyAll \/ Join \/ Check \/ Tick
  PROVE  LoopInv'
<1>1. ASSUME NotifyOne \/ ShutdownLooper \/ NotifyAll
      PROVE  IdleStep /\ TypeOK' /\ worker' # "timed" /\ UNCHANGED now
  <2>1. Notify /\ UNCHANGED <<config, now, status, due, queues, pushing, top>>
    BY <1>1 DEF NotifyOne, ShutdownLooper, NotifyAll
  <2>2. /\ unnotified' \in BOOLEAN /\ is_active' \in BOOLEAN
        /\ stopper' \in {"idle", "clearing", "notifying", "joining", "done"}
    BY <1>1 DEF NotifyOne, ShutdownLooper, NotifyAll, LoopInv, TypeOK
  <2>3. TypeOK
    BY DEF LoopInv
  <2> QED
    BY <2>1, <2>2, <2>3, NotifyIdle DEF IdleStep, TypeOK, config, queues
<1>2. ASSUME ShutdownTimer \/ Join
      PROVE  IdleStep /\ TypeOK' /\ UNCHANGED <<now, worker, unnotified>>
  BY <1>2 DEF ShutdownTimer, Join, IdleStep, LoopInv, TypeOK, config, queues
<1>3. ASSUME Check
      PROVE  IdleStep /\ TypeOK' /\ worker' # "timed" /\ UNCHANGED <<now, is_active, stopper>>
  BY <1>3 DEF Check, IdleStep, LoopInv, TypeOK, config, queues
<1>4. ASSUME Tick
      PROVE  /\ IdleStep /\ TypeOK' /\ now' = now + 1 /\ (prompt => ~unnotified) /\ pushing = {}
             /\ UNCHANGED <<is_active, stopper, worker, unnotified>>
  BY <1>4 DEF Tick, IdleStep, LoopInv, TypeOK, config, queues, ExecutorsAssumption
<1>5. IdleStep /\ TypeOK'
  BY <1>1, <1>2, <1>3, <1>4 DEF Shutdown
<1>6. /\ IsFiniteSet(delayed)' /\ (kind # "looper" => tasks_ = <<>>)' /\ (~is_active => Threaded)'
      /\ (stopper = "clearing" => kind = "timer" /\ ~is_active)'
  <2>1. /\ UNCHANGED <<kind, tasks_, delayed>> /\ (~is_active => Threaded)
        /\ (kind # "looper" => tasks_ = <<>>) /\ IsFiniteSet(delayed)
    BY <1>5 DEF IdleStep, config, queues, LoopInv
  <2>2. stopper = "clearing" => kind = "timer" /\ ~is_active
    BY DEF LoopInv
  <2> QED
    BY <2>1, <2>2 DEF Threaded, NotifyOne, Shutdown, ShutdownLooper, ShutdownTimer, NotifyAll,
       Join, Check, Tick, config
<1>7. PushingOK'
  <2>1. UNCHANGED <<kind, due, pushing>> /\ (now' = now \/ pushing = {}) /\ PushingOK
    BY <1>1, <1>2, <1>3, <1>4, <1>5 DEF Shutdown, IdleStep, config, LoopInv
  <2>2. unnotified' = unnotified \/ unnotified' = FALSE
    BY DEF NotifyOne, Shutdown, ShutdownLooper, ShutdownTimer, NotifyAll, Join, Check, Tick
  <2> QED
    BY <2>1, <2>2 DEF PushingOK
<1>8. ASSUME prompt' PROVE Accounted' /\ MovedAreDue' /\ WaitsForTop'
  <2>1. prompt /\ Accounted /\ MovedAreDue /\ WaitsForTop
    BY <1>5, <1>8 DEF IdleStep, config, LoopInv
  <2>2. Accounted'
    BY <1>5, <2>1, IdleAccounted
  <2>3. now' = now \/ now' = now + 1
    BY <1>1, <1>2, <1>3, <1>4 DEF Shutdown
  <2>4. UNCHANGED <<due, tasks_, delayed, pushing, top, kind>>
    BY <1>5 DEF IdleStep, queues, config
  <2>5. MovedAreDue'
    <3>1. now \in Int /\ due \in [Tasks -> Int]
      BY DEF LoopInv, TypeOK
    <3>2. \A t \in ToSet(tasks_) : t \in Tasks
      BY ToSetProperties DEF LoopInv, TypeOK
    <3> QED
      BY <2>1, <2>3, <2>4, <3>1, <3>2 DEF MovedAreDue
  <2>6. WaitsForTop'
    <3>1. CASE worker' # "timed"
      BY <3>1 DEF WaitsForTop
    <3>2. CASE worker' = "timed"
      <4>1. UNCHANGED worker /\ (now' = now \/ ~unnotified) /\ unnotified' = unnotified
        BY <1>1, <1>2, <1>3, <1>4, <2>1, <3>2 DEF Shutdown
      <4>2. ~is_active => ~is_active'
        BY DEF NotifyOne, Shutdown, ShutdownLooper, ShutdownTimer, NotifyAll, Join, Check, Tick
      <4>3. Soonest(delayed)' = Soonest(delayed)
        BY <2>4 DEF Soonest
      <4> QED
        BY <2>1, <2>4, <3>2, <4>1, <4>2, <4>3 DEF WaitsForTop
    <3> QED
      BY <3>1, <3>2
  <2> QED
    BY <2>2, <2>5, <2>6
<1> QED
  BY <1>5, <1>6, <1>8, <1>7 DEF LoopInv

\* Where each task is after one of them has moved.
LEMMA BecomeIs ==
  ASSUME TypeOK, NEW t \in Tasks, NEW what \in Statuses, Become({t}, what)
  PROVE  /\ status' \in [Tasks -> Statuses]
         /\ \A u \in Tasks : status'[u] = IF u = t THEN what ELSE status[u]
  BY DEF Become, TypeOK

\* What is in tasks_ is a task.
LEMMA TasksInQueue == ASSUME TypeOK PROVE tasks_ \in Seq(Tasks) /\ ToSet(tasks_) \subseteq Tasks
  BY ToSetProperties DEF TypeOK

\* What Accounted says, task by task.
LEMMA AccountedIs ==
  ASSUME TypeOK
  PROVE  Accounted <=>
           /\ \A u \in Tasks : status[u] = "accepted" <=> u \in ToSet(tasks_) \cup delayed \cup pushing
           /\ ToSet(tasks_) \cap delayed = {} /\ IsInjective(tasks_)
           /\ (ToSet(tasks_) \cup delayed) \cap pushing = {}
           /\ worker = "running" <=> \E u \in Tasks : status[u] = "running"
<1>1. ToSet(tasks_) \subseteq Tasks /\ delayed \subseteq Tasks /\ pushing \subseteq Tasks
  BY TasksInQueue DEF TypeOK
<1> QED
  BY <1>1 DEF Accounted

\* execute, execute_delayed, and schedule up to its push.
LEMMA AcceptPreserves ==
  ASSUME ExecutorsAssumption, LoopInv, NEW t \in Tasks, NEW d \in Delays, Accept(t, d)
  PROVE  LoopInv'
<1>1. TypeOK /\ now + d \in 0 .. MaxTime /\ now \in Int /\ now + d \in Int /\ now <= now + d
  BY DEF LoopInv, TypeOK, Accept, ExecutorsAssumption
<1>2. /\ status[t] = "new" /\ is_active /\ ~unnotified /\ pushing = {} /\ Become({t}, "accepted")
      /\ due' = [due EXCEPT ![t] = now + d]
      /\ UNCHANGED <<kind, prompt, now, is_active, worker, top, stopper>>
  BY DEF Accept, CallerBusy, config
<1>3. \/ /\ kind = "timer" /\ pushing' = {t} /\ UNCHANGED <<tasks_, delayed, unnotified>>
      \/ /\ kind = "looper" /\ d = 0 /\ tasks_' = Append(tasks_, t) /\ unnotified' = TRUE
         /\ UNCHANGED <<delayed, pushing>>
      \/ /\ kind # "timer" /\ delayed' = delayed \cup {t} /\ unnotified' = Threaded
         /\ UNCHANGED <<tasks_, pushing>>
  BY DEF Accept, queues
<1>4. /\ status' \in [Tasks -> Statuses]
      /\ \A u \in Tasks : status'[u] = IF u = t THEN "accepted" ELSE status[u]
  <2>1. "accepted" \in Statuses
    BY DEF Statuses
  <2> QED
    BY <1>1, <1>2, <2>1, BecomeIs
<1>5. /\ due' \in [Tasks -> 0 .. MaxTime]
      /\ \A u \in Tasks : due'[u] = IF u = t THEN now + d ELSE due[u]
  BY <1>1, <1>2 DEF TypeOK
<1>6. /\ tasks_ \in Seq(Tasks) /\ ToSet(tasks_) \subseteq Tasks /\ delayed \subseteq Tasks
      /\ Append(tasks_, t) \in Seq(Tasks) /\ ToSet(Append(tasks_, t)) = ToSet(tasks_) \cup {t}
  BY <1>1, TasksInQueue, AppendProperties, ToSetProperties DEF TypeOK
<1>7. /\ tasks_' \in Seq(Tasks) /\ delayed' \subseteq Tasks /\ pushing' \subseteq Tasks
      /\ unnotified' \in BOOLEAN
      /\ \/ tasks_' = tasks_
         \/ tasks_' = Append(tasks_, t) /\ d = 0 /\ delayed' = delayed
      /\ \/ /\ ToSet(tasks_') \cup delayed' = (ToSet(tasks_) \cup delayed) \cup {t}
            /\ pushing' = {}
         \/ UNCHANGED <<tasks_, delayed>> /\ pushing' = {t}
  <2>1. CASE pushing' = {t} /\ UNCHANGED <<tasks_, delayed, unnotified>>
    BY <1>1, <1>6, <2>1 DEF TypeOK
  <2>2. CASE /\ d = 0 /\ tasks_' = Append(tasks_, t) /\ unnotified' = TRUE
             /\ UNCHANGED <<delayed, pushing>>
    BY <1>2, <1>6, <2>2
  <2>3. CASE delayed' = delayed \cup {t} /\ unnotified' = Threaded /\ UNCHANGED <<tasks_, pushing>>
    BY <1>2, <1>6, <2>3 DEF Threaded
  <2> QED
    BY <1>3, <2>1, <2>2, <2>3
<1>8. TypeOK' /\ IsFiniteSet(delayed')
  <2>1. IsFiniteSet(delayed) /\ IsFiniteSet(delayed \cup {t})
    BY FS_AddElement DEF LoopInv
  <2>2. IsFiniteSet(delayed')
    BY <1>3, <2>1
  <2> QED
    BY <1>1, <1>2, <1>4, <1>5, <1>7, <2>2 DEF TypeOK
<1>9. PushingOK'
  BY <1>1, <1>2, <1>3, <1>5 DEF PushingOK
<1>10. (kind # "looper" => tasks_ = <<>>)' /\ (~is_active => Threaded)'
  BY <1>2, <1>3 DEF LoopInv
<1>11. ASSUME prompt
       PROVE  /\ Accounted /\ MovedAreDue /\ WaitsForTop
              /\ t \notin ToSet(tasks_) /\ t \notin delayed
  BY <1>1, <1>2, <1>11, AccountedIs DEF LoopInv
<1>12. ASSUME prompt PROVE Accounted'
  <2>1. /\ \A u \in Tasks : status[u] = "accepted" <=> u \in ToSet(tasks_) \cup delayed
        /\ ToSet(tasks_) \cap delayed = {} /\ IsInjective(tasks_)
        /\ worker = "running" <=> \E u \in Tasks : status[u] = "running"
    BY <1>1, <1>2, <1>11, <1>12, AccountedIs
  <2>2. ToSet(tasks_') \cap delayed' = {} /\ (ToSet(tasks_') \cup delayed') \cap pushing' = {}
    BY <1>2, <1>3, <1>6, <1>11, <1>12, <2>1
  <2>3. IsInjective(tasks_')
    <3>1. ~Contains(tasks_, t)
      BY <1>6, <1>11, <1>12, ToSetProperties
    <3>2. IsInjective(Append(tasks_, t))
      BY <1>6, <2>1, <3>1, AppendFresh
    <3> QED
      BY <1>7, <2>1, <3>2
  <2>4. \A u \in Tasks : status'[u] = "accepted" <=> u \in ToSet(tasks_') \cup delayed' \cup pushing'
    BY <1>4, <1>7, <2>1
  <2>5. (\E u \in Tasks : status'[u] = "running") <=> \E u \in Tasks : status[u] = "running"
    BY <1>2, <1>4
  <2>6. ToSet(tasks_') \subseteq Tasks
    BY <1>7, ToSetProperties
  <2> QED
    BY <1>2, <1>7, <2>1, <2>2, <2>3, <2>4, <2>5, <2>6 DEF Accounted
<1>13. ASSUME prompt PROVE MovedAreDue'
  <2>1. \A u \in ToSet(tasks_') : u \in ToSet(tasks_) \/ (u = t /\ d = 0)
    BY <1>6, <1>7
  <2> QED
    BY <1>1, <1>2, <1>5, <1>6, <1>11, <1>13, <2>1 DEF MovedAreDue
<1>14. ASSUME prompt, worker = "timed" PROVE WaitsForTop'
  <2>1. /\ kind = "timer" /\ UNCHANGED <<delayed, unnotified>>
        /\ top \in Soonest(delayed) \/ (unnotified /\ top \in delayed /\ due[top] > now)
    BY <1>2, <1>3, <1>11, <1>14 DEF WaitsForTop
  <2>2. \A u \in delayed : due'[u] = due[u]
    BY <1>5, <1>6, <1>11, <1>14
  <2>3. Soonest(delayed)' = Soonest(delayed)
    BY <2>1, <2>2 DEF Soonest
  <2> QED
    BY <1>2, <2>1, <2>2, <2>3 DEF WaitsForTop
<1>15. (stopper = "clearing" => kind = "timer" /\ ~is_active)' /\ (prompt' => prompt)
       /\ (worker' = "timed" => worker = "timed")
  BY <1>2 DEF LoopInv
<1>16. prompt => WaitsForTop'
  BY <1>14, <1>15 DEF WaitsForTop
<1> QED
  BY <1>8, <1>9, <1>10, <1>12, <1>13, <1>15, <1>16 DEF LoopInv

\* schedule() pushes: whoever waits for the first task is notified if it no longer
\* is the first, and its time has not come.
LEMMA PushPreserves == ASSUME LoopInv, NEW t \in Tasks, Push(t) PROVE LoopInv'
<1>1. /\ TypeOK /\ PushingOK /\ delayed \subseteq Tasks /\ now \in Int /\ due \in [Tasks -> Int]
      /\ top \in Tasks
  BY DEF LoopInv, TypeOK
<1>2. /\ pushing = {t} /\ kind = "timer" /\ now <= due[t]
      /\ pushing' = {} /\ delayed' = delayed \cup {t} /\ unnotified' = NeedNotify(t)
      /\ UNCHANGED <<kind, prompt, now, is_active, status, due, tasks_, worker, top, stopper>>
  BY <1>1 DEF Push, PushingOK, config
<1>3. TypeOK' /\ IsFiniteSet(delayed')
  <2>1. IsFiniteSet(delayed \cup {t})
    BY FS_AddElement DEF LoopInv
  <2> QED
    BY <1>1, <1>2, <2>1 DEF TypeOK, NeedNotify
<1>4. ASSUME prompt PROVE Accounted'
  <2>1. Accounted
    BY <1>4 DEF LoopInv
  <2>2. ToSet(tasks_') \cap delayed' = {}
    BY <1>2, <2>1 DEF Accounted
  <2> QED
    BY <1>2, <2>1, <2>2 DEF Accounted
<1>5. ASSUME prompt PROVE MovedAreDue'
  BY <1>2, <1>5 DEF LoopInv, MovedAreDue
<1>6. ASSUME prompt, worker = "timed" PROVE WaitsForTop'
  <2>1. ~unnotified /\ pushing # {} /\ WaitsForTop
    BY <1>1, <1>2, <1>6 DEF PushingOK, LoopInv
  <2>2. top \in delayed /\ \A u \in delayed : due[top] <= due[u]
    BY <1>6, <2>1 DEF WaitsForTop, Soonest
  <2>3. CASE NeedNotify(t)
    <3>1. due[t] < due[top]
      BY <2>2, <2>3 DEF NeedNotify
    <3>2. due[top] > now
      BY <1>1, <1>2, <3>1
    <3> QED
      BY <1>2, <2>2, <2>3, <3>2 DEF WaitsForTop
  <2>4. CASE ~NeedNotify(t)
    <3>1. PICK u \in delayed : ~(due[t] < due[u])
      BY <2>4 DEF NeedNotify
    <3>2. due[top] <= due[t]
      BY <1>1, <2>2, <3>1
    <3>3. top' \in Soonest(delayed)'
      BY <1>2, <2>2, <3>2 DEF Soonest
    <3> QED
      BY <1>2, <3>3 DEF WaitsForTop
  <2> QED
    BY <2>3, <2>4
<1>7. prompt => WaitsForTop'
  BY <1>2, <1>6 DEF WaitsForTop
<1>8. PushingOK' /\ (~is_active => Threaded)' /\ (kind # "looper" => tasks_ = <<>>)'
      /\ (stopper = "clearing" => kind = "timer" /\ ~is_active)'
  BY <1>2 DEF PushingOK, LoopInv, Threaded
<1> QED
  BY <1>2, <1>3, <1>4, <1>5, <1>7, <1>8 DEF LoopInv

\* Tasks that are refused, or that no thread of the executor runs.
LEMMA CallersPreserve ==
  ASSUME LoopInv, NEW t \in Tasks, RunInline(t) \/ Refuse(t) \/ RunDetached(t)
  PROVE  LoopInv'
<1>1. TypeOK /\ tasks_ \in Seq(Tasks) /\ ToSet(tasks_) \subseteq Tasks /\ delayed \subseteq Tasks
  BY TasksInQueue DEF LoopInv, TypeOK
<1>2. PICK s \in {"ran", "refused"} : Become({t}, s)
  BY DEF RunInline, Refuse, RunDetached
<1>3. /\ status' \in [Tasks -> Statuses]
      /\ \A u \in Tasks : status'[u] = IF u = t THEN s ELSE status[u]
  <2>1. s \in Statuses
    BY DEF Statuses
  <2> QED
    BY <1>1, <1>2, <2>1, BecomeIs
<1>4. /\ UNCHANGED <<kind, prompt, now, is_active, tasks_, worker, pushing, unnotified, top, stopper>>
      /\ \/ status[t] = "new" /\ UNCHANGED delayed
         \/ status[t] = "accepted" /\ ~Threaded /\ delayed' = delayed \ {t} /\ UNCHANGED due
      /\ pushing = {} \/ Threaded
      /\ \/ UNCHANGED due
         \/ kind = "noop" /\ due' = [due EXCEPT ![t] = now]
  BY DEF RunInline, Refuse, RunDetached, config, queues, LoopInv, PushingOK, Threaded
<1>5. due' \in [Tasks -> 0 .. MaxTime] /\ \A u \in Tasks \ {t} : due'[u] = due[u]
  BY <1>1, <1>4 DEF TypeOK
<1>6. TypeOK' /\ IsFiniteSet(delayed')
  <2>1. delayed' \subseteq delayed
    BY <1>4
  <2> QED
    BY <1>1, <1>3, <1>4, <1>5, <2>1, FS_Subset DEF TypeOK, LoopInv
<1>7. ASSUME prompt PROVE Accounted' /\ MovedAreDue' /\ WaitsForTop'
  <2>1. Accounted /\ MovedAreDue /\ WaitsForTop
    BY <1>7 DEF LoopInv
  <2>2. /\ \A u \in Tasks : status[u] = "accepted" <=> u \in ToSet(tasks_) \cup delayed \cup pushing
        /\ ToSet(tasks_) \cap delayed = {} /\ IsInjective(tasks_)
        /\ (ToSet(tasks_) \cup delayed) \cap pushing = {} /\ t \notin pushing
        /\ worker = "running" <=> \E u \in Tasks : status[u] = "running"
    <3>1. status[t] = "new" => t \notin pushing
      BY <2>1 DEF Accounted
    <3> QED
      BY <1>1, <1>4, <2>1, <3>1, AccountedIs
  <2>3. /\ ToSet(tasks_') = ToSet(tasks_) /\ IsInjective(tasks_') /\ t \notin ToSet(tasks_)
        /\ ToSet(tasks_') \cap delayed' = {} /\ (ToSet(tasks_') \cup delayed') \cap pushing' = {}
    <3>1. status[t] = "accepted" => tasks_ = <<>>
      BY <1>4 DEF LoopInv, Threaded
    <3>2. status[t] = "accepted" => t \notin ToSet(tasks_)
      BY <3>1 DEF ToSet
    <3> QED
      BY <1>4, <2>2, <3>2
  <2>4. \A u \in Tasks : status'[u] = "accepted" <=> u \in ToSet(tasks_') \cup delayed' \cup pushing'
    BY <1>3, <1>4, <2>2, <2>3
  <2>5. worker' = "running" <=> \E u \in Tasks : status'[u] = "running"
    BY <1>3, <1>4, <2>2
  <2>6. Accounted'
    <3>1. delayed' \subseteq Tasks /\ ToSet(tasks_') \subseteq Tasks /\ pushing' \subseteq Tasks
      BY <1>1, <1>4, <2>3 DEF TypeOK
    <3> QED
      BY <2>3, <2>4, <2>5, <3>1 DEF Accounted
  <2>7. MovedAreDue'
    BY <1>1, <1>4, <1>5, <2>1, <2>3 DEF MovedAreDue
  <2>8. ASSUME worker = "timed" PROVE WaitsForTop'
    <3>1. kind = "timer" /\ UNCHANGED <<delayed, due>>
      BY <1>4, <2>1, <2>8 DEF WaitsForTop, Threaded
    <3>2. Soonest(delayed)' = Soonest(delayed)
      BY <3>1 DEF Soonest
    <3> QED
      BY <1>4, <2>1, <2>8, <3>1, <3>2 DEF WaitsForTop
  <2> QED
    BY <1>4, <2>6, <2>7, <2>8 DEF WaitsForTop
<1>8. PushingOK'
  <2>1. PushingOK /\ (UNCHANGED due \/ pushing = {})
    BY <1>4 DEF LoopInv, Threaded
  <2> QED
    BY <1>4, <2>1 DEF PushingOK
<1> QED
  BY <1>4, <1>6, <1>7, <1>8 DEF LoopInv, Threaded

\* shutdown clears the timer's queue.
LEMMA ClearPreserves == ASSUME LoopInv, ClearQueue PROVE LoopInv'
<1>1. TypeOK /\ stopper = "clearing" /\ kind = "timer" /\ ~is_active /\ tasks_ = <<>>
  BY DEF LoopInv, ClearQueue
<1>2. /\ delayed' = {} /\ stopper' = "notifying"
      /\ UNCHANGED <<kind, prompt, now, is_active, due, tasks_, worker, unnotified, top>>
      /\ pushing = {} /\ pushing' = {}
  BY DEF ClearQueue, config
<1>3. /\ status' \in [Tasks -> Statuses]
      /\ \A u \in Tasks : status'[u] = IF u \in delayed THEN "cleared" ELSE status[u]
  BY <1>1 DEF ClearQueue, Become, TypeOK, Statuses
<1>4. TypeOK'
  BY <1>1, <1>2, <1>3 DEF TypeOK
<1>5. ASSUME prompt PROVE Accounted' /\ MovedAreDue' /\ WaitsForTop'
  <2>1. /\ \A u \in Tasks : status[u] = "accepted" <=> u \in ToSet(tasks_) \cup delayed
        /\ ToSet(tasks_) \cap delayed = {} /\ IsInjective(tasks_)
        /\ worker = "running" <=> \E u \in Tasks : status[u] = "running"
    BY <1>1, <1>2, <1>5, AccountedIs DEF LoopInv
  <2>2. (\E u \in Tasks : status'[u] = "running") <=> \E u \in Tasks : status[u] = "running"
    BY <1>3, <2>1
  <2>3. Accounted'
    <3>1. \A u \in Tasks : status'[u] = "accepted" <=> u \in ToSet(tasks_') \cup delayed'
      BY <1>2, <1>3, <2>1
    <3>2. ToSet(tasks_') \subseteq Tasks
      BY <1>1, <1>2, TasksInQueue
    <3> QED
      BY <1>2, <2>1, <2>2, <3>1, <3>2 DEF Accounted
  <2>4. MovedAreDue' /\ WaitsForTop'
    BY <1>1, <1>2, <1>5 DEF LoopInv, MovedAreDue, WaitsForTop
  <2> QED
    BY <2>3, <2>4
<1> QED
  BY <1>1, <1>2, <1>4, <1>5, FS_EmptySet DEF LoopInv, PushingOK, Threaded

\* The executor's thread takes the task t, which may run, off its queues.
LEMMA RunsPreserve ==
  ASSUME LoopInv, NEW t \in Tasks, Become({t}, "running"), worker' = "running",
         UNCHANGED <<kind, prompt, now, is_active, due, pushing, unnotified, stopper>>, top' \in Tasks,
         tasks_' \in Seq(Tasks), delayed' \subseteq delayed,
         kind # "looper" => tasks_' = <<>>,
         prompt => /\ t \in ToSet(tasks_) \cup delayed
                   /\ ToSet(tasks_') \cup delayed' = (ToSet(tasks_) \cup delayed) \ {t}
                   /\ ToSet(tasks_') \cap delayed' = {} /\ IsInjective(tasks_')
                   /\ \A u \in ToSet(tasks_') : due[u] <= now
  PROVE  LoopInv'
<1>1. TypeOK
  BY DEF LoopInv
<1>2. /\ status' \in [Tasks -> Statuses]
      /\ \A u \in Tasks : status'[u] = IF u = t THEN "running" ELSE status[u]
  <2>1. "running" \in Statuses
    BY DEF Statuses
  <2> QED
    BY <1>1, <2>1, BecomeIs
<1>3. TypeOK'
  BY <1>1, <1>2 DEF TypeOK
<1>4. ASSUME prompt PROVE Accounted'
  <2>1. /\ \A u \in Tasks : status[u] = "accepted" <=> u \in ToSet(tasks_) \cup delayed \cup pushing
        /\ (ToSet(tasks_) \cup delayed) \cap pushing = {}
    BY <1>1, <1>4, AccountedIs DEF LoopInv
  <2>2. \A u \in Tasks : status'[u] = "accepted" <=> u \in ToSet(tasks_') \cup delayed' \cup pushing'
    BY <1>2, <1>4, <2>1
  <2>3. (ToSet(tasks_') \cup delayed') \cap pushing' = {}
    BY <1>4, <2>1
  <2>4. ToSet(tasks_') \subseteq Tasks /\ delayed' \subseteq Tasks /\ pushing' \subseteq Tasks
    BY <1>1, ToSetProperties DEF TypeOK
  <2>5. \E u \in Tasks : status'[u] = "running"
    BY <1>2
  <2> QED
    BY <1>4, <2>2, <2>4, <2>5, <2>3 DEF Accounted
<1>5. IsFiniteSet(delayed')
  BY FS_Subset DEF LoopInv
<1>6. PushingOK'
  BY DEF LoopInv, PushingOK
<1> QED
  BY <1>3, <1>4, <1>5, <1>6 DEF LoopInv, WaitsForTop, MovedAreDue, Threaded

\* The looper takes the first of the tasks that may run: those it had moved
\* before, and those that are ready now.
LEMMA LooperTakesFirst ==
  ASSUME LoopInv, kind = "looper", tasks_ # <<>> \/ Ready # {},
         NEW ready \in InOrder(Ready), NEW r, r = tasks_ \o ready
  PROVE  /\ r \in Seq(Tasks) /\ r # <<>> /\ Head(r) \in Tasks /\ Tail(r) \in Seq(Tasks)
         /\ prompt => /\ status[Head(r)] = "accepted" /\ due[Head(r)] <= now
                      /\ ToSet(Tail(r)) = (ToSet(tasks_) \cup Ready) \ {Head(r)}
                      /\ Head(r) \in ToSet(tasks_) \cup Ready /\ IsInjective(Tail(r))
                      /\ \A u \in ToSet(Tail(r)) : due[u] <= now
<1>1. TypeOK /\ tasks_ \in Seq(Tasks) /\ delayed \subseteq Tasks /\ Ready \subseteq delayed
  BY DEF LoopInv, TypeOK, Ready
<1>2. ready \in Seq(Tasks) /\ ToSet(ready) = Ready /\ IsInjective(ready)
  <2>1. IsFiniteSet(Ready)
    BY <1>1, FS_Subset DEF LoopInv
  <2>2. Cardinality(Ready) \in Nat
    BY <2>1, FS_CardinalityType
  <2>3. ready \in [1 .. Cardinality(Ready) -> Tasks]
    BY <1>1 DEF InOrder
  <2> QED
    BY <2>2, <2>3 DEF InOrder
<1>3. r \in Seq(Tasks) /\ Len(r) = Len(tasks_) + Len(ready)
  BY <1>1, <1>2, ConcatProperties
<1>4. r # <<>>
  <2>1. tasks_ # <<>> => Len(tasks_) > 0
    BY <1>1, EmptySeq, LenProperties
  <2>2. ready # <<>> => Len(ready) > 0
    BY <1>2, EmptySeq, LenProperties
  <2>3. Ready # {} => ready # <<>>
    BY <1>2 DEF ToSet
  <2>4. Len(tasks_) \in Nat /\ Len(ready) \in Nat
    BY <1>1, <1>2, LenProperties
  <2>5. Len(r) > 0
    BY <1>3, <2>1, <2>2, <2>3, <2>4
  <2> QED
    BY <2>5
<1>5. Head(r) \in Tasks /\ Tail(r) \in Seq(Tasks)
  BY <1>3, <1>4, HeadTailProperties
<1>6. ASSUME prompt
      PROVE  /\ status[Head(r)] = "accepted" /\ due[Head(r)] <= now
             /\ ToSet(Tail(r)) = (ToSet(tasks_) \cup Ready) \ {Head(r)}
             /\ Head(r) \in ToSet(tasks_) \cup Ready /\ IsInjective(Tail(r))
             /\ \A u \in ToSet(Tail(r)) : due[u] <= now
  <2>1. /\ \A u \in Tasks : status[u] = "accepted" <=> u \in ToSet(tasks_) \cup delayed \cup pushing
        /\ ToSet(tasks_) \cap delayed = {} /\ IsInjective(tasks_)
        /\ \A u \in ToSet(tasks_) : due[u] <= now
    BY <1>1, <1>6, AccountedIs DEF LoopInv, MovedAreDue
  <2>2. IsInjective(r) /\ ToSet(r) = ToSet(tasks_) \cup Ready
    BY <1>1, <1>2, <2>1, ConcatDisjoint
  <2>3. Head(r) \in ToSet(r) /\ ToSet(Tail(r)) = ToSet(r) \ {Head(r)} /\ IsInjective(Tail(r))
    BY <1>3, <1>4, <2>2, TailProperties, ToSetProperties
  <2>4. \A u \in ToSet(r) : due[u] <= now
    BY <2>1, <2>2 DEF Ready
  <2> QED
    BY <1>1, <1>5, <2>1, <2>2, <2>3, <2>4
<1> QED
  BY <1>3, <1>4, <1>5, <1>6

\* The looper.
LEMMA EnterLooperPreserves == ASSUME LoopInv, EnterLooper PROVE LoopInv'
<1>1. /\ TypeOK /\ tasks_ \in Seq(Tasks) /\ delayed \subseteq Tasks /\ Ready \subseteq delayed
      /\ kind = "looper" /\ worker = "entering"
  BY DEF LoopInv, TypeOK, EnterLooper, Ready
<1>2. /\ UNCHANGED <<kind, prompt, now, is_active, due, pushing, unnotified, top, stopper>>
      /\ delayed' = delayed \ Ready
  BY DEF EnterLooper, config
<1>3. CASE tasks_ # <<>> \/ Ready # {}
  <2>1. PICK ready \in InOrder(Ready) : RunFirst(tasks_ \o ready)
    BY <1>3 DEF EnterLooper
  <2> DEFINE r == tasks_ \o ready
             t == Head(r)
  <2>2. tasks_' = Tail(r) /\ Become({t}, "running") /\ worker' = "running"
    BY <2>1 DEF RunFirst
  <2>3. /\ r \in Seq(Tasks) /\ r # <<>> /\ t \in Tasks /\ Tail(r) \in Seq(Tasks)
        /\ prompt => /\ status[t] = "accepted" /\ due[t] <= now
                     /\ ToSet(Tail(r)) = (ToSet(tasks_) \cup Ready) \ {t}
                     /\ t \in ToSet(tasks_) \cup Ready /\ IsInjective(Tail(r))
                     /\ \A u \in ToSet(Tail(r)) : due[u] <= now
    BY <1>1, <1>3, LooperTakesFirst
  <2> HIDE DEF r, t
  <2>4. top' \in Tasks
    BY <1>1, <1>2 DEF TypeOK
  <2>5. prompt => ToSet(tasks_) \cap delayed = {}
    BY <1>1, AccountedIs DEF LoopInv
  <2>6. prompt => /\ ToSet(tasks_') \cup delayed' = (ToSet(tasks_) \cup delayed) \ {t}
                  /\ ToSet(tasks_') \cap delayed' = {}
    BY <1>1, <1>2, <2>2, <2>3, <2>5
  <2> QED
    BY <1>1, <1>2, <2>2, <2>3, <2>4, <2>6, RunsPreserve
<1>4. CASE ~(tasks_ # <<>> \/ Ready # {})
  <2>1. /\ worker' \in {"checking", "waiting", "exited"} /\ UNCHANGED <<tasks_, status>>
        /\ delayed' = delayed
    BY <1>1, <1>4 DEF EnterLooper
  <2>2. IdleStep
    BY <1>1, <1>2, <2>1 DEF IdleStep, config, queues
  <2>3. TypeOK'
    BY <1>1, <1>2, <2>1 DEF TypeOK
  <2>4. prompt => Accounted'
    BY <2>2, IdleAccounted DEF LoopInv
  <2> QED
    BY <1>2, <2>1, <2>3, <2>4 DEF LoopInv, WaitsForTop, MovedAreDue, PushingOK, Threaded
<1> QED
  BY <1>3, <1>4

\* The timer.
LEMMA EnterTimerPreserves == ASSUME LoopInv, EnterTimer PROVE LoopInv'
<1>1. /\ TypeOK /\ kind = "timer" /\ worker \in {"entering", "woken"}
      /\ delayed \subseteq Tasks /\ tasks_ = <<>>
  BY DEF LoopInv, TypeOK, EnterTimer
<1>2. UNCHANGED <<kind, prompt, now, is_active, due, tasks_, pushing, unnotified, stopper>>
  BY DEF EnterTimer, config
<1>3. CASE \/ worker' \in {"checking", "waiting"} /\ UNCHANGED <<status, delayed, top>>
           \/ /\ worker' = "timed" /\ UNCHANGED <<status, delayed>>
              /\ top' \in Soonest(delayed)
  <2>1. TypeOK'
    BY <1>1, <1>2, <1>3 DEF TypeOK, Soonest
  <2>2. prompt => Accounted'
    BY <1>1, <1>2, <1>3 DEF LoopInv, Accounted
  <2>3. Soonest(delayed)' = Soonest(delayed)
    BY <1>2, <1>3 DEF Soonest
  <2>4. WaitsForTop'
    BY <1>1, <1>2, <1>3, <2>3 DEF WaitsForTop
  <2>5. prompt => MovedAreDue'
    BY <1>2 DEF LoopInv, MovedAreDue
  <2> QED
    BY <1>2, <1>3, <2>1, <2>2, <2>4, <2>5 DEF LoopInv, PushingOK, Threaded
<1>4. ASSUME NEW t \in delayed, top' = t, worker' = "running", Become({t}, "running"),
             delayed' = delayed \ {t}
      PROVE  LoopInv'
  <2>1. ToSet(tasks_) = {} /\ IsInjective(tasks_) /\ tasks_ \in Seq(Tasks)
    BY <1>1 DEF TypeOK, ToSet, IsInjective
  <2> QED
    BY <1>1, <1>2, <1>4, <2>1, RunsPreserve
<1> QED
  BY <1>3, <1>4 DEF EnterTimer, Soonest

\* The timer's wait is over.
LEMMA TimeoutPreserves == ASSUME LoopInv, Timeout PROVE LoopInv'
<1>1. /\ TypeOK /\ worker = "timed" /\ due[top] <= now /\ delayed \subseteq Tasks /\ top \in Tasks
      /\ now \in Int /\ due[top] \in Int
  BY DEF LoopInv, TypeOK, Timeout
<1>2. UNCHANGED <<kind, prompt, now, is_active, due, tasks_, pushing, unnotified, top, stopper>>
  BY DEF Timeout, config
<1>3. CASE delayed = {}
  <2>1. worker' = "undefined" /\ UNCHANGED <<status, delayed>>
    BY <1>3 DEF Timeout
  <2>2. IdleStep /\ TypeOK'
    BY <1>1, <1>2, <2>1 DEF IdleStep, config, queues, TypeOK
  <2>3. prompt => Accounted'
    BY <2>2, IdleAccounted DEF LoopInv
  <2> QED
    BY <1>2, <2>1, <2>2, <2>3 DEF LoopInv, WaitsForTop, MovedAreDue, PushingOK, Threaded
<1>4. CASE delayed # {}
  <2>1. PICK t \in IF top \in Soonest(delayed) THEN {top} ELSE Soonest(delayed) :
               delayed' = delayed \ {t}
    BY <1>4 DEF Timeout
  <2>2. Become({top}, "running") /\ worker' = "running"
    BY <1>4 DEF Timeout
  <2>3. ASSUME prompt
        PROVE  kind = "timer" /\ t = top /\ top \in delayed
               /\ ToSet(tasks_) = {} /\ IsInjective(tasks_)
    <3>1. kind = "timer" /\ top \in Soonest(delayed)
      BY <1>1, <1>4, <2>3 DEF LoopInv, WaitsForTop
    <3>2. tasks_ = <<>>
      BY <3>1 DEF LoopInv
    <3>3. top \in delayed /\ t = top
      BY <2>1, <3>1 DEF Soonest
    <3> QED
      BY <3>1, <3>2, <3>3 DEF ToSet, IsInjective
  <2>4. top' \in Tasks /\ tasks_' \in Seq(Tasks) /\ (kind # "looper" => tasks_' = <<>>)
    BY <1>1, <1>2 DEF TypeOK, LoopInv
  <2> QED
    BY <1>1, <1>2, <2>1, <2>2, <2>3, <2>4, RunsPreserve
<1> QED
  BY <1>3, <1>4

\* A task has returned.
LEMMA RanPreserves == ASSUME LoopInv, Ran PROVE LoopInv'
<1>1. TypeOK
  BY DEF LoopInv
<1>2. /\ UNCHANGED <<kind, prompt, now, is_active, due, tasks_, delayed, pushing, unnotified, top, stopper>>
      /\ worker' = "checking"
  BY DEF Ran, config, queues
<1>3. /\ status' \in [Tasks -> Statuses]
      /\ \A u \in Tasks : status'[u] = IF status[u] = "running" THEN "ran" ELSE status[u]
  BY <1>1 DEF Ran, TypeOK, Statuses
<1>4. TypeOK'
  BY <1>1, <1>2, <1>3 DEF TypeOK
<1>5. ASSUME prompt PROVE Accounted'
  <2>1. /\ \A u \in Tasks : status[u] = "accepted" <=> u \in ToSet(tasks_) \cup delayed \cup pushing
        /\ ToSet(tasks_) \cap delayed = {} /\ IsInjective(tasks_)
        /\ (ToSet(tasks_) \cup delayed) \cap pushing = {}
    BY <1>1, <1>5, AccountedIs DEF LoopInv
  <2>2. ToSet(tasks_) \subseteq Tasks /\ delayed \subseteq Tasks /\ pushing \subseteq Tasks
    BY <1>1, TasksInQueue DEF TypeOK
  <2>3. ~ \E u \in Tasks : status'[u] = "running"
    BY <1>3
  <2>4. {u \in Tasks : status'[u] = "accepted"} = ToSet(tasks_) \cup delayed \cup pushing
    BY <1>3, <2>1, <2>2
  <2> QED
    BY <1>2, <2>1, <2>3, <2>4 DEF Accounted
<1> QED
  BY <1>2, <1>4, <1>5 DEF LoopInv, WaitsForTop, MovedAreDue, PushingOK, Threaded

\* Every step preserves LoopInv: one lemma above for each kind of step.
LEMMA NextLoopInv == ASSUME ExecutorsAssumption, LoopInv, [Next]_vars PROVE LoopInv'
<1>1. CASE UNCHANGED vars
  <2>1. IdleStep /\ UNCHANGED <<kind, prompt, now, is_active, worker, pushing, unnotified, stopper, tasks_, delayed, due, top>>
    BY <1>1 DEF vars, IdleStep, config, queues
  <2>2. TypeOK' /\ (prompt => Accounted')
    BY <1>1, <2>1, IdleAccounted DEF LoopInv, TypeOK, vars, config, queues
  <2> QED
    BY <2>1, <2>2 DEF LoopInv, Threaded, WaitsForTop, MovedAreDue, PushingOK, Soonest
<1>2. CASE \E t \in Tasks : \/ \E d \in Delays : Accept(t, d)
                            \/ Push(t) \/ RunInline(t) \/ Refuse(t) \/ RunDetached(t)
  BY <1>2, AcceptPreserves, PushPreserves, CallersPreserve
<1>3. CASE NotifyOne \/ Shutdown \/ NotifyAll \/ Join \/ Check \/ Tick
  BY <1>3, IdlePreserves
<1>4. CASE ClearQueue \/ EnterLooper \/ EnterTimer \/ Timeout \/ Ran
  BY <1>4, ClearPreserves, EnterLooperPreserves, EnterTimerPreserves, TimeoutPreserves, RanPreserves
<1> QED
  BY <1>1, <1>2, <1>3, <1>4 DEF Next, WorkerStep

\* LoopInv holds in every reachable state.
LEMMA LoopInductive == ASSUME ExecutorsAssumption PROVE Spec => []LoopInv
<1>1. Init => LoopInv
  BY InitLoopInv
<1>2. LoopInv /\ [Next]_vars => LoopInv'
  BY NextLoopInv
<1> QED
  BY <1>1, <1>2, PTL DEF Spec

\* Types; and as long as callers notify promptly, the queues of every executor
\* hold exactly the tasks that are accepted and have not begun, each once
\* (looper_executor.h:62-80, timer_scheduler.hpp:37-48).
THEOREM ExecutorsInvariant == ASSUME ExecutorsAssumption PROVE Spec => []ExecutorsInv
<1>1. LoopInv => ExecutorsInv
  BY DEF LoopInv, ExecutorsInv
<1> QED
  BY <1>1, LoopInductive, PTL

-----------------------------------------------------------------------------
(***************************************************************************)
(* Every step is one of DelayedExecutor.                                   *)
(***************************************************************************)
LEMMA StatusIs ==
  /\ Status = [t \in Tasks |-> Status[t]]
  /\ \A t \in Tasks : Status[t] = IF status[t] \in {"running", "ran"} THEN "begun" ELSE status[t]
  BY DEF Status

\* What the abstract executor has delayed, task by task.
LEMMA WaitingIs ==
  \A e : e \in Waiting <=> \E u \in Tasks : status[u] = "accepted" /\ e = [at |-> due[u], task |-> u]
  BY DEF Waiting

\* A task that was not accepted is not waited for, and each is waited for once.
LEMMA OfIs ==
  ASSUME NEW t \in Tasks
  PROVE  DE!Of(t) = IF status[t] = "accepted" THEN {[at |-> due[t], task |-> t]} ELSE {}
<1>1. \A u : [at |-> due[u], task |-> u].task = u
  OBVIOUS
<1>2. \A e : e \in DE!Of(t) <=> status[t] = "accepted" /\ e = [at |-> due[t], task |-> t]
  BY <1>1, WaitingIs DEF DE!Of
<1> QED
  BY <1>2

\* Of the tasks that wait, only t comes or goes.
LEMMA OthersWait ==
  ASSUME NEW t \in Tasks,
         \A u \in Tasks \ {t} : (status'[u] = "accepted" <=> status[u] = "accepted") /\ due'[u] = due[u]
  PROVE  Waiting' = (Waiting \ DE!Of(t)) \cup DE!Of(t)'
<1>1. \A e : e \in Waiting' <=> \E u \in Tasks : status'[u] = "accepted" /\ e = [at |-> due'[u], task |-> u]
  BY DEF Waiting
<1>2. DE!Of(t)' = IF status'[t] = "accepted" THEN {[at |-> due'[t], task |-> t]} ELSE {}
  <2>1. \A u : [at |-> due'[u], task |-> u].task = u
    OBVIOUS
  <2>2. \A e : e \in DE!Of(t)' <=> status'[t] = "accepted" /\ e = [at |-> due'[t], task |-> t]
    BY <1>1, <2>1 DEF DE!Of
  <2> QED
    BY <2>2
<1>3. \A u \in Tasks \ {t} : [at |-> due[u], task |-> u] # [at |-> due[t], task |-> t]
  <2>1. \A u : [at |-> due[u], task |-> u].task = u
    OBVIOUS
  <2> QED
    BY <2>1
<1>4. \A e : e \in Waiting' <=> e \in (Waiting \ DE!Of(t)) \cup DE!Of(t)'
  BY <1>1, <1>2, <1>3, WaitingIs, OfIs
<1> QED
  BY <1>4

\* The accepted task t begins, and it is not too soon.
LEMMA BeginRefines ==
  ASSUME TypeOK, NEW t \in Tasks, status[t] = "accepted", due[t] <= now,
         NEW what \in {"running", "ran"}, Become({t}, what), UNCHANGED <<now, is_active, due>>
  PROVE  DE!Next
<1>1. /\ status' \in [Tasks -> Statuses]
      /\ \A u \in Tasks : status'[u] = IF u = t THEN what ELSE status[u]
  <2>1. what \in Statuses
    BY DEF Statuses
  <2> QED
    BY <2>1, BecomeIs
<1>2. DE!Move(t, "accepted", "begun")
  <2>1. Status[t] = "accepted"
    BY StatusIs
  <2>2. Status' = [Status EXCEPT ![t] = "begun"]
    BY <1>1 DEF Status
  <2> QED
    BY <2>1, <2>2 DEF DE!Move
<1>3. Waiting' = Waiting \ DE!Of(t)
  <2>1. DE!Of(t)' = {}
    <3>1. \A e \in Waiting' : \E u \in Tasks : status'[u] = "accepted" /\ e.task = u
      BY DEF Waiting
    <3> QED
      BY <1>1, <3>1 DEF DE!Of
  <2> QED
    BY <1>1, <2>1, OthersWait
<1>4. DE!Of(t) \subseteq DE!Due
  <2>1. DE!Of(t) = {[at |-> due[t], task |-> t]} /\ [at |-> due[t], task |-> t] \in Waiting
    BY OfIs, WaitingIs
  <2>2. [at |-> due[t], task |-> t].at <= now
    OBVIOUS
  <2> QED
    BY <2>1, <2>2 DEF DE!Due
<1> QED
  BY <1>2, <1>3, <1>4 DEF DE!Begin, DE!Next

\* Steps that move no task are stutters of DelayedExecutor, or its Tick or Close.
LEMMA StaysPut ==
  ASSUME UNCHANGED <<status, due>>
  PROVE  Status' = Status /\ Waiting' = Waiting
  BY DEF Status, Waiting

\* A step of the callers, of shutdown, or of the clock.
LEMMA CallersRefine ==
  ASSUME LoopInv, NEW t \in Tasks,
         (\E d \in Delays : Accept(t, d)) \/ RunInline(t) \/ Refuse(t) \/ RunDetached(t)
  PROVE  DE!Next
<1>0. TypeOK
  BY DEF LoopInv
<1>1. ASSUME NEW d \in Delays, Accept(t, d) PROVE DE!Next
  <2>1. /\ status[t] = "new" /\ is_active /\ Become({t}, "accepted")
        /\ due' = [due EXCEPT ![t] = now + d] /\ UNCHANGED <<now, is_active>>
    BY <1>1 DEF Accept
  <2>2. /\ \A u \in Tasks : status'[u] = IF u = t THEN "accepted" ELSE status[u]
        /\ \A u \in Tasks : due'[u] = IF u = t THEN now + d ELSE due[u]
    <3>1. "accepted" \in Statuses
      BY DEF Statuses
    <3> QED
      BY <1>0, <2>1, <3>1, BecomeIs DEF TypeOK
  <2>3. DE!Move(t, "new", "accepted")
    <3>1. Status[t] = "new"
      BY <2>1, StatusIs
    <3>2. Status' = [Status EXCEPT ![t] = "accepted"]
      BY <2>2 DEF Status
    <3> QED
      BY <3>1, <3>2 DEF DE!Move
  <2>4. Waiting' = Waiting \cup {[at |-> now + d, task |-> t]}
    <3>1. \A e : e \in Waiting' <=> \E u \in Tasks : status'[u] = "accepted" /\ e = [at |-> due'[u], task |-> u]
      BY DEF Waiting
    <3>2. \A e : e \in Waiting' <=> e \in Waiting \/ e = [at |-> now + d, task |-> t]
      BY <2>1, <2>2, <3>1, WaitingIs
    <3> QED
      BY <3>2
  <2> QED
    BY <2>1, <2>3, <2>4 DEF DE!AcceptDelayed, DE!Next
<1>2. ASSUME RunInline(t) PROVE DE!Next
  <2>1. /\ status[t] = "new" /\ is_active /\ Become({t}, "ran")
        /\ due' = [due EXCEPT ![t] = now] /\ UNCHANGED <<now, is_active>>
    BY <1>0, <1>2 DEF RunInline, LoopInv, Threaded, TypeOK
  <2>2. /\ \A u \in Tasks : status'[u] = IF u = t THEN "ran" ELSE status[u]
        /\ \A u \in Tasks : u # t => due'[u] = due[u]
    <3>1. "ran" \in Statuses
      BY DEF Statuses
    <3> QED
      BY <1>0, <2>1, <3>1, BecomeIs DEF TypeOK
  <2>3. DE!Move(t, "new", "begun")
    <3>1. Status[t] = "new"
      BY <2>1, StatusIs
    <3>2. Status' = [Status EXCEPT ![t] = "begun"]
      BY <2>2 DEF Status
    <3> QED
      BY <3>1, <3>2 DEF DE!Move
  <2>4. Waiting' = Waiting
    <3>1. \A e : e \in Waiting' <=> \E u \in Tasks : status'[u] = "accepted" /\ e = [at |-> due'[u], task |-> u]
      BY DEF Waiting
    <3>2. \A e : e \in Waiting' <=> e \in Waiting
      BY <2>1, <2>2, <3>1, WaitingIs
    <3> QED
      BY <3>2
  <2> QED
    BY <2>1, <2>3, <2>4 DEF DE!AcceptAndBegin, DE!Next
<1>3. ASSUME Refuse(t) PROVE DE!Next
  <2>1. status[t] = "new" /\ ~is_active /\ Become({t}, "refused") /\ UNCHANGED <<now, is_active, due>>
    BY <1>3 DEF Refuse
  <2>2. \A u \in Tasks : status'[u] = IF u = t THEN "refused" ELSE status[u]
    <3>1. "refused" \in Statuses
      BY DEF Statuses
    <3> QED
      BY <1>0, <2>1, <3>1, BecomeIs
  <2>3. DE!Move(t, "new", "refused")
    <3>1. Status[t] = "new"
      BY <2>1, StatusIs
    <3>2. Status' = [Status EXCEPT ![t] = "refused"]
      BY <2>2 DEF Status
    <3> QED
      BY <3>1, <3>2 DEF DE!Move
  <2>4. Waiting' = Waiting
    <3>1. {u \in Tasks : status'[u] = "accepted"} = {u \in Tasks : status[u] = "accepted"}
      BY <2>1, <2>2
    <3> QED
      BY <2>1, <3>1 DEF Waiting
  <2> QED
    BY <2>1, <2>3, <2>4 DEF DE!Refuse, DE!Next
<1>4. ASSUME RunDetached(t) PROVE DE!Next
  <2>1. /\ status[t] = "accepted" /\ due[t] <= now /\ Become({t}, "ran")
        /\ UNCHANGED <<now, is_active, due>>
    BY <1>4 DEF RunDetached
  <2> QED
    BY <1>0, <2>1, BeginRefines
<1> QED
  BY <1>1, <1>2, <1>3, <1>4

\* So are schedule()'s push, which moves no task (it was accepted when is_active
\* was tested), the notifications, the steps of shutdown, and the clock.
LEMMA IdleRefines ==
  ASSUME LoopInv,
         (\E t \in Tasks : Push(t)) \/ NotifyOne \/ Shutdown \/ NotifyAll \/ Join \/ Check \/ Tick
           \/ UNCHANGED vars
  PROVE  [DE!Next]_(DE!vars)
<1>1. UNCHANGED <<status, due>>
  BY DEF Push, NotifyOne, Shutdown, ShutdownLooper, ShutdownTimer, NotifyAll, Join, Check, Tick, vars
<1>2. Status' = Status /\ Waiting' = Waiting
  BY <1>1, StaysPut
<1>3. CASE Tick
  BY <1>2, <1>3 DEF Tick, DE!Tick, DE!Next
<1>4. CASE Shutdown
  <2>1. is_active' = FALSE /\ now' = now
    BY <1>4 DEF Shutdown, ShutdownLooper, ShutdownTimer
  <2> QED
    BY <1>2, <2>1 DEF DE!Close, DE!Next
<1>5. CASE (\E t \in Tasks : Push(t)) \/ NotifyOne \/ NotifyAll \/ Join \/ Check \/ UNCHANGED vars
  <2>1. UNCHANGED <<is_active, now>>
    BY <1>5 DEF Push, NotifyOne, NotifyAll, Join, Check, vars
  <2> QED
    BY <1>2, <2>1 DEF DE!vars
<1> QED
  BY <1>3, <1>4, <1>5

\* shutdown(false) of the timer throws away all that waits.
LEMMA ClearRefines == ASSUME LoopInv, prompt, ClearQueue PROVE DE!Next
<1>1. TypeOK /\ Accounted /\ ~is_active /\ delayed \subseteq Tasks
  BY DEF LoopInv, ClearQueue, TypeOK
<1>2. /\ UNCHANGED <<now, is_active, due>>
      /\ \A u \in Tasks : status'[u] = IF u \in delayed THEN "cleared" ELSE status[u]
  BY DEF ClearQueue, Become
<1>3. \A u \in delayed : status[u] = "accepted"
  BY <1>1, AccountedIs
<1>4. \A u \in delayed : Status[u] = "accepted"
  BY <1>1, <1>3, StatusIs
<1>5. Status' = [u \in Tasks |-> IF u \in delayed THEN "cleared" ELSE Status[u]]
  BY <1>2 DEF Status
<1>6. Waiting' = {e \in Waiting : e.task \notin delayed}
  <2>1. \A e : e \in Waiting' <=> \E u \in Tasks : status'[u] = "accepted" /\ e = [at |-> due[u], task |-> u]
    BY <1>2 DEF Waiting
  <2>2. \A u : [at |-> due[u], task |-> u].task = u
    OBVIOUS
  <2>3. \A e : e \in Waiting' <=> e \in Waiting /\ e.task \notin delayed
    BY <1>2, <2>1, <2>2, WaitingIs
  <2> QED
    BY <2>3
<1>7. DE!ThrowAway(delayed)
  BY <1>1, <1>2, <1>4, <1>5, <1>6 DEF DE!ThrowAway
<1> QED
  BY <1>1, <1>7 DEF DE!Next

\* A step of the executor's thread.
LEMMA ThreadRefines ==
  ASSUME LoopInv, prompt, EnterLooper \/ EnterTimer \/ Timeout \/ Ran
  PROVE  [DE!Next]_(DE!vars)
<1>0. TypeOK /\ Accounted /\ WaitsForTop /\ MovedAreDue /\ UNCHANGED <<now, is_active, due>>
  BY DEF LoopInv, EnterLooper, EnterTimer, Timeout, Ran
<1>1. ASSUME UNCHANGED status PROVE UNCHANGED DE!vars
  BY <1>0, <1>1, StaysPut DEF DE!vars
<1>2. ASSUME NEW t \in Tasks, status[t] = "accepted", due[t] <= now, Become({t}, "running")
      PROVE  DE!Next
  BY <1>0, <1>2, BeginRefines
<1>3. CASE EnterLooper
  <2>1. CASE tasks_ # <<>> \/ Ready # {}
    <3>1. PICK ready \in InOrder(Ready) : RunFirst(tasks_ \o ready)
      BY <1>3, <2>1 DEF EnterLooper
    <3>2. kind = "looper"
      BY <1>3 DEF EnterLooper
    <3> DEFINE t == Head(tasks_ \o ready)
    <3>3. t \in Tasks /\ status[t] = "accepted" /\ due[t] <= now
      BY <2>1, <3>2, LooperTakesFirst
    <3>4. Become({t}, "running")
      BY <3>1 DEF RunFirst
    <3> HIDE DEF t
    <3> QED
      BY <1>2, <3>3, <3>4
  <2>2. CASE ~(tasks_ # <<>> \/ Ready # {})
    BY <1>1, <1>3, <2>2 DEF EnterLooper
  <2> QED
    BY <2>1, <2>2
<1>4. CASE EnterTimer
  <2>1. CASE UNCHANGED status
    BY <1>1, <2>1
  <2>2. CASE ~ UNCHANGED status
    <3>1. PICK t \in Soonest(delayed) : ~(due[t] > now) /\ Become({t}, "running")
      BY <1>4, <2>2 DEF EnterTimer
    <3>2. t \in delayed /\ t \in Tasks /\ due[t] \in Int /\ now \in Int
      BY <1>0 DEF Soonest, TypeOK
    <3>3. status[t] = "accepted"
      BY <1>0, <3>2, AccountedIs
    <3> QED
      BY <1>2, <3>1, <3>2, <3>3
  <2> QED
    BY <2>1, <2>2
<1>5. CASE Timeout
  <2>1. CASE delayed = {}
    BY <1>1, <1>5, <2>1 DEF Timeout
  <2>2. CASE delayed # {}
    <3>1. due[top] <= now /\ Become({top}, "running") /\ worker = "timed"
      BY <1>5, <2>2 DEF Timeout
    <3>2. top \in Tasks /\ due[top] \in Int /\ now \in Int
      BY <1>0 DEF TypeOK
    <3>3. top \in delayed
      BY <1>0, <2>2, <3>1, <3>2 DEF WaitsForTop, Soonest
    <3>4. status[top] = "accepted"
      BY <1>0, <3>2, <3>3, AccountedIs
    <3> QED
      BY <1>2, <3>1, <3>2, <3>4
  <2> QED
    BY <2>1, <2>2
<1>6. CASE Ran
  <2>1. \A u \in Tasks : status'[u] = IF status[u] = "running" THEN "ran" ELSE status[u]
    BY <1>6 DEF Ran
  <2>2. Status' = Status
    BY <2>1 DEF Status
  <2>3. {u \in Tasks : status'[u] = "accepted"} = {u \in Tasks : status[u] = "accepted"}
    BY <2>1
  <2>4. Waiting' = Waiting
    BY <1>0, <2>3 DEF Waiting
  <2> QED
    BY <1>0, <2>2, <2>4 DEF DE!vars
<1> QED
  BY <1>3, <1>4, <1>5, <1>6

\* The initial states are those of DelayedExecutor.
LEMMA InitRefines == Init => DE!Init
<1> SUFFICES ASSUME Init PROVE DE!Init
  OBVIOUS
<1>1. Status = [t \in Tasks |-> "new"]
  BY DEF Init, Status
<1>2. Waiting = {}
  BY DEF Init, Waiting
<1> QED
  BY <1>1, <1>2 DEF Init, DE!Init

\* Every step maps to one of DelayedExecutor or to a stutter.
LEMMA LoopRefines == LoopInv /\ [Next]_vars => [prompt => DE!Next]_(DE!vars)
<1> SUFFICES ASSUME LoopInv, [Next]_vars, prompt PROVE [DE!Next]_(DE!vars)
  OBVIOUS
<1>1. CASE \E t \in Tasks : \/ \E d \in Delays : Accept(t, d)
                            \/ RunInline(t) \/ Refuse(t) \/ RunDetached(t)
  BY <1>1, CallersRefine
<1>2. CASE \/ \E t \in Tasks : Push(t)
           \/ NotifyOne \/ Shutdown \/ NotifyAll \/ Join \/ Check \/ Tick \/ UNCHANGED vars
  BY <1>2, IdleRefines
<1>3. CASE ClearQueue
  BY <1>3, ClearRefines
<1>4. CASE EnterLooper \/ EnterTimer \/ Timeout \/ Ran
  BY <1>4, ThreadRefines
<1> QED
  BY <1>1, <1>2, <1>3, <1>4 DEF Next, WorkerStep

\* Whatever executor it is: while notifications are prompt, a task that is
\* accepted begins at most once and not before its time, and one that is refused
\* or cleared never begins.
THEOREM ExecutorsRefineDelayedExecutor ==
  ASSUME ExecutorsAssumption
  PROVE  Spec => ImplementsDelayedExecutor
  BY LoopInductive, InitRefines, LoopRefines, PTL DEF Spec, ImplementsDelayedExecutor

-----------------------------------------------------------------------------
(***************************************************************************)
(* The three IO engines: where an operation is, from submit() to its       *)
(* completion.                                                             *)
(***************************************************************************)
\* What is in a queue is there once.
QueuesOK ==
  /\ pending_ops_ \in Seq(Ops) /\ IsInjective(pending_ops_)
  /\ cq \in Seq(Ops \cup {Wakeup}) /\ IsInjective(cq)

\* An operation that is anywhere has been built, for an object.
BuiltFirst ==
  \A o \in Ops :
    IF type[o] = "none"
    THEN /\ completions[o] = 0 /\ submitting[o] = "none"
         /\ o \notin Pending \cup flying \cup kernel \cup sq \cup ToSet(cq)
    ELSE obj[o] \in Objects

\* Types, and what holds of the operations on every platform.
OpsInv ==
  /\ EnginesTypeOK
  /\ QueuesOK
  /\ BuiltFirst
  /\ CompletedOnce
  /\ flying \cap Pending = {}
  /\ \A o \in Pending : completions[o] = 0

\* linux: nobody is told of anything, nor waits for the eventfd, before run().
UringInv ==
  /\ UringAccounted
  /\ loop = "starting" =>
       (eventfd \/ Pending = {}) /\ Wakeup \notin sq \cup kernel \cup ToSet(cq)

\* The numbers of a queue's operations grow from its head to its end.
Ascending(s) == \A i, j \in 1 .. Len(s) : i < j => s[i] < s[j]

\* macos: operations are taken off the queue in the order in which they were
\* submitted, so that the one that evicts another is the later one.
KqueueInv ==
  /\ KqueueAccounted
  /\ \A o, p \in Ops : p < o /\ type[o] # "none" => type[p] # "none"
  /\ Ascending(pending_ops_)
  /\ \A o \in flying, p \in Pending : o < p

\* windows: what is about to be entered or started is outstanding as long as the
\* engine runs.
IocpInv ==
  /\ IocpAccounted
  /\ pending_ops_ = <<>>
  /\ stopping => ~running_
  /\ kernel \cup ToSet(cq) \subseteq Ops
  /\ running_ => \A o \in Ops :
       /\ submitting[o] \in {"admitted", "entered"} => completions[o] = 0
       /\ submitting[o] = "entered" => o \in flying

\* The inductive invariant.
EnginesInv ==
  /\ OpsInv
  /\ platform = "linux" => UringInv
  /\ platform = "macos" => KqueueInv
  /\ platform = "windows" => IocpInv

\* A queue without duplicates gets one more at its end.
LEMMA QueueAppends ==
  ASSUME NEW S, NEW s \in Seq(S), IsInjective(s), NEW e \in S, e \notin ToSet(s)
  PROVE  /\ Append(s, e) \in Seq(S) /\ IsInjective(Append(s, e))
         /\ ToSet(Append(s, e)) = ToSet(s) \cup {e}
<1>1. ~Contains(s, e)
  BY ToSetProperties
<1> QED
  BY <1>1, AppendFresh, ToSetProperties

\* The queue without its head.
LEMMA QueueAdvances ==
  ASSUME NEW S, NEW s \in Seq(S), IsInjective(s), s # <<>>
  PROVE  /\ Head(s) \in S /\ Head(s) \in ToSet(s)
         /\ Tail(s) \in Seq(S) /\ IsInjective(Tail(s))
         /\ ToSet(Tail(s)) = ToSet(s) \ {Head(s)}
  BY TailProperties, ToSetProperties

\* The queue that has nothing.
LEMMA QueueEmpty ==
  ASSUME NEW S PROVE <<>> \in Seq(S) /\ IsInjective(<<>>) /\ ToSet(<<>>) = {}
  BY EmptySeq DEF IsInjective, ToSet

\* So does one whose numbers grow, if what is new has the greatest of them.
LEMMA AscendingAppends ==
  ASSUME NEW s \in Seq(Ops), Ascending(s), NEW o \in Ops, \A p \in ToSet(s) : p < o
  PROVE  Ascending(Append(s, o))
<1>1. Len(s) \in Nat /\ Len(Append(s, o)) = Len(s) + 1
  BY AppendProperties, LenProperties
<1>2. \A i \in 1 .. Len(s) : Append(s, o)[i] = s[i] /\ s[i] < o
  BY AppendProperties DEF ToSet
<1>3. Append(s, o)[Len(s) + 1] = o
  BY AppendProperties
<1> QED
  BY <1>1, <1>2, <1>3 DEF Ascending

\* The head has the least.
LEMMA AscendingAdvances ==
  ASSUME NEW s \in Seq(Ops), s # <<>>, Ascending(s)
  PROVE  Ascending(Tail(s)) /\ \A p \in ToSet(Tail(s)) : Head(s) < p
<1>1. /\ Len(s) \in Nat /\ Len(s) > 0 /\ Tail(s) \in Seq(Ops) /\ Len(Tail(s)) = Len(s) - 1
      /\ Head(s) = s[1]
  BY HeadTailProperties, LenProperties, EmptySeq
<1>2. \A i \in 1 .. Len(Tail(s)) : Tail(s)[i] = s[i + 1] /\ i + 1 \in 1 .. Len(s)
  BY <1>1, HeadTailProperties
<1>3. Ascending(Tail(s))
  BY <1>1, <1>2 DEF Ascending
<1>4. \A i \in 1 .. Len(Tail(s)) : Head(s) < Tail(s)[i]
  BY <1>1, <1>2 DEF Ascending
<1>5. \A p \in ToSet(Tail(s)) : \E i \in 1 .. Len(Tail(s)) : p = Tail(s)[i]
  BY <1>1, LenProperties DEF ToSet
<1> QED
  BY <1>3, <1>4, <1>5

\* What a completion changes: the count and the result of the operations it names.
LEMMA CompletesAll ==
  ASSUME EnginesTypeOK, NEW how, CompleteAll(how), \A o \in Ops \cap DOMAIN how : how[o] \in Results
  PROVE  /\ completions' \in [Ops -> Nat] /\ result' \in [Ops -> Results]
         /\ \A o \in Ops : o \in DOMAIN how => completions'[o] = completions[o] + 1
         /\ \A o \in Ops : o \notin DOMAIN how => completions'[o] = completions[o]
  BY DEF EnginesTypeOK, CompleteAll

\* The same of a single operation.
LEMMA CompletesOne ==
  ASSUME EnginesTypeOK, NEW o \in Ops, NEW how \in Results, Complete(o, how)
  PROVE  /\ completions' \in [Ops -> Nat] /\ result' \in [Ops -> Results]
         /\ completions'[o] = completions[o] + 1
         /\ \A p \in Ops : p # o => completions'[p] = completions[p]
<1> DEFINE one == [p \in {o} |-> how]
<1>1. DOMAIN one = {o} /\ \A p \in {o} : one[p] = how
  OBVIOUS
<1>2. CompleteAll(one)
  BY DEF Complete
<1> HIDE DEF one
<1> QED
  BY <1>1, <1>2, CompletesAll

\* There are finitely many operations.
LEMMA OpsFinite == ASSUME AsyncIOAssumption PROVE IsFiniteSet(Ops)
<1> DEFINE S == {MaxOps[p] : p \in Platforms}
<1>1. MaxOps["linux"] \in Nat /\ MaxOps["macos"] \in Nat /\ MaxOps["windows"] \in Nat
  BY DEF AsyncIOAssumption, Platforms
<1>2. S = {MaxOps["linux"], MaxOps["macos"], MaxOps["windows"]}
  BY DEF Platforms
<1>3. \E x \in S : \A y \in S : x >= y
  BY <1>1, <1>2, SMTT(30)
<1> HIDE DEF S
<1>4. Max(S) \in S
  BY <1>3 DEF Max
<1>5. Max(S) \in Nat
  BY <1>1, <1>2, <1>4
<1> QED
  BY <1>5, FS_Interval DEF S, Ops

\* They are numbers.
LEMMA OpsAreNumbers == ASSUME AsyncIOAssumption PROVE Ops \subseteq Nat
  BY DEF Ops

\* Whoever submits an operation has built it just before.
LEMMA CallBuilds ==
  ASSUME EnginesTypeOK, NEW o \in Ops, Call(o)
  PROVE  /\ type[o] = "none"
         /\ type' \in [Ops -> {"none", "in", "out", "close"}]
         /\ obj' \in [Ops -> Objects \cup {"none"}]
         /\ awaited' \subseteq Ops /\ is_closed_' \subseteq Sockets
         /\ type'[o] # "none" /\ obj'[o] \in Objects
         /\ \A p \in Ops : p # o => type'[p] = type[p] /\ obj'[p] = obj[p]
  BY DEF EnginesTypeOK, Call, Read, Write, CloseSocket, CloseOther, Build, Objects

\* It is the first that has not been built, and nobody else begins to wait.
LEMMA CallIsNext ==
  ASSUME NEW o \in Ops, Call(o)
  PROVE  /\ \A p \in 1 .. o - 1 : type[p] # "none"
         /\ awaited' \in {awaited, awaited \cup {o}}
  BY DEF Call, Read, Write, CloseSocket, CloseOther, Build

\* Nothing is anywhere before the first operation is submitted.
LEMMA EnginesInitInv ==
  ASSUME AsyncIOAssumption, IoUringAssumption, EnginesInit PROVE EnginesInv
<1> USE DEF EnginesInit, IOInit, UringInit, KqueueInit, IocpInit
<1>1. /\ pending_ops_ \in Seq(Ops) /\ IsInjective(pending_ops_) /\ Pending = {}
      /\ cq \in Seq(Ops \cup {Wakeup}) /\ IsInjective(cq) /\ ToSet(cq) = {}
  BY QueueEmpty DEF Pending
<1>2. EnginesTypeOK
  BY <1>1 DEF EnginesTypeOK, Results
<1>3. OpsInv
  BY <1>1, <1>2 DEF OpsInv, QueuesOK, BuiltFirst, CompletedOnce
<1>4. \A o \in Ops : ~Outstanding(o)
  BY DEF Outstanding
<1>5. UringInv
  BY <1>1, <1>4, FS_EmptySet DEF UringInv, UringAccounted, IoUringAssumption
<1>6. Ascending(pending_ops_)
  BY EmptySeq DEF Ascending
<1>7. KqueueInv /\ IocpInv
  BY <1>1, <1>4, <1>6 DEF KqueueInv, KqueueAccounted, IocpInv, IocpAccounted
<1> QED
  BY <1>3, <1>5, <1>7 DEF EnginesInv

-----------------------------------------------------------------------------
(***************************************************************************)
(* linux.                                                                  *)
(***************************************************************************)
\* submit(): an operation that was nowhere is pending.
LEMMA UringSubmits ==
  ASSUME IoUringAssumption, OpsInv, UringInv, NEW o \in Ops, UringSubmit(o),
         UNCHANGED <<kqueueVars, iocpVars>>
  PROVE  OpsInv' /\ UringInv'
<1> USE DEF UringSubmit, setupVars, doneVars, kernelVars, kqueueVars, iocpVars
<1>1. /\ type[o] = "none"
      /\ type' \in [Ops -> {"none", "in", "out", "close"}]
      /\ obj' \in [Ops -> Objects \cup {"none"}]
      /\ awaited' \subseteq Ops /\ is_closed_' \subseteq Sockets
      /\ type'[o] # "none" /\ obj'[o] \in Objects
      /\ \A p \in Ops : p # o => type'[p] = type[p] /\ obj'[p] = obj[p]
  BY CallBuilds DEF OpsInv
<1>2. o \notin Pending \cup flying \cup kernel \cup sq \cup ToSet(cq) /\ completions[o] = 0
  BY <1>1 DEF OpsInv, BuiltFirst
<1>3. /\ pending_ops_' \in Seq(Ops) /\ IsInjective(pending_ops_')
      /\ Pending' = Pending \cup {o}
  BY <1>2, QueueAppends DEF OpsInv, QueuesOK, Pending
<1>4. EnginesTypeOK'
  BY <1>1, <1>3 DEF OpsInv, EnginesTypeOK
<1>5. OpsInv'
  BY <1>1, <1>2, <1>3, <1>4 DEF OpsInv, QueuesOK, BuiltFirst, CompletedOnce
<1>6. \A p \in Ops : p # o => (Outstanding(p)' <=> Outstanding(p))
  BY <1>1 DEF Outstanding
<1>7. \A p \in flying : p \in Ops /\ p # o
  BY <1>2 DEF OpsInv, EnginesTypeOK
<1>8. UringInv'
  BY <1>1, <1>2, <1>3, <1>6, <1>7 DEF UringInv, UringAccounted, Deaf
<1> QED
  BY <1>5, <1>8

\* run() starts to read the eventfd, which is nowhere yet, and stop() signals it.
LEMMA UringRuns ==
  ASSUME IoUringAssumption, platform = "linux", OpsInv, UringInv, UringRun \/ UringStop,
         UNCHANGED <<kqueueVars, iocpVars>>
  PROVE  OpsInv' /\ UringInv'
<1> USE DEF setupVars, objectVars, doneVars, kernelVars, kqueueVars, iocpVars, uringVars
<1>1. CASE UringRun
  <2> USE <1>1 DEF UringRun
  <2>1. Pending' = Pending
    BY DEF Pending
  <2>2. EnginesTypeOK'
    BY <2>1 DEF OpsInv, EnginesTypeOK
  <2>3. BuiltFirst'
    BY <2>1 DEF OpsInv, BuiltFirst, IoUringAssumption
  <2>4. OpsInv'
    BY <2>1, <2>2, <2>3 DEF OpsInv, QueuesOK, CompletedOnce
  <2>5. UringInv'
    BY <2>1 DEF UringInv, UringAccounted, Outstanding, OpsInv, EnginesTypeOK, IoUringAssumption, Deaf
  <2> QED
    BY <2>5, <2>4
<1>2. CASE UringStop
  <2> USE <1>2 DEF UringStop
  <2>1. Pending' = Pending
    BY DEF Pending
  <2>2. EnginesTypeOK'
    BY <2>1 DEF OpsInv, EnginesTypeOK
  <2>3. OpsInv'
    BY <2>1, <2>2 DEF OpsInv, QueuesOK, BuiltFirst, CompletedOnce
  <2>4. UringInv'
    BY <2>1 DEF UringInv, UringAccounted, Outstanding
  <2> QED
    BY <2>3, <2>4
<1> QED
  BY <1>1, <1>2

\* What is in the submission queue is in the kernel.
LEMMA UringSubmitsAndWaits ==
  ASSUME IoUringAssumption, OpsInv, UringInv, UringSubmitAndWait,
         UNCHANGED <<kqueueVars, iocpVars>>
  PROVE  OpsInv' /\ UringInv'
<1> USE DEF UringSubmitAndWait, setupVars, objectVars, kqueueVars, iocpVars
<1>1. Pending' = Pending
  BY DEF Pending
<1>2. result' \in [Ops -> Results]
  BY DEF OpsInv, EnginesTypeOK, Results
<1>3. EnginesTypeOK'
  BY <1>1, <1>2 DEF OpsInv, EnginesTypeOK
<1>4. OpsInv'
  BY <1>1, <1>3 DEF OpsInv, QueuesOK, BuiltFirst, CompletedOnce
<1>5. /\ kernel' \cup sq' = kernel \cup sq /\ sq' \in {sq, {}} /\ kernel' \in {kernel, kernel \cup sq}
      /\ sq' = sq => kernel' = kernel
      /\ UNCHANGED <<type, pending_ops_, flying, completions, cq, eventfd>>
      /\ loop # "starting" /\ loop' # "starting"
  OBVIOUS
<1>6. Cardinality(sq') <= Depth
  <2>1. CASE sq' = {}
    BY <2>1, FS_EmptySet DEF IoUringAssumption
  <2>2. CASE sq' = sq
    BY <2>2 DEF UringInv, UringAccounted, Outstanding
  <2> QED
    BY <1>5, <2>1, <2>2
<1>7. UringAccounted'
  BY <1>1, <1>5, <1>6 DEF UringInv, UringAccounted, Outstanding, Deaf
<1>8. UringInv'
  BY <1>1, <1>5, <1>7 DEF UringInv
<1> QED
  BY <1>4, <1>8

\* The kernel finishes the read of the eventfd or an operation.
LEMMA UringFinishes ==
  ASSUME IoUringAssumption, OpsInv, UringInv, UringFinish,
         UNCHANGED <<kqueueVars, iocpVars>>
  PROVE  OpsInv' /\ UringInv'
<1> USE DEF setupVars, objectVars, doneVars, kqueueVars, iocpVars, uringVars
<1>1. Pending' = Pending
  BY DEF Pending, UringFinish, UringWake, KernelFinish
<1>2. PICK x \in kernel :
        /\ x \in Ops \cup {Wakeup}
        /\ kernel' = kernel \ {x} /\ cq' = Append(cq, x)
        /\ x = Wakeup \/ eventfd' = eventfd
  BY DEF UringFinish, UringWake, KernelFinish
<1>3. x \notin ToSet(cq)
  BY DEF UringInv, UringAccounted
<1>4. /\ cq' \in Seq(Ops \cup {Wakeup}) /\ IsInjective(cq')
      /\ ToSet(cq') = ToSet(cq) \cup {x}
  BY <1>2, <1>3, QueueAppends DEF OpsInv, QueuesOK
<1>5. /\ UNCHANGED <<setupVars, objectVars, pending_ops_, flying, completions, loop, running_, sq>>
      /\ eventfd' \in BOOLEAN
      /\ result' \in [Ops -> Results] /\ fdClosed' \subseteq Objects
  <2>1. CASE UringWake
    BY <2>1 DEF UringWake, OpsInv, EnginesTypeOK
  <2>2. ASSUME NEW o \in Ops, KernelFinish(o), UNCHANGED uringVars
        PROVE  /\ UNCHANGED <<setupVars, objectVars, pending_ops_, flying, completions, loop, running_, sq>>
               /\ eventfd' \in BOOLEAN
               /\ result' \in [Ops -> Results] /\ fdClosed' \subseteq Objects
    <3>1. obj[o] \in Objects
      BY <2>2 DEF KernelFinish, OpsInv, BuiltFirst
    <3> QED
      BY <2>2, <3>1 DEF KernelFinish, Outcome, OpsInv, EnginesTypeOK, Results
  <2> QED
    BY <2>1, <2>2 DEF UringFinish
<1>6. EnginesTypeOK'
  BY <1>1, <1>2, <1>4, <1>5 DEF OpsInv, EnginesTypeOK
<1>7. OpsInv'
  BY <1>1, <1>2, <1>4, <1>5, <1>6 DEF OpsInv, QueuesOK, BuiltFirst, CompletedOnce
<1>8. UringInv'
  BY <1>1, <1>2, <1>4, <1>5 DEF UringInv, UringAccounted, Outstanding, Deaf, IoUringAssumption
<1> QED
  BY <1>7, <1>8

\* process_op takes no more operations than the submission queue has room for,
\* the first of those that are pending.
LEMMA AcceptedFit ==
  ASSUME AsyncIOAssumption, IoUringAssumption, OpsInv, UringInv
  PROVE  /\ IsFiniteSet(sq) /\ Cardinality(sq) \in Nat
         /\ Accepted \subseteq Pending /\ IsFiniteSet(Accepted)
         /\ Cardinality(Accepted) \in Nat
         /\ Cardinality(sq) + Cardinality(Accepted) <= Depth
<1> DEFINE room == Depth - Cardinality(sq)
           n == Min({Len(pending_ops_), room})
           taken == [i \in 1 .. n |-> pending_ops_[i]]
<1>1. IsFiniteSet(Ops \cup {Wakeup})
  BY OpsFinite, FS_AddElement
<1>2. IsFiniteSet(sq) /\ Cardinality(sq) \in Nat
  BY <1>1, FS_Subset, FS_CardinalityType DEF OpsInv, EnginesTypeOK
<1>3. room \in Nat
  BY <1>2 DEF UringInv, UringAccounted, Outstanding, IoUringAssumption
<1>4. pending_ops_ \in Seq(Ops) /\ Len(pending_ops_) \in Nat
  BY LenProperties DEF OpsInv, QueuesOK
<1>5. n \in Nat /\ n <= Len(pending_ops_) /\ n <= room
  <2> HIDE DEF room
  <2>1. \E x \in {Len(pending_ops_), room} : \A y \in {Len(pending_ops_), room} : x =< y
    BY <1>3, <1>4
  <2>2. /\ n \in {Len(pending_ops_), room}
        /\ \A y \in {Len(pending_ops_), room} : n =< y
    BY <2>1 DEF Min
  <2> HIDE DEF n
  <2> QED
    BY <2>2, <1>3, <1>4
<1>6. Accepted = {pending_ops_[i] : i \in 1 .. n}
  BY DEF Accepted
<1> HIDE DEF n, room
<1>7. \A i \in 1 .. n : pending_ops_[i] \in Pending
  BY <1>4, <1>5, LenProperties DEF Pending, ToSet
<1>8. taken \in Surjection(1 .. n, Accepted)
  BY <1>6 DEF Surjection
<1>9. IsFiniteSet(1 .. n) /\ Cardinality(1 .. n) = n
  BY <1>5, FS_Interval
<1>10. IsFiniteSet(Accepted) /\ Cardinality(Accepted) <= n
  BY <1>8, <1>9, FS_Surjection
<1>11. Cardinality(Accepted) \in Nat
  BY <1>10, FS_CardinalityType
<1>12. Cardinality(sq) + Cardinality(Accepted) <= Depth
  BY <1>2, <1>5, <1>10, <1>11 DEF room, IoUringAssumption
<1> QED
  BY <1>2, <1>6, <1>7, <1>10, <1>11, <1>12

\* The eventfd has been read: what was pending is in flight or has failed, and
\* the submission queue still has no more entries than it has room for.
LEMMA UringHandlesWakeup ==
  ASSUME AsyncIOAssumption, IoUringAssumption, OpsInv, UringInv, UringHandle, HandleWakeup,
         UNCHANGED <<kqueueVars, iocpVars>>
  PROVE  OpsInv' /\ UringInv'
<1> USE DEF setupVars, objectVars, kqueueVars, iocpVars
<1> DEFINE q == sq \cup Accepted
           failed == [o \in Rejected |-> "no_buffer_space"]
<1>1. /\ cq' \in Seq(Ops \cup {Wakeup}) /\ IsInjective(cq')
      /\ Wakeup \in ToSet(cq) /\ ToSet(cq') = ToSet(cq) \ {Wakeup}
  BY QueueAdvances DEF OpsInv, QueuesOK, UringHandle, HandleWakeup
<1>2. pending_ops_' \in Seq(Ops) /\ IsInjective(pending_ops_') /\ Pending' = {}
  BY QueueEmpty DEF Pending, HandleWakeup
<1>3. /\ IsFiniteSet(sq) /\ Cardinality(sq) \in Nat
      /\ Accepted \subseteq Pending /\ IsFiniteSet(Accepted)
      /\ Cardinality(Accepted) \in Nat
      /\ Cardinality(sq) + Cardinality(Accepted) <= Depth
  BY AcceptedFit
<1>4. Pending \subseteq Ops
  BY DEF OpsInv, EnginesTypeOK
<1>5. Rejected = Pending \ Accepted
  BY DEF Rejected, Pending
<1>6. /\ completions' \in [Ops -> Nat] /\ result' \in [Ops -> Results]
      /\ \A o \in Rejected : completions'[o] = completions[o] + 1
      /\ \A o \in Ops \ Rejected : completions'[o] = completions[o]
  <2>1. DOMAIN failed = Rejected /\ \A o \in Rejected : failed[o] = "no_buffer_space"
    OBVIOUS
  <2>2. CompleteAll(failed)
    BY DEF HandleWakeup
  <2> HIDE DEF failed
  <2> QED
    BY <1>4, <1>5, <2>1, <2>2, CompletesAll DEF OpsInv, Results
<1>7. IsFiniteSet(q) /\ Cardinality(q) \in Nat /\ Cardinality(q) <= Depth
  <2>1. sq \cap Accepted = {}
    BY <1>3, <1>4 DEF UringInv, UringAccounted, Outstanding, OpsInv, IoUringAssumption
  <2>2. /\ IsFiniteSet(q)
        /\ Cardinality(q) = Cardinality(sq) + Cardinality(Accepted) - Cardinality(sq \cap Accepted)
    BY <1>3, FS_Union
  <2>3. Cardinality(sq \cap Accepted) = 0
    BY <2>1, FS_EmptySet
  <2> HIDE DEF q
  <2> QED
    BY <1>3, <2>2, <2>3
<1>8. Cardinality(sq') <= Depth /\ q \subseteq sq' /\ sq' \subseteq q \cup {Wakeup}
  <2>1. sq' = IF Cardinality(q) < Depth THEN q \cup {Wakeup} ELSE q
    BY DEF HandleWakeup
  <2>2. /\ IsFiniteSet(q \cup {Wakeup})
        /\ Cardinality(q \cup {Wakeup}) \in {Cardinality(q), Cardinality(q) + 1}
    BY <1>7, FS_AddElement
  <2> HIDE DEF q
  <2>3. CASE Cardinality(q) < Depth
    <3>1. sq' = q \cup {Wakeup}
      BY <2>1, <2>3
    <3>2. Cardinality(q \cup {Wakeup}) <= Depth
      BY <1>7, <2>2, <2>3 DEF IoUringAssumption
    <3> QED
      BY <3>1, <3>2
  <2>4. CASE ~(Cardinality(q) < Depth)
    BY <1>7, <2>1, <2>4
  <2> QED
    BY <2>3, <2>4
<1>9. /\ flying' = flying \cup Accepted
      /\ loop' \in {"checking", "waiting"}
      /\ UNCHANGED <<platform, quiet, type, obj, awaited, is_closed_, fdClosed, running_, eventfd,
                     kernel, user, filters, events, submitting, stopping>>
  BY DEF UringHandle, HandleWakeup
<1>10. EnginesTypeOK'
  BY <1>1, <1>2, <1>3, <1>4, <1>6, <1>8, <1>9 DEF OpsInv, EnginesTypeOK
<1>11. BuiltFirst'
  BY <1>1, <1>2, <1>3, <1>4, <1>5, <1>6, <1>8, <1>9 DEF OpsInv, BuiltFirst, IoUringAssumption
<1>12. CompletedOnce'
  <2> SUFFICES ASSUME NEW o \in Ops, completions[o] <= 1 PROVE completions'[o] <= 1
    BY <1>9 DEF CompletedOnce, OpsInv
  <2>1. CASE o \in Rejected
    BY <1>5, <1>6, <2>1 DEF OpsInv
  <2> QED
    BY <1>6, <2>1
<1>13. OpsInv'
  BY <1>1, <1>2, <1>10, <1>11, <1>12 DEF OpsInv, QueuesOK
<1>14. flying' = (sq' \cup kernel' \cup ToSet(cq')) \ {Wakeup}
  BY <1>1, <1>3, <1>4, <1>8, <1>9 DEF UringInv, UringAccounted, Outstanding, IoUringAssumption
<1>15. \A o \in Ops : completions'[o] = 0 /\ type'[o] # "none" => o \in Pending' \cup flying'
  <2> SUFFICES ASSUME NEW o \in Ops, completions'[o] = 0, type[o] # "none"
               PROVE  o \in flying'
    BY <1>9
  <2>1. o \notin Rejected
    BY <1>4, <1>5, <1>6 DEF OpsInv
  <2> QED
    BY <1>5, <1>6, <1>9, <2>1 DEF UringInv, UringAccounted, Outstanding
<1>16. \A o \in flying' : completions'[o] = 0 /\ type'[o] # "none"
  <2>1. \A o \in flying \cup Pending : o \in Ops /\ completions[o] = 0 /\ type[o] # "none"
    BY DEF UringInv, UringAccounted, Outstanding, OpsInv, EnginesTypeOK, BuiltFirst
  <2> QED
    BY <1>3, <1>4, <1>5, <1>6, <1>9, <2>1 DEF OpsInv
<1>17. sq' \cap kernel' = {} /\ sq' \cap ToSet(cq') = {} /\ kernel' \cap ToSet(cq') = {}
  BY <1>1, <1>3, <1>4, <1>8, <1>9 DEF UringInv, UringAccounted, Outstanding, OpsInv, IoUringAssumption
<1>18. UringAccounted'
  BY <1>2, <1>8, <1>14, <1>15, <1>16, <1>17 DEF UringAccounted, Outstanding
<1> QED
  BY <1>9, <1>13, <1>18 DEF UringInv

\* The completion of an operation finds it in flight; nothing else is ignored.
LEMMA UringHandlesOp ==
  ASSUME IoUringAssumption, OpsInv, UringInv, UringHandle, HandleOp \/ IgnoreCqe,
         UNCHANGED <<kqueueVars, iocpVars>>
  PROVE  OpsInv' /\ UringInv'
<1> USE DEF UringHandle, setupVars, objectVars, kqueueVars, iocpVars
<1> DEFINE o == Head(cq)
<1>1. /\ o \in ToSet(cq)
      /\ cq' \in Seq(Ops \cup {Wakeup}) /\ IsInjective(cq')
      /\ ToSet(cq') = ToSet(cq) \ {o}
  BY QueueAdvances DEF OpsInv, QueuesOK, HandleOp, IgnoreCqe
<1>2. HandleOp
  BY <1>1 DEF IgnoreCqe, UringInv, UringAccounted, Outstanding
<1>3. o \in flying /\ flying' = flying \ {o} /\ UNCHANGED <<pending_ops_, sq>>
  BY <1>2 DEF HandleOp
<1>4. o \in Ops /\ o # Wakeup /\ completions[o] = 0 /\ result[o] \in Results /\ o \notin Pending
  BY <1>3 DEF OpsInv, EnginesTypeOK, IoUringAssumption, UringInv, UringAccounted, Outstanding
<1>5. /\ completions' \in [Ops -> Nat] /\ result' \in [Ops -> Results]
      /\ completions'[o] = completions[o] + 1
      /\ \A p \in Ops : p # o => completions'[p] = completions[p]
  BY <1>2, <1>4, CompletesOne DEF HandleOp, OpsInv
<1> HIDE DEF o
<1>6. Pending' = Pending /\ loop' \in {"checking", "waiting"}
  BY <1>3 DEF Pending
<1>7. EnginesTypeOK'
  BY <1>1, <1>3, <1>5, <1>6 DEF OpsInv, EnginesTypeOK
<1>8. BuiltFirst'
  BY <1>1, <1>3, <1>4, <1>5, <1>6 DEF OpsInv, BuiltFirst
<1>9. CompletedOnce'
  BY <1>4, <1>5 DEF OpsInv, CompletedOnce
<1>10. \A p \in Pending : p \in Ops /\ p # o /\ completions[p] = 0
  BY <1>4 DEF OpsInv, EnginesTypeOK
<1>11. OpsInv'
  BY <1>1, <1>3, <1>5, <1>6, <1>7, <1>8, <1>9, <1>10 DEF OpsInv, QueuesOK
<1>12. \A p \in Ops : Outstanding(p)' <=> Outstanding(p) /\ p # o
  BY <1>4, <1>5 DEF Outstanding, OpsInv, EnginesTypeOK
<1>13. \A p \in flying : p \in Ops /\ Outstanding(p)
  BY DEF UringInv, UringAccounted, OpsInv, EnginesTypeOK
<1>14. UringAccounted'
  BY <1>1, <1>3, <1>4, <1>6, <1>12, <1>13 DEF UringInv, UringAccounted, Deaf
<1>15. UringInv'
  BY <1>6, <1>14 DEF UringInv
<1> QED
  BY <1>11, <1>15

\* Every step of the engine on linux.
LEMMA UringPreserves ==
  ASSUME AsyncIOAssumption, IoUringAssumption, platform = "linux", OpsInv, UringInv, UringNext,
         UNCHANGED <<kqueueVars, iocpVars>>
  PROVE  OpsInv' /\ UringInv'
<1>1. UringHandle => HandleWakeup \/ HandleOp \/ IgnoreCqe
  BY DEF UringHandle
<1> QED
  BY <1>1, UringSubmits, UringRuns, UringSubmitsAndWaits, UringFinishes, UringHandlesWakeup,
     UringHandlesOp DEF UringNext, UringLoop

-----------------------------------------------------------------------------
(***************************************************************************)
(* macos.                                                                  *)
(***************************************************************************)
\* Steps that leave every operation where it is.
LEMMA KqueueTurns ==
  ASSUME platform = "macos", OpsInv, KqueueInv,
         KqueueRun \/ KqueueCheck \/ KqueueUnlock \/ KqueueStop \/ KqueueWait,
         UNCHANGED <<uringVars, iocpVars>>
  PROVE  OpsInv' /\ KqueueInv'
<1> USE DEF setupVars, objectVars, doneVars, kernelVars, kqueueVars, uringVars, iocpVars
<1>1. /\ UNCHANGED <<setupVars, objectVars, fdClosed, pending_ops_, flying, doneVars, kernelVars>>
      /\ running_' \in BOOLEAN /\ user' \in BOOLEAN
      /\ loop' \in {"starting", "checking", "draining", "waiting", "handling", "exited"}
  BY DEF KqueueRun, KqueueCheck, KqueueUnlock, KqueueStop, KqueueWait, OpsInv, EnginesTypeOK
<1>2. /\ filters' \subseteq filters
      /\ filters \cup events \subseteq filters' \cup events'
      /\ events' \subseteq events \cup filters \cup {WakeupEvent}
  <2>1. CASE KqueueWait
    <3>1. PICK some \in SUBSET Occurring \ {{}} : events' = some /\ filters' = filters \ some
      BY <2>1 DEF KqueueWait
    <3> QED
      BY <2>1, <3>1 DEF KqueueWait, Occurring
  <2> QED
    BY <2>1 DEF KqueueRun, KqueueCheck, KqueueUnlock, KqueueStop
<1>3. Pending' = Pending
  BY <1>1 DEF Pending
<1>4. EnginesTypeOK'
  BY <1>1, <1>2, <1>3 DEF OpsInv, EnginesTypeOK
<1>5. OpsInv'
  BY <1>1, <1>3, <1>4 DEF OpsInv, QueuesOK, BuiltFirst, CompletedOnce
<1>6. user' \/ events' # {} \/ Pending' = {} \/ loop' # "waiting"
  <2>1. CASE KqueueUnlock
    BY <1>3, <2>1, QueueEmpty DEF KqueueUnlock, Pending
  <2>2. CASE KqueueStop
    BY <2>2 DEF KqueueStop
  <2> QED
    BY <2>1, <2>2 DEF KqueueRun, KqueueCheck, KqueueWait
<1>7. KqueueInv'
  BY <1>1, <1>2, <1>3, <1>6 DEF KqueueInv, KqueueAccounted, Outstanding, Evicted, Pending
<1> QED
  BY <1>5, <1>7

\* submit(): an operation that was nowhere is pending, the active ones stay.
LEMMA KqueueSubmits ==
  ASSUME AsyncIOAssumption, platform = "macos", OpsInv, KqueueInv, NEW o \in Ops, KqueueSubmit(o),
         UNCHANGED <<uringVars, iocpVars>>
  PROVE  OpsInv' /\ KqueueInv'
<1> USE DEF KqueueSubmit, setupVars, doneVars, kernelVars, uringVars, iocpVars
<1>1. /\ type[o] = "none"
      /\ type' \in [Ops -> {"none", "in", "out", "close"}]
      /\ obj' \in [Ops -> Objects \cup {"none"}]
      /\ awaited' \subseteq Ops /\ is_closed_' \subseteq Sockets
      /\ type'[o] # "none" /\ obj'[o] \in Objects
      /\ \A p \in Ops : p # o => type'[p] = type[p] /\ obj'[p] = obj[p]
  BY CallBuilds DEF OpsInv
<1>2. o \notin Pending \cup flying \cup kernel \cup sq \cup ToSet(cq) /\ completions[o] = 0
  BY <1>1 DEF OpsInv, BuiltFirst
<1>3. /\ pending_ops_' \in Seq(Ops) /\ IsInjective(pending_ops_')
      /\ Pending' = Pending \cup {o}
  BY <1>2, QueueAppends DEF OpsInv, QueuesOK, Pending
<1>4. EnginesTypeOK'
  BY <1>1, <1>3 DEF OpsInv, EnginesTypeOK
<1>5. OpsInv'
  BY <1>1, <1>2, <1>3, <1>4 DEF OpsInv, QueuesOK, BuiltFirst, CompletedOnce
<1>6. \A p \in Pending \cup flying : p \in Ops /\ p # o /\ type[p] # "none"
  BY <1>2 DEF OpsInv, EnginesTypeOK, BuiltFirst
<1>7. o \in Nat /\ Ops \subseteq Nat
  BY OpsAreNumbers
<1>8. \A p \in Pending \cup flying : p < o
  <2> SUFFICES ASSUME NEW p \in Pending \cup flying PROVE p < o
    OBVIOUS
  <2>1. ~(o < p)
    BY <1>1, <1>6 DEF KqueueInv
  <2>2. p \in Nat /\ o \in Nat /\ p # o
    BY <1>6, <1>7
  <2> QED
    BY <2>1, <2>2
<1>9. \A p, q \in Ops : q < p /\ type'[p] # "none" => type'[q] # "none"
  <2> SUFFICES ASSUME NEW p \in Ops, NEW q \in Ops, q < p, type'[p] # "none" PROVE type'[q] # "none"
    OBVIOUS
  <2>1. CASE p = o
    <3>1. q \in 1 .. o - 1 /\ q # o
      BY <1>7, <2>1 DEF Ops
    <3> QED
      BY <1>1, <3>1, CallIsNext
  <2>2. CASE p # o
    BY <1>1, <2>2 DEF KqueueInv
  <2> QED
    BY <2>1, <2>2
<1>10. Ascending(pending_ops_')
  BY <1>8, AscendingAppends DEF KqueueInv, OpsInv, QueuesOK, Pending
<1>11. \A p \in flying', q \in Pending' : p < q
  BY <1>3, <1>8 DEF KqueueInv
<1>12. \A p \in Ops : p # o => (Outstanding(p)' <=> Outstanding(p))
  BY <1>1 DEF Outstanding
<1>13. ASSUME NEW p \in Ops, Evicted(p), p # o PROVE Evicted(p)'
  <2>1. PICK q \in Ops \ Pending : q > p /\ obj[q] = obj[p] /\ type[q] \in {"in", "out"}
    BY <1>13 DEF Evicted, Pending
  <2>2. q # o /\ type'[q] = type[q] /\ obj'[q] = obj[p] /\ obj'[p] = obj[p]
    BY <1>1, <1>13, <2>1
  <2> QED
    BY <1>3, <1>12, <1>13, <2>1, <2>2 DEF Evicted, Pending
<1>14. \A p \in Ops : Outstanding(p)' => p \in Pending' \cup flying' \/ Evicted(p)'
  BY <1>3, <1>12, <1>13 DEF KqueueInv, KqueueAccounted
<1>15. KqueueAccounted'
  <2>1. \A p \in flying : p \in Ops /\ obj'[p] = obj[p] /\ (Outstanding(p)' <=> Outstanding(p))
    BY <1>1, <1>6, <1>12
  <2>2. user' /\ UNCHANGED <<flying, fdClosed, filters, events>>
    OBVIOUS
  <2> QED
    BY <1>14, <2>1, <2>2 DEF KqueueInv, KqueueAccounted
<1> QED
  BY <1>5, <1>9, <1>10, <1>11, <1>15 DEF KqueueInv

\* The thread takes an operation off the queue: it is registered, in the place
\* of another on the same descriptor, or completed.
LEMMA KqueueProcesses ==
  ASSUME AsyncIOAssumption, platform = "macos", OpsInv, KqueueInv, KqueueProcess, UNCHANGED <<uringVars, iocpVars>>
  PROVE  OpsInv' /\ KqueueInv'
<1> USE DEF setupVars, objectVars, kernelVars, uringVars, iocpVars
<1> DEFINE o == Head(pending_ops_)
<1>1. /\ o \in Ops /\ o \in Pending
      /\ pending_ops_' \in Seq(Ops) /\ IsInjective(pending_ops_')
      /\ Pending' = Pending \ {o}
  BY QueueAdvances DEF OpsInv, QueuesOK, KqueueProcess, Pending
<1>2. ProcessIO(o) \/ ProcessClose(o)
  BY DEF KqueueProcess
<1>3. /\ UNCHANGED <<platform, quiet, type, obj, awaited, is_closed_, kernel, cq, loop, running_,
                     user, events, eventfd, sq, submitting, stopping>>
      /\ loop = "draining"
  BY DEF KqueueProcess
<1> HIDE DEF o
<1>4. completions[o] = 0 /\ o \notin flying /\ type[o] # "none" /\ obj[o] \in Objects
  BY <1>1 DEF OpsInv, BuiltFirst
<1>5. flying \subseteq Ops /\ \A p \in flying : completions[p] = 0 /\ p \notin Pending /\ type[p] # "none"
  BY DEF OpsInv, EnginesTypeOK, KqueueInv, KqueueAccounted, Outstanding
<1>6. SUFFICES
        /\ completions' \in [Ops -> Nat] /\ result' \in [Ops -> Results]
        /\ filters' \subseteq Objects \X {"in", "out"} /\ fdClosed' \subseteq Objects
        /\ flying' \subseteq flying \cup {o}
        /\ \A p \in Ops : p \notin flying \cup {o} => completions'[p] = completions[p]
        /\ \A p \in flying \cup {o} : completions'[p] \in {0, 1}
        /\ \A p \in flying' : completions'[p] = 0
        /\ \A p, q \in flying' : obj[p] = obj[q] => p = q
        /\ \A p \in flying' : \E f \in filters' \cup events : f[1] = obj[p]
        /\ \A p \in flying' : obj[p] \notin fdClosed'
        /\ \A p \in (flying \cup {o}) \ flying' :
             completions'[p] = 1 \/ (p # o /\ type[o] \in {"in", "out"} /\ obj[o] = obj[p])
  <2>1. EnginesTypeOK'
    BY <1>1, <1>3, <1>5, <1>6 DEF OpsInv, EnginesTypeOK
  <2>2. QueuesOK'
    BY <1>1, <1>3 DEF OpsInv, QueuesOK
  <2>3. BuiltFirst'
    BY <1>1, <1>3, <1>4, <1>5, <1>6 DEF OpsInv, BuiltFirst
  <2>4. CompletedOnce'
    <3>1. \A p \in Ops : completions'[p] = completions[p] \/ completions'[p] \in {0, 1}
      BY <1>6
    <3> QED
      BY <1>3, <3>1 DEF OpsInv, CompletedOnce
  <2>5. flying' \cap Pending' = {} /\ \A p \in Pending' : completions'[p] = 0
    BY <1>1, <1>5, <1>6 DEF OpsInv, EnginesTypeOK
  <2>6. /\ Ascending(pending_ops_') /\ \A p \in Pending' : o < p
        /\ \A p \in flying : p < o
    BY <1>1, AscendingAdvances DEF KqueueInv, OpsInv, QueuesOK, KqueueProcess, Pending, o
  <2>7. \A p \in flying', q \in Pending' : p < q
    BY <1>1, <1>6, <2>6 DEF KqueueInv
  <2>8. \A p \in Ops : p \notin flying \cup {o} => (Outstanding(p)' <=> Outstanding(p))
    BY <1>3, <1>6 DEF Outstanding
  <2>9. ASSUME NEW p \in Ops, Outstanding(p)', p \notin Pending' \cup flying' PROVE Evicted(p)'
    <3>1. CASE p \in flying \cup {o}
      <4>1. p # o /\ type[o] \in {"in", "out"} /\ obj[o] = obj[p] /\ p < o
        BY <1>6, <2>6, <2>9, <3>1 DEF Outstanding
      <4>2. o \in Ops \ Pending' /\ o > p
        BY <1>1, <4>1, OpsAreNumbers
      <4> QED
        BY <1>3, <2>9, <4>1, <4>2 DEF Evicted, Pending
    <3>2. CASE p \notin flying \cup {o}
      <4>1. Evicted(p)
        BY <1>1, <2>8, <2>9, <3>2 DEF KqueueInv, KqueueAccounted
      <4>2. PICK q \in Ops \ Pending : q > p /\ obj[q] = obj[p] /\ type[q] \in {"in", "out"}
        BY <4>1 DEF Evicted, Pending
      <4> QED
        BY <1>1, <1>3, <2>9, <4>2 DEF Evicted, Pending
    <3> QED
      BY <3>1, <3>2
  <2>10. \A p \in flying' : Outstanding(p)'
    BY <1>3, <1>4, <1>5, <1>6 DEF Outstanding
  <2>11. user' \/ events' # {} \/ Pending' = {} \/ loop' # "waiting"
    BY <1>3
  <2>12. KqueueAccounted'
    BY <1>3, <1>6, <2>9, <2>10, <2>11 DEF KqueueAccounted
  <2>13. KqueueInv'
    BY <1>3, <2>6, <2>7, <2>12 DEF KqueueInv
  <2> QED
    BY <2>1, <2>2, <2>3, <2>4, <2>5, <2>13 DEF OpsInv
<1>7. CASE ProcessIO(o) /\ obj[o] \in fdClosed
  <2>1. Complete(o, "error") /\ UNCHANGED <<flying, filters, fdClosed>>
    BY <1>7 DEF ProcessIO
  <2>2. /\ completions' \in [Ops -> Nat] /\ result' \in [Ops -> Results]
        /\ completions'[o] = completions[o] + 1
        /\ \A p \in Ops : p # o => completions'[p] = completions[p]
    BY <1>1, <2>1, CompletesOne DEF OpsInv, Results
  <2> QED
    BY <1>1, <1>4, <1>5, <2>1, <2>2 DEF KqueueInv, KqueueAccounted, OpsInv, EnginesTypeOK
<1>8. CASE ProcessIO(o) /\ obj[o] \notin fdClosed
  <2>1. /\ filters' = filters \cup {<<obj[o], type[o]>>}
        /\ flying' = {p \in flying : obj[p] # obj[o]} \cup {o}
        /\ UNCHANGED <<completions, result, fdClosed>>
        /\ type[o] \in {"in", "out"}
    BY <1>1, <1>4, <1>8 DEF ProcessIO, doneVars, OpsInv, EnginesTypeOK
  <2>2. filters' \subseteq Objects \X {"in", "out"}
    BY <1>4, <2>1 DEF OpsInv, EnginesTypeOK
  <2>3. \A p \in flying' : \E f \in filters' \cup events : f[1] = obj[p]
    <3>1. <<obj[o], type[o]>> \in filters' /\ <<obj[o], type[o]>>[1] = obj[o]
      BY <2>1
    <3> QED
      BY <2>1, <3>1 DEF KqueueInv, KqueueAccounted
  <2> QED
    BY <1>1, <1>4, <1>5, <1>8, <2>1, <2>2, <2>3
       DEF KqueueInv, KqueueAccounted, OpsInv, EnginesTypeOK
<1>9. CASE ProcessClose(o)
  <2> DEFINE active == {p \in flying : obj[p] = obj[o]}
             how == [p \in active \cup {o} |-> IF p = o THEN Outcome(o) ELSE "canceled"]
  <2>1. /\ filters' = {f \in filters : f[1] # obj[o]}
        /\ fdClosed' = fdClosed \cup {obj[o]}
        /\ CompleteAll(how)
        /\ flying' = flying \ active
    BY <1>9 DEF ProcessClose
  <2>2. DOMAIN how = active \cup {o} /\ \A p \in active \cup {o} : how[p] \in Results
    BY DEF Outcome, Results
  <2>3. /\ completions' \in [Ops -> Nat] /\ result' \in [Ops -> Results]
        /\ \A p \in Ops : p \in active \cup {o} => completions'[p] = completions[p] + 1
        /\ \A p \in Ops : p \notin active \cup {o} => completions'[p] = completions[p]
    <3> HIDE DEF how
    <3> QED
      BY <2>1, <2>2, CompletesAll DEF OpsInv
  <2> HIDE DEF how
  <2>4. \A p \in flying \cup {o} : completions'[p] \in {0, 1}
    BY <1>1, <1>4, <1>5, <2>3
  <2>5. \A p \in flying' : completions'[p] = 0
    BY <1>4, <1>5, <2>1, <2>3
  <2>6. \A p \in flying' : \E f \in filters' \cup events : f[1] = obj[p]
    BY <2>1 DEF KqueueInv, KqueueAccounted
  <2> QED
    BY <1>1, <1>4, <2>1, <2>3, <2>4, <2>5, <2>6 DEF KqueueInv, KqueueAccounted, OpsInv, EnginesTypeOK
<1> QED
  BY <1>2, <1>7, <1>8, <1>9

\* An event completes the operation of its descriptor, if there is one.
LEMMA KqueueHandles ==
  ASSUME platform = "macos", OpsInv, KqueueInv, KqueueHandle, UNCHANGED <<uringVars, iocpVars>>
  PROVE  OpsInv' /\ KqueueInv'
<1> USE DEF setupVars, objectVars, kernelVars, uringVars, iocpVars
<1>1. PICK e \in events : events' = events \ {e} /\ Perform(e)
  BY DEF KqueueHandle
<1> DEFINE active == {p \in flying : obj[p] = e[1]}
           how == [p \in active |-> "done"]
<1>2. flying' = flying \ active /\ CompleteAll(how)
  BY <1>1 DEF Perform
<1>3. DOMAIN how = active /\ \A p \in active : how[p] \in Results
  BY DEF Results
<1>4. /\ completions' \in [Ops -> Nat] /\ result' \in [Ops -> Results]
      /\ \A p \in Ops : p \in active => completions'[p] = completions[p] + 1
      /\ \A p \in Ops : p \notin active => completions'[p] = completions[p]
  <2> HIDE DEF how
  <2> QED
    BY <1>2, <1>3, CompletesAll DEF OpsInv
<1>5. /\ UNCHANGED <<platform, quiet, type, obj, awaited, is_closed_, fdClosed, pending_ops_,
                     kernel, cq, running_, user, filters, eventfd, sq, submitting, stopping>>
      /\ loop' \in {"checking", "handling"}
  BY DEF KqueueHandle
<1>6. Pending' = Pending
  BY <1>5 DEF Pending
<1>7. flying \subseteq Ops /\ \A p \in flying : completions[p] = 0 /\ p \notin Pending /\ type[p] # "none"
  BY DEF OpsInv, EnginesTypeOK, KqueueInv, KqueueAccounted, Outstanding
<1>8. EnginesTypeOK'
  BY <1>1, <1>2, <1>4, <1>5, <1>6 DEF OpsInv, EnginesTypeOK
<1>9. BuiltFirst'
  BY <1>2, <1>4, <1>5, <1>6, <1>7 DEF OpsInv, BuiltFirst
<1>10. CompletedOnce'
  BY <1>4, <1>5, <1>7 DEF OpsInv, CompletedOnce
<1>11. flying' \cap Pending' = {} /\ \A p \in Pending' : completions'[p] = 0
  BY <1>2, <1>4, <1>6, <1>7 DEF OpsInv, EnginesTypeOK
<1>12. \A p \in flying' : \E f \in filters' \cup events' : f[1] = obj[p]
  BY <1>1, <1>2, <1>5 DEF KqueueInv, KqueueAccounted
<1>13. \A p \in Ops : Outstanding(p)' <=> Outstanding(p) /\ p \notin active
  BY <1>4, <1>5, <1>7 DEF Outstanding
<1>14. \A p \in Ops : Outstanding(p)' => p \in Pending' \cup flying' \/ Evicted(p)'
  <2>1. \A p \in Ops : Outstanding(p)' /\ Evicted(p) => Evicted(p)'
    BY <1>2, <1>5 DEF Evicted
  <2> QED
    BY <1>2, <1>6, <1>13, <2>1 DEF KqueueInv, KqueueAccounted
<1>15. KqueueAccounted'
  BY <1>2, <1>5, <1>6, <1>7, <1>12, <1>13, <1>14 DEF KqueueInv, KqueueAccounted
<1>16. KqueueInv'
  BY <1>2, <1>5, <1>6, <1>15 DEF KqueueInv
<1> QED
  BY <1>5, <1>8, <1>9, <1>10, <1>11, <1>16 DEF OpsInv, QueuesOK

\* Every step of the engine on macos.
LEMMA KqueuePreserves ==
  ASSUME AsyncIOAssumption, platform = "macos", OpsInv, KqueueInv, KqueueNext, UNCHANGED <<uringVars, iocpVars>>
  PROVE  OpsInv' /\ KqueueInv'
  BY KqueueTurns, KqueueSubmits, KqueueProcesses, KqueueHandles DEF KqueueNext, KqueueLoop

-----------------------------------------------------------------------------
(***************************************************************************)
(* windows.                                                                *)
(***************************************************************************)
\* Steps that leave every operation where it is.
LEMMA IocpTurns ==
  ASSUME platform = "windows", OpsInv, IocpInv,
         IocpRun \/ IocpCheck \/ IocpTimeout \/ IocpStop,
         UNCHANGED <<uringVars, kqueueVars>>
  PROVE  OpsInv' /\ IocpInv'
<1> USE DEF setupVars, objectVars, doneVars, kernelVars, kqueueVars, uringVars, iocpVars
<1>1. /\ UNCHANGED <<setupVars, objectVars, fdClosed, pending_ops_, flying, doneVars, kernelVars,
                     submitting>>
      /\ running_' \in BOOLEAN /\ (running_' => running_)
      /\ loop' \in {"starting", "checking", "draining", "waiting", "handling", "exited"}
  <2>1. CASE IocpStop
    BY <2>1 DEF IocpStop, OpsInv, EnginesTypeOK
  <2>2. CASE IocpRun \/ IocpCheck \/ IocpTimeout
    BY <2>2 DEF IocpRun, IocpCheck, IocpTimeout, OpsInv, EnginesTypeOK
  <2> QED
    BY <2>1, <2>2
<1>2. Pending' = Pending
  BY <1>1 DEF Pending
<1>3. EnginesTypeOK'
  BY <1>1, <1>2 DEF OpsInv, EnginesTypeOK
<1>4. OpsInv'
  BY <1>1, <1>2, <1>3 DEF OpsInv, QueuesOK, BuiltFirst, CompletedOnce
<1>5. stopping' => ~running_'
  BY <1>1 DEF IocpRun, IocpCheck, IocpTimeout, IocpStop, IocpInv
<1>6. IocpInv'
  BY <1>1, <1>5 DEF IocpInv, IocpAccounted, Outstanding, Unposted
<1> QED
  BY <1>4, <1>6

\* submit() admits the operation, or completes it at once when the engine is stopped.
LEMMA IocpSubmits ==
  ASSUME platform = "windows", OpsInv, IocpInv, NEW o \in Ops, IocpSubmit(o),
         UNCHANGED <<uringVars, kqueueVars>>
  PROVE  OpsInv' /\ IocpInv'
<1> USE DEF setupVars, kernelVars, uringVars, kqueueVars
<1>1. /\ type[o] = "none"
      /\ type' \in [Ops -> {"none", "in", "out", "close"}]
      /\ obj' \in [Ops -> Objects \cup {"none"}]
      /\ awaited' \subseteq Ops /\ is_closed_' \subseteq Sockets
      /\ type'[o] # "none" /\ obj'[o] \in Objects
      /\ \A p \in Ops : p # o => type'[p] = type[p] /\ obj'[p] = obj[p]
  BY CallBuilds DEF OpsInv, IocpSubmit
<1>2. /\ o \notin Pending \cup flying \cup kernel \cup sq \cup ToSet(cq)
      /\ completions[o] = 0 /\ submitting[o] = "none"
  BY <1>1 DEF OpsInv, BuiltFirst
<1>3. UNCHANGED <<platform, quiet, fdClosed, pending_ops_, flying, kernel, cq, loop, running_, stopping>>
  BY DEF IocpSubmit
<1>4. Pending' = Pending
  BY <1>3 DEF Pending
<1>5. /\ completions' \in [Ops -> Nat] /\ result' \in [Ops -> Results]
      /\ submitting' \in [Ops -> {"none", "admitted", "entered", "started"}]
      /\ completions'[o] \in {0, 1} /\ (running_ => completions'[o] = 0)
      /\ submitting'[o] \in {"none", "admitted"}
      /\ \A p \in Ops : p # o => completions'[p] = completions[p] /\ submitting'[p] = submitting[p]
  <2>1. CASE running_
    BY <1>2, <2>1 DEF IocpSubmit, doneVars, OpsInv, EnginesTypeOK
  <2>2. CASE ~running_
    <3>1. Complete(o, "canceled") /\ UNCHANGED submitting
      BY <2>2 DEF IocpSubmit
    <3> QED
      BY <1>2, <2>2, <3>1, CompletesOne DEF OpsInv, EnginesTypeOK, Results
  <2> QED
    BY <2>1, <2>2
<1>6. EnginesTypeOK'
  BY <1>1, <1>3, <1>4, <1>5 DEF OpsInv, EnginesTypeOK
<1>7. BuiltFirst'
  BY <1>1, <1>3, <1>4, <1>5 DEF OpsInv, BuiltFirst
<1>8. OpsInv'
  BY <1>2, <1>3, <1>4, <1>5, <1>6, <1>7 DEF OpsInv, QueuesOK, CompletedOnce, EnginesTypeOK
<1>9. \A p \in Ops : p # o => (Outstanding(p)' <=> Outstanding(p)) /\ (Unposted(p)' <=> Unposted(p))
  <2>1. awaited' \in {awaited, awaited \cup {o}}
    BY CallIsNext DEF IocpSubmit
  <2> QED
    BY <1>1, <1>5, <2>1 DEF Outstanding, Unposted
<1>10. Outstanding(o)' => submitting'[o] = "admitted"
  <2>1. CASE running_
    BY <2>1 DEF IocpSubmit, OpsInv, EnginesTypeOK
  <2>2. CASE ~running_
    <3>1. completions'[o] = completions[o] + 1
      BY <2>2, CompletesOne DEF IocpSubmit, OpsInv, Results
    <3> QED
      BY <1>2, <3>1 DEF Outstanding
  <2> QED
    BY <2>1, <2>2
<1>11. IocpAccounted'
  BY <1>2, <1>3, <1>5, <1>9, <1>10 DEF IocpInv, IocpAccounted
<1>12. IocpInv'
  BY <1>2, <1>3, <1>5, <1>11 DEF IocpInv
<1> QED
  BY <1>8, <1>12

\* The submitting thread enters the operation in in_flight_ops_.
LEMMA IocpEnters ==
  ASSUME platform = "windows", OpsInv, IocpInv, NEW o \in Ops, IocpEnter(o),
         UNCHANGED <<uringVars, kqueueVars>>
  PROVE  OpsInv' /\ IocpInv'
<1> USE DEF IocpEnter, setupVars, objectVars, doneVars, kernelVars, uringVars, kqueueVars
<1>1. Pending' = Pending /\ Pending = {}
  BY QueueEmpty DEF Pending, IocpInv
<1>2. type[o] # "none"
  BY DEF OpsInv, BuiltFirst
<1>3. EnginesTypeOK'
  BY <1>1 DEF OpsInv, EnginesTypeOK
<1>4. BuiltFirst'
  BY <1>1, <1>2 DEF OpsInv, BuiltFirst, EnginesTypeOK
<1>5. OpsInv'
  BY <1>1, <1>3, <1>4 DEF OpsInv, QueuesOK, CompletedOnce
<1>6. IocpInv'
  BY DEF IocpInv, IocpAccounted, Outstanding, Unposted, OpsInv, EnginesTypeOK
<1> QED
  BY <1>5, <1>6

\* The submitting thread starts the operation: the kernel takes it, it fails,
\* or, if it is a CLOSE, its packet is posted.
LEMMA IocpStarts ==
  ASSUME platform = "windows", OpsInv, IocpInv, NEW o \in Ops, IocpStart(o),
         UNCHANGED <<uringVars, kqueueVars>>
  PROVE  OpsInv' /\ IocpInv'
<1> USE DEF setupVars, objectVars, uringVars, kqueueVars
<1>1. /\ UNCHANGED <<platform, quiet, type, obj, awaited, is_closed_, pending_ops_, loop, running_,
                     stopping>>
      /\ submitting[o] = "entered"
      /\ submitting' = [submitting EXCEPT ![o] = "started"]
      /\ StartIO(o) \/ StartClose(o)
  BY DEF IocpStart
<1>2. Pending' = Pending /\ Pending = {}
  BY <1>1, QueueEmpty DEF Pending, IocpInv
<1>3. type[o] # "none" /\ obj[o] \in Objects
  BY <1>1 DEF OpsInv, BuiltFirst
<1>4. /\ o \notin kernel \cup ToSet(cq)
      /\ running_ => o \in flying /\ completions[o] = 0
  BY <1>1 DEF IocpInv, IocpAccounted
<1>5. SUFFICES
        /\ completions' \in [Ops -> Nat] /\ result' \in [Ops -> Results]
        /\ fdClosed' \subseteq Objects
        /\ \A p \in Ops : p # o => completions'[p] = completions[p]
        /\ completions'[o] \in {completions[o], completions[o] + 1}
        /\ flying' \in {flying, flying \ {o}}
        /\ cq' \in Seq(Ops \cup {Wakeup}) /\ IsInjective(cq')
        /\ kernel' \cap ToSet(cq') = {}
        /\ kernel' \cup ToSet(cq') \in {kernel \cup ToSet(cq), kernel \cup ToSet(cq) \cup {o}}
        /\ o \in kernel' \cup ToSet(cq') =>
             /\ completions'[o] = completions[o] /\ flying' = flying
             /\ ~(type[o] = "close" /\ o \notin awaited)
        /\ o \notin kernel' \cup ToSet(cq') =>
             \/ completions'[o] = completions[o] + 1
             \/ type[o] = "close" /\ o \notin awaited /\ flying' = flying
  <2>1. /\ kernel' \subseteq Ops \cup {Wakeup} /\ ToSet(cq') \subseteq Ops \cup {Wakeup}
    BY <1>5 DEF OpsInv, EnginesTypeOK
  <2>2. EnginesTypeOK'
    BY <1>1, <1>2, <1>5, <2>1 DEF OpsInv, EnginesTypeOK
  <2>3. BuiltFirst'
    BY <1>1, <1>2, <1>3, <1>5 DEF OpsInv, BuiltFirst, EnginesTypeOK
  <2>4. CompletedOnce'
    <3> SUFFICES ASSUME running_, NEW p \in Ops PROVE completions'[p] <= 1
      BY <1>1, <1>5 DEF CompletedOnce, OpsInv, EnginesTypeOK
    <3>1. CASE p = o
      BY <1>4, <1>5, <3>1
    <3>2. CASE p # o
      BY <1>5, <3>2 DEF OpsInv, CompletedOnce
    <3> QED
      BY <3>1, <3>2
  <2>5. OpsInv'
    BY <1>1, <1>2, <1>5, <2>2, <2>3, <2>4 DEF OpsInv, QueuesOK
  <2>6. /\ submitting'[o] = "started"
         /\ \A p \in Ops \ {o} :
              /\ submitting'[p] = submitting[p]
              /\ Outstanding(p)' <=> Outstanding(p)
              /\ Unposted(p)' <=> Unposted(p)
              /\ p \in kernel' \cup ToSet(cq') <=> p \in kernel \cup ToSet(cq)
              /\ p \in flying' <=> p \in flying
    BY <1>1, <1>5 DEF OpsInv, EnginesTypeOK, Outstanding, Unposted
  <2>7. \A p \in kernel' \cup ToSet(cq') : p \in Ops /\ submitting'[p] = "started" /\ ~Unposted(p)'
    <3>1. \A p \in kernel \cup ToSet(cq) : p \in Ops /\ p # o /\ submitting[p] = "started" /\ ~Unposted(p)
      BY <1>4 DEF IocpInv, IocpAccounted
    <3>2. o \in kernel' \cup ToSet(cq') => ~Unposted(o)'
      BY <1>1, <1>5 DEF Unposted
    <3> QED
      BY <1>5, <2>6, <3>1, <3>2
  <2>8. ASSUME running_', NEW p \in kernel' \cup ToSet(cq') PROVE p \in flying' /\ Outstanding(p)'
    <3>1. CASE p = o
      BY <1>1, <1>3, <1>4, <1>5, <2>8, <3>1 DEF Outstanding
    <3>2. CASE p # o
      BY <1>1, <2>7, <2>8, <2>6, <3>2 DEF IocpInv, IocpAccounted
    <3> QED
      BY <3>1, <3>2
  <2>9. ASSUME NEW p \in Ops, Outstanding(p)'
         PROVE  IF submitting'[p] = "admitted"
                THEN p \notin flying'
                ELSE /\ p \in flying'
                     /\ submitting'[p] = "entered" \/ p \in kernel' \cup ToSet(cq') \/ Unposted(p)'
    <3>1. CASE p = o
      <4>1. completions[o] = 0 /\ completions'[o] = 0
        BY <1>5, <2>9, <3>1 DEF Outstanding, OpsInv, EnginesTypeOK
      <4>2. o \in flying
        BY <1>1, <1>3, <4>1 DEF IocpInv, IocpAccounted, Outstanding
      <4>3. \/ o \in kernel' \cup ToSet(cq')
            \/ type[o] = "close" /\ o \notin awaited /\ flying' = flying
        BY <1>5, <4>1
      <4>4. flying' = flying /\ (o \in kernel' \cup ToSet(cq') \/ Unposted(o)')
        BY <1>1, <1>5, <2>6, <4>3 DEF Unposted
      <4> QED
        BY <2>6, <3>1, <4>2, <4>4
    <3>2. CASE p # o
      BY <2>6, <2>9, <3>2 DEF IocpInv, IocpAccounted
    <3> QED
      BY <3>1, <3>2
  <2>10. ASSUME running_', NEW p \in Ops
        PROVE  /\ submitting'[p] \in {"admitted", "entered"} => completions'[p] = 0
               /\ submitting'[p] = "entered" => p \in flying'
    <3>1. CASE p = o
      BY <1>1, <1>4, <1>5, <2>10, <3>1 DEF OpsInv, EnginesTypeOK
    <3>2. CASE p # o
      BY <1>1, <1>5, <2>10, <3>2 DEF IocpInv, OpsInv, EnginesTypeOK
    <3> QED
      BY <3>1, <3>2
  <2>11. IocpAccounted'
    BY <1>5, <2>7, <2>8, <2>9 DEF IocpAccounted
  <2>12. IocpInv'
    BY <1>1, <2>7, <2>10, <2>11 DEF IocpInv
  <2> QED
    BY <2>5, <2>12
<1>6. /\ completions \in [Ops -> Nat] /\ result \in [Ops -> Results] /\ fdClosed \subseteq Objects
      /\ cq \in Seq(Ops \cup {Wakeup}) /\ IsInjective(cq)
      /\ kernel \cap ToSet(cq) = {}
  BY DEF OpsInv, EnginesTypeOK, QueuesOK, IocpInv, IocpAccounted
<1>7. CASE StartIO(o)
  <2>1. UNCHANGED <<fdClosed, cq>> /\ ToSet(cq') = ToSet(cq) /\ type[o] # "close"
    BY <1>7 DEF StartIO
  <2>2. CASE kernel' = kernel \cup {o} /\ UNCHANGED <<flying, doneVars>>
    BY <1>4, <1>6, <2>1, <2>2 DEF doneVars
  <2>3. CASE /\ flying' \in {flying, flying \ {o}}
             /\ Complete(o, "error")
             /\ UNCHANGED kernel
    <3>1. /\ completions' \in [Ops -> Nat] /\ result' \in [Ops -> Results]
          /\ completions'[o] = completions[o] + 1
          /\ \A p \in Ops : p # o => completions'[p] = completions[p]
      BY <2>3, CompletesOne DEF OpsInv, Results
    <3> QED
      BY <1>4, <1>6, <2>1, <2>3, <3>1
  <2> QED
    BY <1>7, <2>2, <2>3 DEF StartIO
<1>8. CASE StartClose(o)
  <2>1. /\ fdClosed' \subseteq Objects
        /\ UNCHANGED <<flying, kernel, completions>>
        /\ type[o] = "close"
        /\ cq' = IF o \in awaited THEN Append(cq, o) ELSE cq
    BY <1>3, <1>6, <1>8 DEF StartClose
  <2>2. result' \in [Ops -> Results]
    BY <1>6, <1>8 DEF StartClose, Results
  <2>3. /\ cq' \in Seq(Ops \cup {Wakeup}) /\ IsInjective(cq')
        /\ ToSet(cq') = IF o \in awaited THEN ToSet(cq) \cup {o} ELSE ToSet(cq)
    <3>1. o \in Ops \cup {Wakeup} /\ o \notin ToSet(cq)
      BY <1>4
    <3>2. /\ Append(cq, o) \in Seq(Ops \cup {Wakeup}) /\ IsInjective(Append(cq, o))
          /\ ToSet(Append(cq, o)) = ToSet(cq) \cup {o}
      BY <1>6, <3>1, QueueAppends
    <3> QED
      BY <1>6, <2>1, <3>2
  <2> QED
    BY <1>4, <1>6, <2>1, <2>2, <2>3
<1> QED
  BY <1>1, <1>7, <1>8

\* The kernel finishes an operation, and posts its packet.
LEMMA IocpFinishes ==
  ASSUME platform = "windows", OpsInv, IocpInv, IocpFinish, UNCHANGED <<uringVars, kqueueVars>>
  PROVE  OpsInv' /\ IocpInv'
<1> USE DEF setupVars, objectVars, uringVars, kqueueVars, iocpVars
<1>1. PICK o \in Ops : KernelFinish(o) /\ UNCHANGED iocpVars
  BY DEF IocpFinish
<1>2. /\ o \in kernel /\ kernel' = kernel \ {o} /\ cq' = Append(cq, o)
      /\ UNCHANGED <<platform, quiet, type, obj, awaited, is_closed_, pending_ops_, flying,
                     completions, loop, running_, submitting, stopping>>
  BY <1>1 DEF KernelFinish
<1>3. obj[o] \in Objects
  BY <1>2 DEF OpsInv, BuiltFirst
<1>4. result' \in [Ops -> Results] /\ fdClosed' \subseteq Objects
  BY <1>1, <1>3 DEF KernelFinish, Outcome, OpsInv, EnginesTypeOK, Results
<1>5. /\ cq' \in Seq(Ops \cup {Wakeup}) /\ IsInjective(cq')
      /\ ToSet(cq') = ToSet(cq) \cup {o}
  BY <1>2, QueueAppends DEF OpsInv, QueuesOK, IocpInv, IocpAccounted
<1>6. Pending' = Pending
  BY <1>2 DEF Pending
<1>7. EnginesTypeOK'
  BY <1>2, <1>4, <1>5, <1>6 DEF OpsInv, EnginesTypeOK
<1>8. OpsInv'
  BY <1>2, <1>4, <1>5, <1>6, <1>7 DEF OpsInv, QueuesOK, BuiltFirst, CompletedOnce
<1>9. IocpInv'
  BY <1>2, <1>5 DEF IocpInv, IocpAccounted, Outstanding, Unposted
<1> QED
  BY <1>8, <1>9

\* The engine's thread takes a packet: as long as the engine runs, that of an
\* operation in flight that is not completed.
LEMMA IocpTakesPacket ==
  ASSUME platform = "windows", OpsInv, IocpInv, IocpPacket, UNCHANGED <<uringVars, kqueueVars>>
  PROVE  OpsInv' /\ IocpInv'
<1> USE DEF setupVars, objectVars, uringVars, kqueueVars, iocpVars
<1> DEFINE o == Head(cq)
<1>1. /\ o \in ToSet(cq) /\ cq' \in Seq(Ops \cup {Wakeup}) /\ IsInjective(cq')
      /\ ToSet(cq') = ToSet(cq) \ {o}
  BY QueueAdvances DEF OpsInv, QueuesOK, IocpPacket
<1>2. /\ UNCHANGED <<platform, quiet, type, obj, awaited, is_closed_, fdClosed, pending_ops_,
                     kernel, running_, submitting, stopping>>
      /\ loop' = "checking" /\ flying' = flying \ {o}
      /\ IF o \in flying THEN Complete(o, result[o]) ELSE UNCHANGED doneVars
  BY DEF IocpPacket
<1> HIDE DEF o
<1>3. o \in Ops /\ submitting[o] = "started" /\ (running_ => completions[o] = 0) /\ o \notin kernel
  BY <1>1 DEF IocpInv, IocpAccounted, Outstanding
<1>4. /\ completions' \in [Ops -> Nat] /\ result' \in [Ops -> Results]
      /\ completions'[o] \in {completions[o], completions[o] + 1}
      /\ \A p \in Ops : p # o => completions'[p] = completions[p]
  <2>1. CASE o \in flying
    BY <1>2, <1>3, <2>1, CompletesOne DEF OpsInv, EnginesTypeOK
  <2>2. CASE o \notin flying
    BY <1>2, <1>3, <2>2 DEF doneVars, OpsInv, EnginesTypeOK
  <2> QED
    BY <2>1, <2>2
<1>5. Pending' = Pending /\ Pending = {}
  BY <1>2, QueueEmpty DEF Pending, IocpInv
<1>6. EnginesTypeOK'
  BY <1>1, <1>2, <1>4, <1>5 DEF OpsInv, EnginesTypeOK
<1>7. BuiltFirst'
  BY <1>1, <1>2, <1>3, <1>4, <1>5 DEF OpsInv, BuiltFirst
<1>8. CompletedOnce'
  BY <1>2, <1>3, <1>4 DEF OpsInv, CompletedOnce, EnginesTypeOK
<1>9. OpsInv'
  BY <1>1, <1>2, <1>5, <1>6, <1>7, <1>8 DEF OpsInv, QueuesOK
<1>10. \A p \in Ops : p = o => ~Outstanding(p)'
  <2>1. CASE o \in flying
    <3>1. completions'[o] = completions[o] + 1
      BY <1>2, <1>3, <2>1, CompletesOne DEF OpsInv, EnginesTypeOK
    <3>2. completions[o] \in Nat
      BY <1>3 DEF OpsInv, EnginesTypeOK
    <3>3. completions'[o] # 0
      BY <3>1, <3>2
    <3> QED
      BY <3>3 DEF Outstanding
  <2>2. CASE o \notin flying
    <3>1. ~Outstanding(o)
      BY <1>3, <2>2 DEF IocpInv, IocpAccounted
    <3>2. UNCHANGED <<type, completions>>
      BY <1>2, <2>2 DEF doneVars
    <3> QED
      BY <3>1, <3>2 DEF Outstanding
  <2> QED
    BY <2>1, <2>2
<1>11. \A p \in Ops : p # o => (Outstanding(p)' <=> Outstanding(p)) /\ (Unposted(p)' <=> Unposted(p))
  BY <1>2, <1>4 DEF Outstanding, Unposted
<1>12. kernel \cup ToSet(cq) \subseteq Ops
  BY DEF IocpInv
<1>13. /\ kernel' \cup ToSet(cq') = (kernel \cup ToSet(cq)) \ {o} /\ kernel' \cap ToSet(cq') = {}
       /\ UNCHANGED <<submitting, running_>> /\ \A p \in Ops : p # o => (p \in flying' <=> p \in flying)
  BY <1>1, <1>2, <1>3 DEF IocpInv, IocpAccounted
<1>14. IocpAccounted'
  <2>1. \A p \in kernel' \cup ToSet(cq') : p \in Ops /\ p # o /\ p \in kernel \cup ToSet(cq)
    BY <1>12, <1>13
  <2>2. \A p \in Ops : Outstanding(p)' => p # o /\ Outstanding(p)
    BY <1>10, <1>11
  <2> QED
    BY <1>11, <1>13, <2>1, <2>2 DEF IocpInv, IocpAccounted
<1>15. IocpInv'
  BY <1>1, <1>2, <1>3, <1>4, <1>14 DEF IocpInv
<1> QED
  BY <1>9, <1>15

\* stop() completes all that is in flight: the engine does not run any more.
LEMMA IocpCancels ==
  ASSUME platform = "windows", OpsInv, IocpInv, ~running_, IocpCancelAll,
         UNCHANGED <<uringVars, kqueueVars>>
  PROVE  OpsInv' /\ IocpInv'
<1> USE DEF setupVars, objectVars, kernelVars, uringVars, kqueueVars
<1> DEFINE how == [o \in flying |-> "canceled"]
<1>1. /\ UNCHANGED <<platform, quiet, type, obj, awaited, is_closed_, fdClosed, pending_ops_,
                     kernel, cq, loop, running_, submitting>>
      /\ flying' = {} /\ CompleteAll(how)
  BY DEF IocpCancelAll
<1>2. DOMAIN how = flying /\ \A o \in flying : how[o] \in Results
  BY DEF Results
<1>3. /\ completions' \in [Ops -> Nat] /\ result' \in [Ops -> Results]
      /\ \A o \in Ops : o \in flying => completions'[o] = completions[o] + 1
      /\ \A o \in Ops : o \notin flying => completions'[o] = completions[o]
  <2> HIDE DEF how
  <2> QED
    BY <1>1, <1>2, CompletesAll DEF OpsInv
<1>4. Pending' = Pending /\ Pending = {}
  BY <1>1, QueueEmpty DEF Pending, IocpInv
<1>5. EnginesTypeOK'
  BY <1>1, <1>3, <1>4 DEF OpsInv, EnginesTypeOK
<1>6. BuiltFirst'
  BY <1>1, <1>3, <1>4 DEF OpsInv, BuiltFirst
<1>7. OpsInv'
  BY <1>1, <1>4, <1>5, <1>6 DEF OpsInv, QueuesOK, CompletedOnce
<1>8. \A o \in Ops :
        /\ Outstanding(o)' => Outstanding(o) /\ o \notin flying
        /\ Unposted(o)' <=> Unposted(o)
  BY <1>1, <1>3 DEF Outstanding, Unposted, OpsInv, EnginesTypeOK
<1>9. kernel \cup ToSet(cq) \subseteq Ops
  BY DEF IocpInv
<1>10. IocpAccounted'
  BY <1>1, <1>8, <1>9 DEF IocpInv, IocpAccounted
<1>11. IocpInv'
  BY <1>1, <1>10 DEF IocpInv
<1> QED
  BY <1>7, <1>11

\* Every step of the engine on windows.
LEMMA IocpPreserves ==
  ASSUME platform = "windows", OpsInv, IocpInv, IocpNext, UNCHANGED <<uringVars, kqueueVars>>
  PROVE  OpsInv' /\ IocpInv'
<1>1. IocpCancelAll => ~running_
  BY DEF IocpCancelAll, IocpInv
<1> QED
  BY <1>1, IocpTurns, IocpSubmits, IocpEnters, IocpStarts, IocpFinishes, IocpTakesPacket,
     IocpCancels DEF IocpNext, IocpThread, IocpSubmitter

-----------------------------------------------------------------------------
\* Every step of the engine of the platform keeps the invariant; the variables of
\* the other two engines do not change.
LEMMA EnginesNextInv ==
  ASSUME AsyncIOAssumption, IoUringAssumption, EnginesInv, [EnginesNext]_engineVars
  PROVE  EnginesInv'
<1>1. CASE platform = "linux" /\ UringNext /\ UNCHANGED <<kqueueVars, iocpVars>>
  <2>1. platform' = "linux"
    BY <1>1 DEF UringNext, UringLoop, UringRun, UringSubmitAndWait, UringHandle, UringFinish,
       UringWake, KernelFinish, UringStop, UringSubmit, setupVars
  <2> QED
    BY <1>1, <2>1, UringPreserves DEF EnginesInv
<1>2. CASE platform = "macos" /\ KqueueNext /\ UNCHANGED <<uringVars, iocpVars>>
  <2>1. platform' = "macos"
    BY <1>2 DEF KqueueNext, KqueueLoop, KqueueRun, KqueueCheck, KqueueProcess, KqueueUnlock,
       KqueueWait, KqueueHandle, KqueueStop, KqueueSubmit, setupVars
  <2> QED
    BY <1>2, <2>1, KqueuePreserves DEF EnginesInv
<1>3. CASE platform = "windows" /\ IocpNext /\ UNCHANGED <<uringVars, kqueueVars>>
  <2>1. platform' = "windows"
    BY <1>3 DEF IocpNext, IocpThread, IocpRun, IocpCheck, IocpTimeout, IocpPacket, IocpFinish,
       KernelFinish, IocpStop, IocpCancelAll, IocpSubmit, IocpSubmitter, IocpEnter, IocpStart,
       setupVars
  <2> QED
    BY <1>3, <2>1, IocpPreserves DEF EnginesInv
<1>4. CASE UNCHANGED engineVars
  <2> USE <1>4 DEF engineVars, ioVars, setupVars, objectVars, doneVars, kernelVars, uringVars,
      kqueueVars, iocpVars
  <2>1. Pending' = Pending
    BY DEF Pending
  <2>2. EnginesTypeOK'
    BY <2>1 DEF EnginesInv, OpsInv, EnginesTypeOK
  <2>3. OpsInv'
    BY <2>1, <2>2 DEF EnginesInv, OpsInv, QueuesOK, BuiltFirst, CompletedOnce
  <2>4. UringInv => UringInv'
    BY <2>1 DEF UringInv, UringAccounted, Outstanding, Deaf
  <2>5. (KqueueInv => KqueueInv') /\ (IocpInv => IocpInv')
    BY <2>1 DEF KqueueInv, KqueueAccounted, Evicted, IocpInv, IocpAccounted, Unposted, Outstanding
  <2> QED
    BY <2>3, <2>4, <2>5 DEF EnginesInv
<1> QED
  BY <1>1, <1>2, <1>3, <1>4 DEF EnginesNext

\* The inductive invariant holds in every state.
LEMMA EnginesInductive ==
  ASSUME AsyncIOAssumption, IoUringAssumption PROVE EnginesSpec => []EnginesInv
  BY EnginesInitInv, EnginesNextInv, PTL DEF EnginesSpec

\* Whatever the number of operations and objects and the depth of the queue: an
\* operation submitted and not completed is in exactly one place of its engine, on
\* macos unless a later one on its descriptor has evicted it, when it is in none,
\* and on windows with the hands of the thread that submits it as a place; and it
\* is completed at most once, on windows as long as the engine runs
\* (io_uring_engin.cpp:52-224, kqueue_engin.cpp:53-296, iocp_engin.cpp:98-352).
THEOREM EnginesInvariant ==
  ASSUME AsyncIOAssumption, IoUringAssumption PROVE EnginesSpec => []IOInv
<1>1. ASSUME EnginesInv PROVE IOInv
  <2>1. \A o \in Pending : Outstanding(o)
    BY <1>1 DEF EnginesInv, OpsInv, BuiltFirst, EnginesTypeOK, Outstanding
  <2> QED
    BY <1>1, <2>1 DEF EnginesInv, OpsInv, QueuesOK, IOInv, UringInv, KqueueInv, IocpInv,
       EnginesTypeOK, Platforms
<1> QED
  BY <1>1, EnginesInductive, PTL
=============================================================================
