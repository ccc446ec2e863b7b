----------------------------- MODULE TaskManager -----------------------------
(***************************************************************************)
(* koroutine::TaskManager (include/koroutine/task_manager.h, .cpp) under   *)
(* the threads that call it: each waits in Runtime's block_on (the sync_   *)
(* functions and the destructor) or join_all for coroutines that join,     *)
(* cancel or shut down groups of tasks, or are a user's own.               *)
(***************************************************************************)
EXTENDS Runtime

CONSTANTS
  Tasks,
  GroupOf,  \* the group each task is submitted to
  All,      \* the empty group name, which stands for every group
  MayDo     \* the operations each coroutine may be, see Operations

Groups == {GroupOf[x] : x \in Tasks}

Operations ==
  [kind : {"join", "cancel"}, group : Groups \cup {All}]
    \cup [kind : {"shutdown", "user"}, group : {All}]

ASSUME TaskManagerAssumption ==
  /\ GroupOf \in [Tasks -> Groups]
  /\ All \notin Groups
  /\ MayDo \in [Coros -> SUBSET Operations]

VARIABLES
  is_shutdown_,
  groups_,     \* the tasks with an entry in groups_
  task,        \* where each task is
  cancelled,   \* the tasks whose token has been cancelled
  does,        \* what each coroutine is: its operation and its group
  op,          \* where each coroutine is in its operation
  due          \* history: the tasks each operation has to wait for

managerVars == <<is_shutdown_, groups_, task, cancelled, does, op, due>>
vars == <<runtimeVars, managerVars>>

Init ==
  /\ RuntimeInit
  /\ is_shutdown_ = FALSE
  /\ groups_ = {}
  /\ task = [x \in Tasks |-> "created"]
  /\ cancelled = {}
  /\ does \in {d \in [Coros -> Operations] : \A c \in Coros : d[c] \in MayDo[c]}
  /\ op = [c \in Coros |-> "start"]
  /\ due = [c \in Coros |-> {}]

InGroup(g) == {x \in Tasks : g \in {GroupOf[x], All}}
Running == {x \in Tasks : task[x] = "running"}
Submitted == {x \in Tasks : task[x] # "created"}

\* list_groups and join_group count the entries whose task is not done.
Active(g) == groups_ \cap InGroup(g) \cap Running
ListGroups == {g \in Groups : Active(g) # {}}

-----------------------------------------------------------------------------
\* submit_to_group: ignored after shutdown, otherwise the task is started with
\* a token of its own and entered in its group, under the lock.
Submit(x) ==
  /\ task[x] = "created"
  /\ ~is_shutdown_
  /\ task' = [task EXCEPT ![x] = "running"]
  /\ groups_' = groups_ \cup {x}
  /\ UNCHANGED <<runtimeVars, is_shutdown_, cancelled, does, op, due>>

\* The task reaches its end, cancelled or not, and is_done() from now on.
TaskEnds(x) ==
  /\ task[x] = "running"
  /\ task' = [task EXCEPT ![x] = "done"]
  /\ UNCHANGED <<runtimeVars, is_shutdown_, groups_, cancelled, does, op, due>>

-----------------------------------------------------------------------------
(***************************************************************************)
(* The operations: coroutines that run once a wrapper awaits them.         *)
(***************************************************************************)
OpGoto(c, from, to) ==
  /\ wrapper[c] = "running"
  /\ op[c] = from
  /\ op' = [op EXCEPT ![c] = to]

\* The tasks an operation must have seen the end of are those submitted when it
\* begins to look.
Begin(c) == due' = [due EXCEPT ![c] = Submitted \cap InGroup(does[c].group)]

\* join_group begins with its first scan.
JoinGroup(c) ==
  /\ does[c].kind = "join"
  /\ OpGoto(c, "start", "scan")
  /\ Begin(c)
  /\ UNCHANGED <<runtimeVars, is_shutdown_, groups_, task, cancelled, does>>

\* cancel_group cancels every token of the group under the lock.
CancelGroup(c) ==
  /\ OpGoto(c, IF does[c].kind = "cancel" THEN "start" ELSE "cancel", "scan")
  /\ does[c].kind \in {"cancel", "shutdown"}
  /\ cancelled' = cancelled \cup (groups_ \cap InGroup(does[c].group))
  /\ Begin(c)
  /\ UNCHANGED <<runtimeVars, is_shutdown_, groups_, task, does>>

\* shutdown refuses tasks from now on; a second one returns at once.
Shutdown(c) ==
  /\ does[c].kind = "shutdown"
  /\ OpGoto(c, "start", IF is_shutdown_ THEN "skipped" ELSE "cancel")
  /\ is_shutdown_' = TRUE
  /\ UNCHANGED <<runtimeVars, groups_, task, cancelled, does, due>>

\* The loop of join_group: it ends when the group has no active task.
Scan(c) ==
  /\ OpGoto(c, "scan", IF Active(does[c].group) = {} THEN "finished" ELSE "cleanup")
  /\ UNCHANGED <<runtimeVars, is_shutdown_, groups_, task, cancelled, does, due>>

\* Mutant: the cleanup erases the whole group.
CleanupGroup(c) ==
  /\ OpGoto(c, "cleanup", "scan")
  /\ groups_' = groups_ \ InGroup(does[c].group)
  /\ UNCHANGED <<runtimeVars, is_shutdown_, task, cancelled, does, due>>

\* In a second critical section the entries of tasks that are done by now are
\* erased, and empty groups with them; after SleepAwaiter(20) it scans again.
Cleanup(c) ==
  /\ OpGoto(c, "cleanup", "scan")
  /\ groups_' = groups_ \ (InGroup(does[c].group) \ Running)
  /\ UNCHANGED <<runtimeVars, is_shutdown_, task, cancelled, does, due>>

OpStep(c) == JoinGroup(c) \/ CancelGroup(c) \/ Shutdown(c) \/ Scan(c) \/ Cleanup(c)

\* An operation returns; a coroutine of the user returns or throws.
Return(c) ==
  /\ \/ op[c] \in {"finished", "skipped"} /\ Finish(c, "value")
     \/ does[c].kind = "user" /\ \E how \in {"value", "exception"} : Finish(c, how)
  /\ UNCHANGED managerVars

-----------------------------------------------------------------------------
RuntimeNext ==
  /\ \/ \E c \in Coros : StartWrapper(c) \/ WrapperStep(c)
     \/ \E t \in Threads : ThreadStep(t)
  /\ UNCHANGED managerVars

Next ==
  \/ RuntimeNext
  \/ \E x \in Tasks : Submit(x) \/ TaskEnds(x)
  \/ \E c \in Coros : OpStep(c) \/ Return(c)

Spec == Init /\ [][Next]_vars

\* Threads go on, sleepers wake and tasks end; nothing says that anyone submits
\* a task.
Fairness ==
  /\ \A c \in Coros :
       /\ WF_vars((StartWrapper(c) \/ WrapperStep(c)) /\ UNCHANGED managerVars)
       /\ WF_vars(OpStep(c) \/ Return(c))
  /\ \A t \in Threads : WF_vars(ThreadStep(t) /\ UNCHANGED managerVars)
  /\ \A x \in Tasks : WF_vars(TaskEnds(x))

FairSpec == Spec /\ Fairness

-----------------------------------------------------------------------------
TypeOK ==
  /\ RuntimeTypeOK
  /\ is_shutdown_ \in BOOLEAN
  /\ groups_ \in SUBSET Submitted
  /\ task \in [Tasks -> {"created", "running", "done"}]
  /\ cancelled \in SUBSET Submitted
  /\ does \in [Coros -> Operations]
  /\ op \in [Coros -> {"start", "cancel", "scan", "cleanup", "finished", "skipped"}]
  /\ due \in [Coros -> SUBSET Submitted]

\* Types, the counters and the condition variables of the blocked calls, that
\* no call returns too early, and that a running task never loses its entry,
\* whoever cleans up when (runtime.hpp:67-151, task_manager.cpp:77-106).
TaskManagerInv ==
  TypeOK /\ CountExact /\ NoLostNotify /\ ReturnsAfterAll /\ Running \subseteq groups_

\* task_manager.h:44, "wait for all tasks in a named group to complete": an
\* operation that is finished has seen the end of every task submitted before
\* it began, though it cleans up in another critical section than it scans in
\* and other operations clean up meanwhile.  Once the shutdown that was not
\* skipped has cancelled the groups there is no task that is not cancelled, and
\* once it is finished none that runs (task_manager.cpp:143-157).
JoinWaits ==
  \A c \in Coros :
    /\ op[c] = "finished" => due[c] \cap Running = {}
    /\ does[c].kind = "shutdown" =>
         /\ op[c] \in {"scan", "cleanup", "finished"} => Running \subseteq cancelled
         /\ op[c] = "finished" => ListGroups = {} /\ Running = {}

\* block_on returns: its wrapper's last notification is not lost, and the
\* operations poll their way to an end.
BlockOnReturns ==
  \A t \in {u \in Threads : call[u] = "block_on"} : <>(waiter[t] = "returned")
=============================================================================
