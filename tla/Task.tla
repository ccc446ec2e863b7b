--------------------------------- MODULE Task ---------------------------------
(***************************************************************************)
(* koroutine::Task, its promise and its awaiter (include/koroutine/        *)
(* task.hpp, task_promise.hpp, awaiters/task_awaiter.hpp), spawn() of      *)
(* runtime.hpp and the tokens of cancellation.hpp.                         *)
(*                                                                         *)
(* A task is a coroutine frame.  It is suspended at first, start() gives   *)
(* it to the scheduler, it may sleep and await one other task, and it ends *)
(* with a value or an exception.  The scheduler is a thread pool: what it  *)
(* has been given is resumed in any order and in parallel.                 *)
(***************************************************************************)
EXTENDS Integers, FiniteSets

CONSTANTS
  Tasks,        \* the task coroutines
  Child,        \* the task that each task awaits, or None
  Prestarted,   \* the tasks that are started before they are awaited
  Spawned,      \* the tasks given to Runtime::spawn
  Cancellable,  \* the tasks with the cancellation token
  None          \* no task, no result

Roots == {t \in Tasks : \A p \in Tasks : Child[p] # t}

ASSUME TaskAssumption ==
  /\ None \notin Tasks \cup {"value", "exception", "cancelled"}
  /\ Child \in [Tasks -> Tasks \cup {None}]
  /\ \A p, q \in Tasks : Child[p] = Child[q] /\ Child[p] # None => p = q
  /\ Spawned \subseteq Roots
  /\ Prestarted \subseteq Tasks \ Roots
  /\ Cancellable \subseteq Tasks

VARIABLES
  pc,          \* where each coroutine is
  queued,      \* how often the scheduler has still to resume each task
  started,     \* started
  detached,    \* detached_
  cont,        \* continuation_: the task that awaits each task, or None
  finalCont,   \* the copy of continuation_ in each FinalAwaiter
  result,      \* result: "value", "exception", "cancelled" or None
  got,         \* what each task's co_await of its child has returned
  slept,       \* bound: the tasks that have slept, once each
  cancelled,   \* the token's flag
  cancelling   \* how far the token's callback for each task is

vars == <<pc, queued, started, detached, cont, finalCont, result, got, slept,
          cancelled, cancelling>>

Init ==
  /\ pc = [t \in Tasks |-> "created"]
  /\ queued = [t \in Tasks |-> 0]
  /\ started = {}
  /\ detached = {}
  /\ cont = [t \in Tasks |-> None]
  /\ finalCont = [t \in Tasks |-> None]
  /\ result = [t \in Tasks |-> None]
  /\ got = [t \in Tasks |-> None]
  /\ slept = {}
  /\ cancelled = FALSE
  /\ cancelling = [t \in Tasks |-> "off"]

Goto(t, from, to) ==
  /\ pc[t] = from
  /\ pc' = [pc EXCEPT ![t] = to]

Schedule(t) == queued' = [queued EXCEPT ![t] = @ + 1]

-----------------------------------------------------------------------------
(***************************************************************************)
(* Starting.  A second start() is ignored.                                 *)
(***************************************************************************)
\* start() by whoever owns the task: outside, or the task that will await it.
Start(t) ==
  /\ t \in Roots \/ (t \in Prestarted /\ \E p \in Tasks : Child[p] = t /\ pc[p] = "running")
  /\ t \notin started
  /\ started' = started \cup {t}
  /\ Schedule(t)
  /\ UNCHANGED <<pc, detached, cont, finalCont, result, got, slept, cancelled, cancelling>>

\* The second half of spawn(): the task may be running, or be over, by now.
Detach(t) ==
  /\ t \in Spawned \cap started
  /\ t \notin detached
  /\ detached' = detached \cup {t}
  /\ UNCHANGED <<pc, queued, started, cont, finalCont, result, got, slept, cancelled, cancelling>>

Suspended == {"created", "sleeping", "awaiting"}

\* A thread of the scheduler resumes the coroutine.
Resume(t) ==
  /\ queued[t] > 0
  /\ pc[t] \in Suspended
  /\ queued' = [queued EXCEPT ![t] = @ - 1]
  /\ pc' = [pc EXCEPT ![t] = IF @ = "awaiting" THEN "resumed" ELSE "running"]
  /\ UNCHANGED <<started, detached, cont, finalCont, result, got, slept, cancelled, cancelling>>

-----------------------------------------------------------------------------
(***************************************************************************)
(* The body of a task.                                                     *)
(***************************************************************************)
\* co_await of a duration: await_transform does not look at the token.
Sleep(t) ==
  /\ Goto(t, "running", "sleeping")
  /\ t \notin slept
  /\ slept' = slept \cup {t}
  /\ UNCHANGED <<queued, started, detached, cont, finalCont, result, got, cancelled, cancelling>>

IsCancelled(t) == cancelled /\ t \in Cancellable

\* co_await of any other awaiter: it does.
Pause(t) ==
  /\ pc[t] = "running"
  /\ t \notin slept
  /\ slept' = slept \cup {t}
  /\ IF IsCancelled(t)
     THEN /\ pc' = [pc EXCEPT ![t] = "ending"]
          /\ result' = [result EXCEPT ![t] = "cancelled"]
     ELSE /\ pc' = [pc EXCEPT ![t] = "sleeping"]
          /\ UNCHANGED result
  /\ UNCHANGED <<queued, started, detached, cont, finalCont, got, cancelled, cancelling>>

\* What the task sleeps on schedules it again.
Wake(t) ==
  /\ pc[t] = "sleeping"
  /\ queued[t] = 0
  /\ Schedule(t)
  /\ UNCHANGED <<pc, started, detached, cont, finalCont, result, got, slept, cancelled, cancelling>>

Done == {"suspended at the end", "finished"}

\* co_await of a task: await_ready asks whether it is done.
AwaitReady(t) ==
  /\ Child[t] # None /\ got[t] = None
  /\ pc[t] = "running"
  /\ Child[t] \in Prestarted => Child[t] \in started
  /\ pc' = [pc EXCEPT ![t] = IF pc[Child[t]] \in Done THEN "resumed" ELSE "suspending"]
  /\ UNCHANGED <<queued, started, detached, cont, finalCont, result, got, slept,
                 cancelled, cancelling>>

\* await_suspend: the continuation is set, then the child is started unless it
\* has been before.
AwaitSuspend(t) ==
  /\ Goto(t, "suspending", "awaiting")
  /\ cont' = [cont EXCEPT ![Child[t]] = t]
  /\ started' = started \cup {Child[t]}
  /\ IF Child[t] \in started THEN UNCHANGED queued ELSE Schedule(Child[t])
  /\ UNCHANGED <<detached, finalCont, result, got, slept, cancelled, cancelling>>

\* before_resume takes the child's result (and would wait for it); then the
\* awaiter is destroyed, and the child's frame with it.
AwaitResume(t) ==
  /\ pc[t] = "resumed"
  /\ result[Child[t]] # None
  /\ got' = [got EXCEPT ![t] = result[Child[t]]]
  /\ pc' = [pc EXCEPT ![t] = "running", ![Child[t]] = "destroyed"]
  /\ UNCHANGED <<queued, started, detached, cont, finalCont, result, slept, cancelled, cancelling>>

\* Mutant: the continuation is scheduled when the result is set already.
ReturnResumes(t) ==
  /\ Child[t] # None => got[t] # None
  /\ Goto(t, "running", "ending")
  /\ result' = [result EXCEPT ![t] = "value"]
  /\ IF cont[t] = None THEN UNCHANGED queued ELSE Schedule(cont[t])
  /\ UNCHANGED <<started, detached, cont, finalCont, got, slept, cancelled, cancelling>>

\* return_value or unhandled_exception; what the child threw is thrown on.
Return(t) ==
  /\ Child[t] # None => got[t] # None
  /\ Goto(t, "running", "ending")
  /\ \E r \in IF got[t] \in {None, "value"} THEN {"value", "exception"} ELSE {got[t]} :
       result' = [result EXCEPT ![t] = r]
  /\ UNCHANGED <<queued, started, detached, cont, finalCont, got, slept, cancelled, cancelling>>

(***************************************************************************)
(* The end of a task.                                                      *)
(***************************************************************************)
\* final_suspend copies detached_ and continuation_.  The frame of a detached
\* task destroys itself; any other is suspended, and done() from now on.
FinalSuspend(t) ==
  /\ pc[t] = "ending"
  /\ IF t \in detached
     THEN /\ pc' = [pc EXCEPT ![t] = "destroyed"]
          /\ UNCHANGED finalCont
     ELSE /\ pc' = [pc EXCEPT ![t] = "suspended at the end"]
          /\ finalCont' = [finalCont EXCEPT ![t] = cont[t]]
  /\ UNCHANGED <<queued, started, detached, cont, result, got, slept, cancelled, cancelling>>

\* Mutant: the final awaiter forgets its continuation.
FinalForgets(t) ==
  /\ Goto(t, "suspended at the end", "finished")
  /\ UNCHANGED <<queued, started, detached, cont, finalCont, result, got, slept, cancelled, cancelling>>

\* FinalAwaiter::await_suspend schedules the continuation, if there was one.
FinalResume(t) ==
  /\ Goto(t, "suspended at the end", "finished")
  /\ IF finalCont[t] = None THEN UNCHANGED queued ELSE Schedule(finalCont[t])
  /\ UNCHANGED <<started, detached, cont, finalCont, result, got, slept, cancelled, cancelling>>

-----------------------------------------------------------------------------
(***************************************************************************)
(* CancellationToken::cancel, which runs each task's callback.             *)
(***************************************************************************)
Cancel ==
  /\ ~cancelled
  /\ cancelled' = TRUE
  /\ cancelling' = [t \in Tasks |-> IF t \in Cancellable THEN "result" ELSE "off"]
  /\ UNCHANGED <<pc, queued, started, detached, cont, finalCont, result, got, slept>>

\* A task without a result gets OperationCancelledException for one.
CancelResult(t) ==
  /\ cancelling[t] = "result"
  /\ cancelling' = [cancelling EXCEPT ![t] = "resume"]
  /\ result' = IF result[t] = None THEN [result EXCEPT ![t] = "cancelled"] ELSE result
  /\ UNCHANGED <<pc, queued, started, detached, cont, finalCont, got, slept, cancelled>>

\* Whoever awaits the task is scheduled.
CancelResume(t) ==
  /\ cancelling[t] = "resume"
  /\ cancelling' = [cancelling EXCEPT ![t] = "over"]
  /\ IF cont[t] = None THEN UNCHANGED queued ELSE Schedule(cont[t])
  /\ UNCHANGED <<pc, started, detached, cont, finalCont, result, got, slept, cancelled>>

BodyStep(t) == Sleep(t) \/ Pause(t) \/ AwaitReady(t) \/ Return(t)

\* What a thread that runs the task does without the task's own choice.
LibraryStep(t) ==
  AwaitSuspend(t) \/ AwaitResume(t) \/ FinalSuspend(t) \/ FinalResume(t)

Next ==
  \/ \E t \in Tasks :
       \/ Start(t) \/ Detach(t) \/ Resume(t) \/ Wake(t)
       \/ BodyStep(t) \/ LibraryStep(t)
       \/ CancelResult(t) \/ CancelResume(t)
  \/ Cancel

Spec == Init /\ [][Next]_vars

\* The scheduler runs what it is given, bodies go on and sleeps end.  Nobody
\* has to start a task or to cancel one.
Fairness ==
  \A t \in Tasks :
    /\ WF_vars(Detach(t)) /\ WF_vars(Resume(t)) /\ WF_vars(Wake(t))
    /\ WF_vars(BodyStep(t)) /\ WF_vars(LibraryStep(t))
    /\ WF_vars(CancelResult(t)) /\ WF_vars(CancelResume(t))

FairSpec == Spec /\ Fairness

-----------------------------------------------------------------------------
TypeOK ==
  /\ pc \in [Tasks -> {"created", "running", "sleeping", "suspending", "awaiting",
       "resumed", "ending", "suspended at the end", "finished", "destroyed"}]
  /\ queued \in [Tasks -> Nat]
  /\ started \subseteq Tasks
  /\ detached \subseteq Spawned
  /\ cont \in [Tasks -> Tasks \cup {None}]
  /\ finalCont \in [Tasks -> Tasks \cup {None}]
  /\ result \in [Tasks -> {"value", "exception", "cancelled", None}]
  /\ got \in [Tasks -> {"value", "exception", "cancelled", None}]
  /\ slept \subseteq Tasks
  /\ cancelled \in BOOLEAN
  /\ cancelling \in [Tasks -> {"off", "result", "resume", "over"}]

\* A task that has not been started is as it was created.
NotStarted(t) ==
  t \notin started =>
    pc[t] = "created" /\ queued[t] = 0 /\ cont[t] = None /\ result[t] \in {None, "cancelled"}

\* Where the child of a task is, and what it knows of the task.
AwaitLinks(t) ==
  LET c == Child[t]
  IN  /\ got[t] # None => pc[c] = "destroyed"
      /\ got[t] = None /\ pc[t] \notin {"awaiting", "resumed"} => c \notin started
      /\ pc[t] = "awaiting" /\ queued[t] = 0 =>
           /\ c \in started /\ cont[c] = t
           /\ pc[c] \notin {"finished", "destroyed"}
           /\ pc[c] = "suspended at the end" => finalCont[c] = t
      /\ pc[t] \in {"suspending", "awaiting", "resumed"} => got[t] = None

\* A coroutine is resumed once for each suspension: it is never given to the
\* scheduler twice, nor while it runs, nor once it is over.
ResumedOnce ==
  \A t \in Tasks :
    queued[t] > 0 => queued[t] = 1 /\ t \in started /\ pc[t] \in Suspended

\* How far a task is agrees with what has been started, awaited and returned.
Consistent(t) ==
  /\ NotStarted(t)
  /\ pc[t] = "created" /\ t \in started => queued[t] = 1
  /\ IF Child[t] = None
     THEN got[t] = None /\ pc[t] \notin {"suspending", "awaiting", "resumed"}
     ELSE AwaitLinks(t)
  /\ pc[t] \in {"ending", "suspended at the end", "finished"} => result[t] # None
  /\ cont[t] # None => Child[cont[t]] = t
  /\ finalCont[t] # None => finalCont[t] = cont[t]
  /\ cancelling[t] # "off" => t \in Cancellable

\* Types, how each task is linked to the one it awaits (task_awaiter.hpp:41-59,
\* task_promise.hpp:33-70), and that no coroutine is resumed twice.
TaskInv ==
  /\ TypeOK
  /\ ResumedOnce
  /\ \A t \in Tasks : Consistent(t)

\* Only the frame of a finished task is destroyed, or that of a detached task
\* by itself: nobody runs, or will run, a frame that is gone.
DestroyedOnlyWhenOver ==
  [][\A t \in Tasks :
       pc[t] # "destroyed" /\ pc'[t] = "destroyed"
         => pc[t] = "finished" \/ (pc[t] = "ending" /\ t \in detached)]_vars

\* A task that awaits another is resumed in the end, and its child destroyed
\* (task_awaiter.hpp:44-45: when the task completes, the coroutine that awaits
\* it is resumed by the scheduler); and every task that is started comes to its
\* end, cancelled or not.
AwaitReturns ==
  \A t \in Tasks :
    /\ pc[t] = "suspending" ~> pc[t] # "destroyed" /\ got[t] # None
    /\ t \in started ~> pc[t] \in {"finished", "destroyed"}
=============================================================================
