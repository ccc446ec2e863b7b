----------------------------- MODULE Combinators -----------------------------
(***************************************************************************)
(* What koroutine::when_all and koroutine::when_any have in common         *)
(* (include/koroutine/when_all.hpp, when_any.hpp): a wrapper coroutine     *)
(* awaits each task and notes how it ended; the coroutine that called      *)
(* waits in an awaiter, which it stores a handle in for a wrapper to       *)
(* schedule.                                                               *)
(*                                                                         *)
(* `continuation' is a plain pointer that threads use with no lock in      *)
(* common: what a thread stores in it may reach the others only after the  *)
(* thread has gone on to read the atomic that the wrappers change.         *)
(***************************************************************************)
EXTENDS Integers, FiniteSets

CONSTANT Tasks

ASSUME CombinatorsAssumption == Tasks # {} /\ IsFiniteSet(Tasks)

VARIABLES
  form,          \* which of the functions of that name it is
  oneWorker,     \* the scheduler has a single thread
  ordered,       \* stores reach the other threads in program order, at once
  wrapper,       \* where the wrapper of each task is
  outcome,       \* how each task has ended, "none" before
  continuation,  \* "null", "buffered" by the thread that sets it, or "set"
  caller,        \* where the thread that runs the function is
  queued         \* how often its coroutine is scheduled

config == <<form, oneWorker, ordered>>
awaiter == <<continuation, caller, queued>>

CombinatorInit(forms) ==
  /\ form \in forms
  /\ oneWorker \in BOOLEAN
  /\ ordered \in BOOLEAN
  /\ oneWorker => ordered
  /\ wrapper = [t \in Tasks |-> "created"]
  /\ outcome = [t \in Tasks |-> "none"]
  /\ continuation = "null"
  /\ caller = "starting"
  /\ queued = 0

Goto(t, from, to) ==
  /\ wrapper[t] = from
  /\ wrapper' = [wrapper EXCEPT ![t] = to]

\* The wrappers that a thread is running, and not just their task.
InWrapper == {t \in Tasks : wrapper[t] \notin {"created", "awaiting", "over"}}

\* A thread is there to resume a coroutine.
WorkerFree == oneWorker => InWrapper = {} /\ caller = "suspended"

-----------------------------------------------------------------------------
\* A wrapper is started: from now on its task may run.
StartWrapper(t) ==
  /\ caller = "starting"
  /\ Goto(t, "created", "awaiting")
  /\ UNCHANGED <<config, outcome, awaiter>>

\* The task ends, with a result or an exception, and its wrapper is resumed.
EndTask(t, to) ==
  /\ WorkerFree
  /\ Goto(t, "awaiting", to)
  /\ \E o \in {"value", "exception"} : outcome' = [outcome EXCEPT ![t] = o]
  /\ UNCHANGED <<config, awaiter>>

-----------------------------------------------------------------------------
CallerGoto(from, to) ==
  /\ caller = from
  /\ caller' = to
  /\ UNCHANGED <<config, wrapper, outcome>>

\* await_ready, once every wrapper is started: a coroutine that finds it all
\* completed goes on without being suspended.
AwaitReady(ready) ==
  /\ \A t \in Tasks : wrapper[t] # "created"
  /\ CallerGoto("starting", IF ready THEN "suspended" ELSE "suspending")
  /\ UNCHANGED <<continuation, queued>>

\* await_suspend stores the handle: other threads may not see it yet.
StoreContinuation ==
  /\ CallerGoto("suspending", "checking")
  /\ continuation' = IF ordered THEN "set" ELSE "buffered"
  /\ UNCHANGED queued

\* The store becomes visible to the other threads.
SeeContinuation ==
  /\ continuation = "buffered"
  /\ continuation' = "set"
  /\ UNCHANGED <<config, wrapper, outcome, caller, queued>>

\* The rest of await_suspend: schedule at once what has completed by now.
CheckAgain(ready) ==
  /\ CallerGoto("checking", "suspended")
  /\ queued' = IF ready THEN queued + 1 ELSE queued
  /\ UNCHANGED continuation

\* A worker takes the coroutine from the scheduler.
TakeCaller ==
  /\ WorkerFree
  /\ queued > 0
  /\ queued' = queued - 1
  /\ UNCHANGED <<config, wrapper, outcome, continuation, caller>>
=============================================================================
