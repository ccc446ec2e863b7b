------------------------------- MODULE WhenAny -------------------------------
(***************************************************************************)
(* koroutine::when_any (include/koroutine/when_any.hpp) in its three       *)
(* forms: of a vector of tasks with a result, of a vector of void tasks,   *)
(* and of a parameter pack.  Each task is awaited by a FireAndForget       *)
(* wrapper; the first wrapper to swap `completed' is the winner, stores    *)
(* its outcome under the lock and schedules the coroutine that waits.      *)
(***************************************************************************)
EXTENDS Combinators, Sequences

CONSTANT NoTask

ASSUME WhenAnyAssumption == NoTask \notin Tasks

VARIABLES
  completed,  \* the atomic flag the wrappers compete for
  winner,     \* history: the wrapper that swapped it
  stored,     \* the task whose result or exception is in the state
  returned    \* what each resumption of the coroutine has returned or thrown

raced == <<completed, winner, stored>>
anyVars == <<config, wrapper, outcome, awaiter, raced, returned>>

AnyInit ==
  /\ CombinatorInit({"vector", "void", "pack"})
  /\ completed = FALSE
  /\ winner = NoTask
  /\ stored = NoTask
  /\ returned = <<>>

-----------------------------------------------------------------------------
\* The wrapper is called: it runs up to its co_await, which starts the task.
AnyStart(t) == StartWrapper(t) /\ UNCHANGED <<raced, returned>>

AnyTaskEnds(t) == EndTask(t, "electing") /\ UNCHANGED <<raced, returned>>

\* Mutant: a wrapper that loses goes on as the winner does.
ElectEveryone(t) ==
  /\ Goto(t, "electing", "storing")
  /\ completed' = TRUE
  /\ winner' = IF completed THEN winner ELSE t
  /\ UNCHANGED <<config, outcome, awaiter, stored, returned>>

\* compare_exchange_strong: the first wins, the others are over.
Elect(t) ==
  /\ Goto(t, "electing", IF completed THEN "over" ELSE "storing")
  /\ completed' = TRUE
  /\ winner' = IF completed THEN winner ELSE t
  /\ UNCHANGED <<config, outcome, awaiter, stored, returned>>

\* Under the lock the winner stores its outcome and, if it sees a
\* continuation, schedules it.
Publish(t) ==
  /\ Goto(t, "storing", "over")
  /\ stored' = t
  /\ queued' = IF continuation = "set" THEN queued + 1 ELSE queued
  /\ UNCHANGED <<config, outcome, completed, winner, continuation, caller, returned>>

AnyWrapperStep(t) == Elect(t) \/ Publish(t)

-----------------------------------------------------------------------------
\* await_resume under the lock: an exception is thrown on (the pack form
\* returns it as unexpected), a result is returned, and where there is neither
\* "internal error - no result available" is thrown.
Outcome ==
  CASE stored = NoTask -> "no result available"
    [] stored # NoTask /\ outcome[stored] = "value" -> "value"
    [] OTHER -> IF form = "pack" THEN "unexpected" ELSE "exception"

AwaitResume == returned' = Append(returned, [what |-> Outcome, of |-> stored])

AnyAwaitReady ==
  /\ AwaitReady(completed)
  /\ IF completed THEN AwaitResume ELSE UNCHANGED returned
  /\ UNCHANGED raced

AnySetContinuation == StoreContinuation /\ UNCHANGED <<raced, returned>>

AnyStoreArrives == SeeContinuation /\ UNCHANGED <<raced, returned>>

\* Mutant: await_suspend does not look at the flag again.
AnyCheckNothing == CheckAgain(FALSE) /\ UNCHANGED <<raced, returned>>

\* Mutant: await_suspend schedules the coroutine whatever the flag says.
AnyCheckAlways == CheckAgain(TRUE) /\ UNCHANGED <<raced, returned>>

\* Is there a winner by now?
AnyCheckCompleted == CheckAgain(completed) /\ UNCHANGED <<raced, returned>>

\* The coroutine goes on, in await_resume.
AnyResume == TakeCaller /\ AwaitResume /\ UNCHANGED raced

AnyCallerStep == AnyAwaitReady \/ AnySetContinuation \/ AnyCheckCompleted

AnyNext ==
  \/ \E t \in Tasks : AnyStart(t) \/ AnyTaskEnds(t) \/ AnyWrapperStep(t)
  \/ AnyCallerStep \/ AnyStoreArrives \/ AnyResume

AnySpec == AnyInit /\ [][AnyNext]_anyVars

\* Threads go on, stores arrive, tasks end and what is scheduled is resumed.
AnyFairness ==
  /\ \A t \in Tasks :
       /\ WF_anyVars(AnyStart(t))
       /\ WF_anyVars(AnyTaskEnds(t))
       /\ WF_anyVars(AnyWrapperStep(t))
  /\ WF_anyVars(AnyCallerStep) /\ WF_anyVars(AnyStoreArrives) /\ WF_anyVars(AnyResume)

AnyFairSpec == AnySpec /\ AnyFairness

-----------------------------------------------------------------------------
Outcomes == {"value", "exception", "unexpected", "no result available"}

AnyTypeOK ==
  /\ form \in {"vector", "void", "pack"}
  /\ oneWorker \in BOOLEAN
  /\ ordered \in BOOLEAN
  /\ wrapper \in [Tasks -> {"created", "awaiting", "electing", "storing", "over"}]
  /\ outcome \in [Tasks -> {"none", "value", "exception"}]
  /\ completed \in BOOLEAN
  /\ winner \in Tasks \cup {NoTask}
  /\ stored \in {NoTask, winner}
  /\ continuation \in {"null", "buffered", "set"}
  /\ caller \in {"starting", "suspending", "checking", "suspended"}
  /\ queued \in 0 .. 2
  /\ returned \in Seq([what : Outcomes, of : {NoTask, winner}])

\* One wrapper has won as soon as the flag is set, and it alone may be about to
\* store; every other that has ended its task is over.
OneWinner ==
  /\ completed <=> winner # NoTask
  /\ \A t \in Tasks :
       /\ wrapper[t] = "storing" <=> winner = t /\ stored = NoTask
       /\ wrapper[t] = "over" => completed
       /\ outcome[t] = "none" <=> wrapper[t] \in {"created", "awaiting"}

\* The coroutine is scheduled by the winner, by await_suspend or by neither: it
\* is never resumed before there is a winner.
AfterWinnerOnly == queued > 0 \/ returned # <<>> => completed

\* Types, and what the flag, the stored outcome and the wrappers say of each
\* other.
WhenAnyInv == AnyTypeOK /\ OneWinner /\ AfterWinnerOnly

\* when_any.hpp:20, "the index and the result of the first task to complete":
\* on a single thread when_any returns once, with what its winner stored.
SerialReturnsWinner ==
  oneWorker =>
    /\ queued + Len(returned) <= 1
    /\ \A i \in DOMAIN returned : returned[i].of = winner /\ returned[i].what = Outcome

\* If stores arrive in order, then however the winner and await_suspend race,
\* one of them schedules the coroutine.
AnyReturns == ordered ~> returned # <<>>
=============================================================================
