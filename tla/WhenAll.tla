------------------------------- MODULE WhenAll -------------------------------
(***************************************************************************)
(* koroutine::when_all (include/koroutine/when_all.hpp), in both its       *)
(* forms: of a parameter pack and of a vector.  The wrapper of each task   *)
(* stores its result or exception and counts down an atomic; the last one  *)
(* schedules the coroutine that called when_all.                           *)
(***************************************************************************)
EXTENDS Combinators, SequencesExt

VARIABLES
  holder,      \* the wrapper that keeps state->mtx between steps, if any
  results,     \* the tasks whose result is stored
  exceptions,  \* the tasks whose exception is stored, in order
  remaining,
  resumed      \* how often when_all's coroutine has been resumed, up to 2

noted == <<results, exceptions>>
allVars == <<config, wrapper, outcome, awaiter, noted, holder, remaining, resumed>>

AllInit ==
  /\ CombinatorInit({"pack", "vector"})
  /\ holder = {}
  /\ results = {}
  /\ exceptions = <<>>
  /\ remaining = Cardinality(Tasks)
  /\ resumed = 0

-----------------------------------------------------------------------------
(***************************************************************************)
(* The wrappers.                                                           *)
(***************************************************************************)
\* wrapper.start().
AllStart(t) == StartWrapper(t) /\ UNCHANGED <<noted, holder, remaining, resumed>>

AllTaskEnds(t) == EndTask(t, "noting") /\ UNCHANGED <<noted, holder, remaining, resumed>>

\* Only the pack form, when the task returned, unlocks before it counts down.
KeepsLock(t) == form = "vector" \/ outcome[t] = "exception"

\* Mutant: the wrapper counts down without having noted the outcome.
NoteNothing(t) ==
  /\ Goto(t, "noting", "counting")
  /\ holder = {}
  /\ holder' = {u \in {t} : KeepsLock(u)}
  /\ UNCHANGED <<config, outcome, awaiter, noted, remaining, resumed>>

\* Under the lock, the result or the exception is stored.
NoteOutcome(t) ==
  /\ Goto(t, "noting", "counting")
  /\ holder = {}
  /\ holder' = {u \in {t} : KeepsLock(u)}
  /\ IF outcome[t] = "value"
     THEN results' = results \cup {t} /\ UNCHANGED exceptions
     ELSE exceptions' = Append(exceptions, t) /\ UNCHANGED results
  /\ UNCHANGED <<config, outcome, awaiter, remaining, resumed>>

\* Mutant: every wrapper takes itself for the last one.
CountDownUntested(t) ==
  /\ Goto(t, "counting", "resuming")
  /\ remaining' = remaining - 1
  /\ UNCHANGED <<config, outcome, awaiter, noted, holder, resumed>>

\* fetch_sub: the wrapper that takes the counter to 0 is the last one.
CountDown(t) ==
  /\ Goto(t, "counting", IF remaining = 1 THEN "resuming" ELSE "leaving")
  /\ remaining' = remaining - 1
  /\ UNCHANGED <<config, outcome, awaiter, noted, holder, resumed>>

\* The last one schedules the continuation, if it sees one.
ResumeCaller(t) ==
  /\ Goto(t, "resuming", "leaving")
  /\ queued' = IF continuation = "set" THEN queued + 1 ELSE queued
  /\ UNCHANGED <<config, outcome, noted, holder, remaining, continuation, caller, resumed>>

\* The wrapper releases the lock, if it kept it, and comes to its end.
Leave(t) ==
  /\ Goto(t, "leaving", "over")
  /\ holder' = holder \ {t}
  /\ UNCHANGED <<config, outcome, awaiter, noted, remaining, resumed>>

-----------------------------------------------------------------------------
(***************************************************************************)
(* The coroutine of when_all.                                              *)
(***************************************************************************)
\* With nothing left to wait for the coroutine goes on.
AllAwaitReady ==
  /\ AwaitReady(remaining = 0)
  /\ resumed' = IF remaining = 0 THEN 1 ELSE resumed
  /\ UNCHANGED <<noted, holder, remaining>>

AllSetContinuation == StoreContinuation /\ UNCHANGED <<noted, holder, remaining, resumed>>

AllStoreArrives == SeeContinuation /\ UNCHANGED <<noted, holder, remaining, resumed>>

\* Mutant: await_suspend does not look at the counter again.
AllCheckNothing == CheckAgain(FALSE) /\ UNCHANGED <<noted, holder, remaining, resumed>>

\* Is every task over by now?
AllCheckCompleted == CheckAgain(remaining = 0) /\ UNCHANGED <<noted, holder, remaining, resumed>>

\* The coroutine takes the results, returns and destroys the wrappers.  (A
\* second resumption finds it gone.)
AllResume ==
  /\ TakeCaller
  /\ resumed' = IF resumed < 2 THEN resumed + 1 ELSE 2
  /\ UNCHANGED <<noted, holder, remaining>>

AllWrapperStep(t) == NoteOutcome(t) \/ CountDown(t) \/ ResumeCaller(t) \/ Leave(t)

AllCallerStep == AllAwaitReady \/ AllSetContinuation \/ AllCheckCompleted

AllNext ==
  \/ \E t \in Tasks : AllStart(t) \/ AllTaskEnds(t) \/ AllWrapperStep(t)
  \/ AllCallerStep \/ AllStoreArrives \/ AllResume

AllSpec == AllInit /\ [][AllNext]_allVars

\* Threads go on, stores arrive, tasks end and what is scheduled is resumed.
AllFairness ==
  /\ \A t \in Tasks :
       /\ WF_allVars(AllStart(t))
       /\ WF_allVars(AllTaskEnds(t))
       /\ WF_allVars(AllWrapperStep(t))
  /\ WF_allVars(AllCallerStep) /\ WF_allVars(AllStoreArrives) /\ WF_allVars(AllResume)

AllFairSpec == AllSpec /\ AllFairness

-----------------------------------------------------------------------------
AllTypeOK ==
  /\ form \in {"pack", "vector"}
  /\ oneWorker \in BOOLEAN
  /\ ordered \in BOOLEAN
  /\ wrapper \in [Tasks -> {"created", "awaiting", "noting", "counting", "resuming",
                            "leaving", "over"}]
  /\ outcome \in [Tasks -> {"none", "value", "exception"}]
  /\ holder \in SUBSET Tasks
  /\ results \in SUBSET Tasks
  /\ exceptions \in Seq(Tasks)
  /\ remaining \in 0 .. Cardinality(Tasks)
  /\ continuation \in {"null", "buffered", "set"}
  /\ caller \in {"starting", "suspending", "checking", "suspended"}
  /\ queued \in Nat
  /\ resumed \in 0 .. 2

Noted == {t \in Tasks : wrapper[t] \in {"counting", "resuming", "leaving", "over"}}
Counted == {t \in Tasks : wrapper[t] \in {"resuming", "leaving", "over"}}

\* The counter counts the wrappers that have not counted down.
CountExact == remaining = Cardinality(Tasks \ Counted)

\* A wrapper that is past that step has noted how its task ended, in one place.
OutcomesNoted ==
  /\ results = {t \in Noted : outcome[t] = "value"}
  /\ ToSet(exceptions) = {t \in Noted : outcome[t] = "exception"}
  /\ \A t \in Tasks : outcome[t] = "none" <=> wrapper[t] \in {"created", "awaiting"}

\* Nobody is resumed, or about to be, by a wrapper that is not the last.
LastOnly ==
  (\E t \in Tasks : wrapper[t] = "resuming") \/ queued > 0 \/ resumed > 0 => remaining = 0

\* The lock is kept by the one wrapper that is between its note and its end.
LockExact ==
  /\ holder = {t \in Noted : wrapper[t] # "over" /\ KeepsLock(t)}
  /\ \A t, u \in holder : t = u

\* Types, and what the counter, the notes, the lock and the wrappers say of
\* each other.
WhenAllInv == AllTypeOK /\ CountExact /\ OutcomesNoted /\ LastOnly /\ LockExact

\* docs/source/guides/04-structured-concurrency.md:9: when_all waits until all
\* tasks have completed.  await_resume never moves a result out of an empty
\* optional, and misses no exception.
ReturnsAfterAll ==
  queued > 0 \/ resumed > 0 => results \cup ToSet(exceptions) = Tasks

\* On a single thread when_all returns once, and by then its thread has left
\* await_suspend and the wrappers, which are destroyed with it.
SerialReturnIsClean ==
  oneWorker =>
    /\ queued + resumed <= 1
    /\ resumed = 1 => caller = "suspended" /\ \A t \in Tasks : wrapper[t] = "over"

\* If stores arrive in order, then whichever way the last wrapper and
\* await_suspend race, one of them sees that the other has come too early: once
\* its tasks have ended when_all returns.
AllReturns == ordered ~> resumed > 0
=============================================================================
