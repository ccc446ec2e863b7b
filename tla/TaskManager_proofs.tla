-------------------------- MODULE TaskManager_proofs --------------------------
(***************************************************************************)
(* Proofs about Runtime's blocking calls and about TaskManager under them, *)
(* for every number of threads, coroutines, tasks and groups: the calls    *)
(* count their coroutines exactly and return when all are over, block_on   *)
(* does not sleep through the end of its coroutine, and the operations of  *)
(* the manager see the end of every task that they have to wait for.       *)
(***************************************************************************)
EXTENDS TaskManager, FiniteSetTheorems, TLAPS

-----------------------------------------------------------------------------
(***************************************************************************)
(* Runtime.                                                                *)
(***************************************************************************)

\* Every coroutine is awaited by one call.
LEMMA CallerUnique ==
  ASSUME NEW c \in Coros
  PROVE  /\ Caller(c) \in Threads /\ c \in Awaits[Caller(c)]
         /\ \A t \in Threads : c \in Awaits[t] => t = Caller(c)
<1>1. \E t \in Threads : c \in Awaits[t]
  BY RuntimeAssumption
<1>2. Caller(c) \in Threads /\ c \in Awaits[Caller(c)]
  BY <1>1 DEF Caller
<1>3. \A t, u \in Threads : c \in Awaits[t] /\ c \in Awaits[u] => t = u
  BY RuntimeAssumption
<1> QED
  BY <1>2, <1>3

\* The coroutines that a call has still to wait for are finitely many.
LEMMA UncountedFinite ==
  ASSUME NEW t \in Threads, NEW S
  PROVE  IsFiniteSet(Awaits[t] \ S) /\ Awaits[t] \subseteq Coros
<1>1. Awaits[t] \subseteq Coros /\ IsFiniteSet(Coros)
  BY RuntimeAssumption
<1>2. IsFiniteSet(Awaits[t])
  BY <1>1, FS_Subset
<1> QED
  BY <1>1, <1>2, FS_Subset

\* Only join_all notifies without its mutex, and after it has counted down.
NotifiesLate == \A c \in Coros : wrapper[c] = "notifying" => call[Caller(c)] = "join_all"

RuntimeInv ==
  RuntimeTypeOK /\ CountExact /\ NoLostNotify /\ ReturnsAfterAll /\ NotifiesLate

LEMMA RuntimeInitEstablishes == RuntimeInit => RuntimeInv
<1> SUFFICES ASSUME RuntimeInit PROVE RuntimeInv
  OBVIOUS
<1>1. \A t \in Threads : Counted(t) = {} /\ Awaits[t] \subseteq Coros
  BY RuntimeAssumption DEF RuntimeInit, Counted
<1>2. \A t \in Threads : Cardinality(Awaits[t]) \in Nat /\ Awaits[t] \ Counted(t) = Awaits[t]
  <2> SUFFICES ASSUME NEW t \in Threads
               PROVE  Cardinality(Awaits[t]) \in Nat /\ Awaits[t] \ Counted(t) = Awaits[t]
    OBVIOUS
  <2>1. Awaits[t] \ Counted(t) = Awaits[t]
    BY <1>1
  <2>2. IsFiniteSet(Awaits[t])
    BY <2>1, UncountedFinite
  <2> QED
    BY <2>1, <2>2, FS_CardinalityType
<1>3. RuntimeTypeOK
  BY <1>2 DEF RuntimeInit, RuntimeTypeOK
<1>4. CountExact
  BY <1>1, <1>2 DEF RuntimeInit, CountExact
<1>5. NoLostNotify /\ ReturnsAfterAll /\ NotifiesLate
  BY DEF RuntimeInit, NoLostNotify, ReturnsAfterAll, NotifiesLate
<1> QED
  BY <1>3, <1>4, <1>5 DEF RuntimeInv

\* A wrapper that is about to count down is among those that the counter
\* counts, and by counting down leaves them.
LEMMA CountDownExact ==
  ASSUME RuntimeInv, NEW c \in Coros, wrapper[c] = "counting",
         wrapper'[c] \in {"notifying", "over"},
         \A d \in Coros \ {c} : wrapper'[d] = wrapper[d],
         remaining' = [remaining EXCEPT ![Caller(c)] = @ - 1]
  PROVE  /\ remaining[Caller(c)] \in Nat \ {0}
         /\ remaining' \in [Threads -> Nat]
         /\ \A t \in Threads : remaining'[t] = Cardinality(Awaits[t] \ Counted(t)')
         /\ \A t \in Threads :
              Counted(t)' = IF t = Caller(c) THEN Counted(t) \cup {c} ELSE Counted(t)
<1> DEFINE k == Caller(c)
           S == Awaits[k] \ Counted(k)
<1>1. /\ k \in Threads /\ c \in Awaits[k]
      /\ \A t \in Threads : c \in Awaits[t] => t = k
  BY CallerUnique
<1> HIDE DEF k
<1>2. \A t \in Threads : Awaits[t] \subseteq Coros /\ IsFiniteSet(Awaits[t] \ Counted(t))
  BY UncountedFinite
<1>3. \A t \in Threads :
        Counted(t)' = IF t = k THEN Counted(t) \cup {c} ELSE Counted(t)
  BY <1>1, <1>2 DEF Counted
<1>4. c \in S /\ IsFiniteSet(S) /\ remaining[k] = Cardinality(S)
  BY <1>1, <1>2 DEF Counted, RuntimeInv, CountExact
<1>5. Awaits[k] \ Counted(k)' = S \ {c}
  BY <1>1, <1>3
<1> HIDE DEF S
<1>6. /\ Cardinality(S \ {c}) = Cardinality(S) - 1
      /\ Cardinality(S) \in Nat /\ Cardinality(S \ {c}) \in Nat
  <2>1. Cardinality(S \ {c}) = Cardinality(S) - 1
    BY <1>4, FS_RemoveElement
  <2>2. IsFiniteSet(S \ {c})
    BY <1>4, FS_Subset
  <2> QED
    BY <1>4, <2>1, <2>2, FS_CardinalityType
<1>7. remaining[k] \in Nat \ {0}
  BY <1>4, <1>6
<1>8. remaining' \in [Threads -> Nat]
  BY <1>1, <1>7 DEF RuntimeInv, RuntimeTypeOK, k
<1>9. ASSUME NEW t \in Threads PROVE remaining'[t] = Cardinality(Awaits[t] \ Counted(t)')
  <2>1. CASE t = k
    BY <1>4, <1>5, <1>6, <2>1 DEF RuntimeInv, RuntimeTypeOK, k
  <2>2. CASE t # k
    BY <1>3, <2>2 DEF RuntimeInv, RuntimeTypeOK, CountExact, k
  <2> QED
    BY <2>1, <2>2
<1> QED
  BY <1>3, <1>7, <1>8, <1>9 DEF k

\* The thread starts a wrapper, or a coroutine ends.
LEMMA WrapperRunsPreserves ==
  ASSUME RuntimeInv, NEW c \in Coros,
         \/ StartWrapper(c)
         \/ \E how \in {"value", "exception"} : Finish(c, how)
  PROVE  RuntimeInv'
<1> USE DEF RuntimeInv, Goto
<1>0. /\ UNCHANGED <<waiter, remaining, exceptions>>
      /\ wrapper[c] \in {"created", "running"}
      /\ \E to \in {"running", "counting"} : wrapper' = [wrapper EXCEPT ![c] = to]
      /\ ended' \in [Coros -> {"none", "value", "exception"}]
      /\ \A d \in Coros \ {c} : ended'[d] = ended[d]
      /\ ended'[c] = "none" <=> wrapper'[c] = "running"
  <2>1. wrapper[c] \in {"created", "running"} => ended[c] = "none"
    BY CallerUnique DEF CountExact
  <2>2. CASE StartWrapper(c)
    BY <2>1, <2>2 DEF StartWrapper, RuntimeTypeOK
  <2>3. CASE \E how \in {"value", "exception"} : Finish(c, how)
    BY <2>3 DEF Finish, RuntimeTypeOK
  <2> QED
    BY <2>2, <2>3
<1>1. /\ wrapper' \in [Coros -> {"created", "running", "counting", "notifying", "over"}]
      /\ wrapper'[c] \in {"running", "counting"}
      /\ \A d \in Coros \ {c} : wrapper'[d] = wrapper[d]
  BY <1>0 DEF RuntimeTypeOK
<1>2. RuntimeTypeOK'
  BY <1>0, <1>1 DEF RuntimeTypeOK
<1>3. \A t \in Threads : Counted(t)' = Counted(t) /\ Awaits[t] \subseteq Coros /\ c \notin Counted(t)
  BY <1>0, <1>1, UncountedFinite DEF Counted
<1>4. CountExact'
  <2> SUFFICES ASSUME NEW t \in Threads
               PROVE  /\ remaining'[t] = Cardinality(Awaits[t] \ Counted(t)')
                      /\ exceptions'[t] = {d \in Counted(t)' : ended'[d] = "exception"}
                      /\ \A d \in Awaits[t] :
                           ended'[d] = "none" <=> wrapper'[d] \in {"created", "running"}
    BY DEF CountExact
  <2>1. remaining'[t] = Cardinality(Awaits[t] \ Counted(t)')
    BY <1>0, <1>3 DEF CountExact
  <2>2. Counted(t) \subseteq Coros
    BY <1>3 DEF Counted
  <2>3. exceptions'[t] = {d \in Counted(t)' : ended'[d] = "exception"}
    <3>1. \A d \in Counted(t) : ended'[d] = ended[d]
      BY <1>0, <1>3, <2>2
    <3>2. exceptions'[t] = {d \in Counted(t) : ended[d] = "exception"}
      BY <1>0 DEF CountExact
    <3> QED
      BY <1>3, <3>1, <3>2
  <2>4. \A d \in Awaits[t] : ended'[d] = "none" <=> wrapper'[d] \in {"created", "running"}
    BY <1>0, <1>1, <1>3 DEF CountExact
  <2> QED
    BY <2>1, <2>3, <2>4
<1>5. NoLostNotify'
  BY <1>0 DEF NoLostNotify
<1>6. ReturnsAfterAll'
  <2>1. \A t \in Threads : waiter[t] = "returned" => c \notin Awaits[t]
    BY <1>0 DEF ReturnsAfterAll, CountExact
  <2> QED
    BY <1>0, <1>1, <1>3, <2>1 DEF ReturnsAfterAll
<1>7. NotifiesLate'
  BY <1>1 DEF NotifiesLate
<1> QED
  BY <1>2, <1>4, <1>5, <1>6, <1>7

\* A wrapper counts down, and the last one notifies, at once or later.
LEMMA CountDownPreserves ==
  ASSUME RuntimeInv, NEW c \in Coros, CountDownLocked(c) \/ CountDownFree(c)
  PROVE  RuntimeInv'
<1> DEFINE k == Caller(c)
<1> USE DEF RuntimeInv
<1>0. /\ wrapper[c] = "counting" /\ ended' = ended
      /\ remaining' = [remaining EXCEPT ![k] = @ - 1]
      /\ \E to \in {"notifying", "over"} : wrapper' = [wrapper EXCEPT ![c] = to]
  BY DEF CountDownLocked, CountDownFree, Goto
<1>1. k \in Threads /\ c \in Awaits[k] /\ \A t \in Threads : c \in Awaits[t] => t = k
  BY CallerUnique
<1>2. /\ wrapper'[c] \in {"notifying", "over"}
      /\ \A d \in Coros \ {c} : wrapper'[d] = wrapper[d]
      /\ wrapper' \in [Coros -> {"created", "running", "counting", "notifying", "over"}]
  BY <1>0 DEF RuntimeTypeOK
<1>3. /\ remaining[k] \in Nat \ {0} /\ remaining' \in [Threads -> Nat]
      /\ \A t \in Threads : remaining'[t] = Cardinality(Awaits[t] \ Counted(t)')
      /\ \A t \in Threads :
           Counted(t)' = IF t = k THEN Counted(t) \cup {c} ELSE Counted(t)
  BY <1>0, <1>2, CountDownExact
<1>4. exceptions' = [exceptions EXCEPT ![k] = @ \cup {d \in {c} : ended[d] = "exception"}]
  <2>1. CASE CountDownLocked(c)
    BY <2>1 DEF CountDownLocked
  <2>2. CASE CountDownFree(c)
    <3>1. exceptions' = exceptions /\ ended[c] # "exception"
      BY <2>2 DEF CountDownFree, UnderLock
    <3> QED
      BY <1>1, <3>1 DEF RuntimeTypeOK
  <2> QED
    BY <2>1, <2>2
<1>5. /\ waiter' \in [Threads -> {"starting", "testing", "blocking", "waiting", "returned"}]
      /\ \A t \in Threads \ {k} : waiter'[t] = waiter[t]
      /\ waiter'[k] = waiter[k] \/ waiter'[k] = "testing"
      /\ call[k] = "block_on" /\ remaining[k] = 1 => waiter'[k] \notin {"blocking", "waiting"}
  BY <1>1 DEF CountDownLocked, CountDownFree, WakeWaiter, UnderLock, RuntimeTypeOK
<1>6. call[k] \in {"block_on", "join_all"} /\ (wrapper'[c] = "notifying" => call[k] = "join_all")
  <2>1. call[k] \in {"block_on", "join_all"}
    BY <1>1, RuntimeAssumption
  <2>2. CASE CountDownLocked(c)
    <3>1. wrapper'[c] = "over"
      BY <2>2 DEF CountDownLocked, Goto, RuntimeTypeOK
    <3> QED
      BY <2>1, <3>1
  <2>3. CASE CountDownFree(c)
    BY <2>1, <2>3 DEF CountDownFree, UnderLock
  <2> QED
    BY <2>2, <2>3
<1> HIDE DEF k
<1>7. \A t \in Threads : Awaits[t] \subseteq Coros /\ Counted(t) \subseteq Awaits[t]
  BY UncountedFinite DEF Counted
<1>8. exceptions' \in [Threads -> SUBSET Coros]
  BY <1>1, <1>4 DEF RuntimeTypeOK
<1>9. RuntimeTypeOK'
  BY <1>0, <1>2, <1>3, <1>5, <1>8 DEF RuntimeTypeOK
<1>10. CountExact'
  <2>1. \A t \in Threads : exceptions'[t] = {d \in Counted(t)' : ended'[d] = "exception"}
    <3> SUFFICES ASSUME NEW t \in Threads
                 PROVE  exceptions'[t] = {d \in Counted(t)' : ended[d] = "exception"}
      BY <1>0
    <3>1. exceptions[t] = {d \in Counted(t) : ended[d] = "exception"}
      BY DEF CountExact
    <3>2. CASE t = k
      BY <1>3, <1>4, <3>1, <3>2 DEF RuntimeTypeOK
    <3>3. CASE t # k
      BY <1>3, <1>4, <3>1, <3>3 DEF RuntimeTypeOK
    <3> QED
      BY <3>2, <3>3
  <2>2. \A t \in Threads : \A d \in Awaits[t] :
          ended'[d] = "none" <=> wrapper'[d] \in {"created", "running"}
    BY <1>0, <1>2, <1>7 DEF CountExact
  <2> QED
    BY <1>3, <2>1, <2>2 DEF CountExact
<1>11. NoLostNotify'
  <2> SUFFICES ASSUME NEW t \in Threads, call[t] = "block_on", remaining'[t] = 0
               PROVE  waiter'[t] \notin {"blocking", "waiting"}
    BY DEF NoLostNotify
  <2>1. CASE t = k
    BY <1>0, <1>1, <1>3, <1>5, <2>1 DEF RuntimeTypeOK
  <2>2. CASE t # k
    BY <1>0, <1>5, <2>2 DEF NoLostNotify, RuntimeTypeOK
  <2> QED
    BY <2>1, <2>2
<1>12. ReturnsAfterAll'
  <2>1. \A t \in Threads : waiter'[t] = "returned" => waiter[t] = "returned"
    BY <1>5
  <2>2. \A t \in Threads : waiter[t] = "returned" /\ call[t] = "block_on" => t # k
    BY <1>0, <1>1 DEF ReturnsAfterAll
  <2>3. \A t \in Threads \ {k} : \A d \in Awaits[t] : wrapper'[d] = wrapper[d]
    BY <1>1, <1>2, <1>7
  <2> QED
    BY <1>0, <2>1, <2>2, <2>3 DEF ReturnsAfterAll
<1>13. NotifiesLate'
  BY <1>2, <1>6 DEF NotifiesLate, k
<1> QED
  BY <1>9, <1>10, <1>11, <1>12, <1>13

\* The late notification of join_all, and what the threads do.
LEMMA ThreadsPreserve ==
  ASSUME RuntimeInv,
         (\E c \in Coros : NotifyFree(c)) \/ (\E t \in Threads : ThreadStep(t))
  PROVE  RuntimeInv'
<1> USE DEF RuntimeInv
<1>0. \A t \in Threads : Awaits[t] \subseteq Coros /\ Counted(t) \subseteq Awaits[t]
  BY UncountedFinite DEF Counted
<1>1. ASSUME NEW c \in Coros, NotifyFree(c) PROVE RuntimeInv'
  <2> DEFINE k == Caller(c)
  <2>1. /\ wrapper[c] = "notifying" /\ wrapper' = [wrapper EXCEPT ![c] = "over"]
        /\ UNCHANGED <<ended, remaining, exceptions>>
    BY <1>1 DEF NotifyFree, Goto
  <2>2. /\ waiter' \in [Threads -> {"starting", "testing", "blocking", "waiting", "returned"}]
        /\ \A t \in Threads : waiter'[t] = waiter[t] \/ waiter'[t] = "testing"
    BY <1>1, CallerUnique DEF NotifyFree, WakeWaiter, RuntimeTypeOK
  <2>3. \A t \in Threads : Counted(t)' = Counted(t)
    BY <1>0, <2>1 DEF Counted, RuntimeTypeOK
  <2>4. RuntimeTypeOK'
    BY <2>1, <2>2 DEF RuntimeTypeOK
  <2>5. CountExact'
    <3>1. \A d \in Coros : wrapper'[d] \in {"created", "running"} <=> wrapper[d] \in {"created", "running"}
      BY <2>1 DEF RuntimeTypeOK
    <3> QED
      BY <1>0, <2>1, <2>3, <3>1 DEF CountExact
  <2>6. NoLostNotify' /\ NotifiesLate'
    BY <2>1, <2>2 DEF NoLostNotify, NotifiesLate, RuntimeTypeOK
  <2>7. ReturnsAfterAll'
    BY <1>0, <2>1, <2>2 DEF ReturnsAfterAll, RuntimeTypeOK
  <2> QED
    BY <2>4, <2>5, <2>6, <2>7
<1>2. ASSUME NEW t \in Threads, ThreadStep(t) PROVE RuntimeInv'
  <2>1. UNCHANGED <<wrapper, ended, remaining, exceptions>>
    BY <1>2 DEF ThreadStep, Await, Test, Block, ThreadGoto
  <2>2. \A u \in Threads : Counted(u)' = Counted(u)
    BY <2>1 DEF Counted
  <2>3. /\ waiter' \in [Threads -> {"starting", "testing", "blocking", "waiting", "returned"}]
        /\ \A u \in Threads \ {t} : waiter'[u] = waiter[u]
        /\ waiter'[t] \in {"blocking", "waiting"} /\ call[t] = "block_on" => remaining[t] # 0
        /\ waiter'[t] = "returned" => remaining[t] = 0
    BY <1>2 DEF ThreadStep, Await, Test, Block, ThreadGoto, RuntimeTypeOK, NoLostNotify
  <2>4. RuntimeTypeOK' /\ NoLostNotify' /\ NotifiesLate'
    BY <2>1, <2>3 DEF RuntimeTypeOK, NoLostNotify, NotifiesLate
  <2>5. CountExact'
    BY <2>1, <2>2 DEF CountExact
  <2>6. ReturnsAfterAll'
    <3>1. ASSUME waiter'[t] = "returned"
          PROVE  /\ \A c \in Awaits[t] : ended[c] # "none"
                 /\ call[t] = "block_on" => \A c \in Awaits[t] : wrapper[c] = "over"
      <4>1. Cardinality(Awaits[t] \ Counted(t)) = 0 /\ IsFiniteSet(Awaits[t] \ Counted(t))
        BY <2>3, <3>1, UncountedFinite DEF CountExact
      <4>2. Awaits[t] \ Counted(t) = {}
        BY <4>1, FS_EmptySet
      <4>3. \A c \in Awaits[t] : wrapper[c] \in {"notifying", "over"}
        BY <4>2 DEF Counted
      <4>4. \A c \in Awaits[t] : Caller(c) = t
        BY <1>0, CallerUnique
      <4> QED
        BY <1>0, <4>3, <4>4 DEF CountExact, NotifiesLate
    <3> QED
      BY <2>1, <2>3, <3>1 DEF ReturnsAfterAll
  <2> QED
    BY <2>4, <2>5, <2>6
<1> QED
  BY <1>1, <1>2

LEMMA RuntimeUnchanged == RuntimeInv /\ UNCHANGED runtimeVars => RuntimeInv'
BY DEF RuntimeInv, runtimeVars, RuntimeTypeOK, CountExact, Counted, NoLostNotify,
       ReturnsAfterAll, NotifiesLate

-----------------------------------------------------------------------------
(***************************************************************************)
(* TaskManager.                                                            *)
(***************************************************************************)

\* An operation waits for tasks of its group; a shutdown that has been called
\* has set is_shutdown_, and is of all groups.
DueInGroup == \A c \in Coros : due[c] \subseteq InGroup(does[c].group)
ShutdownRefuses ==
  \A c \in Coros : does[c].kind = "shutdown" =>
    /\ does[c].group = All
    /\ op[c] # "start" => is_shutdown_

\* The inductive invariant of the manager under the blocking calls.
IInv ==
  /\ RuntimeInv /\ TypeOK /\ Running \subseteq groups_ /\ JoinWaits
  /\ DueInGroup /\ ShutdownRefuses

LEMMA InitEstablishes == Init => IInv
<1> SUFFICES ASSUME Init PROVE IInv
  OBVIOUS
<1>1. RuntimeInv
  BY RuntimeInitEstablishes DEF Init
<1>2. does \in [Coros -> Operations] /\ Running = {} /\ Submitted = {}
  BY DEF Init, Running, Submitted
<1>3. TypeOK
  BY <1>1, <1>2 DEF RuntimeInv, Init, TypeOK
<1>4. JoinWaits /\ DueInGroup
  BY DEF Init, JoinWaits, DueInGroup
<1>5. ShutdownRefuses
  BY <1>2 DEF Init, ShutdownRefuses, Operations
<1> QED
  BY <1>1, <1>2, <1>3, <1>4, <1>5 DEF IInv

\* The empty name stands for every group.
LEMMA AllGroups == InGroup(All) = Tasks /\ \A g : InGroup(g) \subseteq Tasks
BY DEF InGroup

\* A task is submitted or ends.
LEMMA TaskStepPreserves ==
  ASSUME IInv, NEW x \in Tasks, Submit(x) \/ TaskEnds(x)
  PROVE  IInv'
<1> USE DEF IInv
<1>0. /\ UNCHANGED <<runtimeVars, is_shutdown_, cancelled, does, op, due>>
      /\ Submitted \subseteq Submitted' /\ Submitted' \subseteq Submitted \cup {x}
      /\ task' \in [Tasks -> {"created", "running", "done"}]
      /\ groups_' \subseteq Submitted' /\ Running' \subseteq groups_'
      /\ Running' \subseteq Running \/ (~is_shutdown_ /\ x \notin Submitted /\ Running' \subseteq Running \cup {x})
  BY DEF Submit, TaskEnds, TypeOK, Running, Submitted
<1>1. RuntimeInv'
  BY <1>0, RuntimeUnchanged
<1>2. TypeOK'
  BY <1>0, <1>1 DEF TypeOK, RuntimeInv
<1>3. JoinWaits'
  <2> SUFFICES ASSUME NEW c \in Coros
               PROVE  /\ op[c] = "finished" => due[c] \cap Running' = {}
                      /\ does[c].kind = "shutdown" =>
                           /\ op[c] \in {"scan", "cleanup", "finished"} => Running' \subseteq cancelled
                           /\ op[c] = "finished" => ListGroups' = {} /\ Running' = {}
    BY <1>0 DEF JoinWaits
  <2>1. op[c] = "finished" => due[c] \cap Running' = {}
    BY <1>0 DEF JoinWaits, TypeOK
  <2>2. does[c].kind = "shutdown" /\ op[c] # "start" => Running' \subseteq Running
    BY <1>0 DEF ShutdownRefuses
  <2>3. Running' = {} => ListGroups' = {}
    BY DEF ListGroups, Active
  <2> QED
    BY <2>1, <2>2, <2>3 DEF JoinWaits
<1>4. DueInGroup' /\ ShutdownRefuses'
  BY <1>0 DEF DueInGroup, ShutdownRefuses, InGroup
<1> QED
  BY <1>0, <1>1, <1>2, <1>3, <1>4

\* An operation of the manager takes a step.
LEMMA OpStepPreserves ==
  ASSUME IInv, NEW c \in Coros, OpStep(c)
  PROVE  IInv'
<1> USE DEF IInv
<1>0. /\ UNCHANGED <<runtimeVars, task, does>> /\ UNCHANGED <<Submitted, Running>>
      /\ op' \in [Coros -> {"start", "cancel", "scan", "cleanup", "finished", "skipped"}]
      /\ \A d \in Coros \ {c} : op'[d] = op[d] /\ due'[d] = due[d]
      /\ is_shutdown_ => is_shutdown_'
      /\ is_shutdown_' \in BOOLEAN
  BY DEF OpStep, JoinGroup, CancelGroup, Shutdown, Scan, Cleanup, OpGoto, Begin, TypeOK,
     Submitted, Running
<1>1. RuntimeInv'
  BY <1>0, RuntimeUnchanged
<1>2. /\ groups_' \subseteq groups_ /\ Running \subseteq groups_'
      /\ cancelled \subseteq cancelled' /\ cancelled' \subseteq Submitted
  BY DEF OpStep, JoinGroup, CancelGroup, Shutdown, Scan, Cleanup, TypeOK
<1>3. due' \in [Coros -> SUBSET Submitted] /\ due'[c] \subseteq InGroup(does[c].group)
  BY DEF OpStep, JoinGroup, CancelGroup, Shutdown, Scan, Cleanup, Begin, TypeOK, DueInGroup
<1>4. TypeOK'
  BY <1>0, <1>1, <1>2, <1>3 DEF TypeOK, RuntimeInv
<1>5. DueInGroup'
  BY <1>0, <1>3 DEF DueInGroup, InGroup
<1>6. ShutdownRefuses'
  <2>1. does[c].kind = "shutdown" => is_shutdown_'
    BY DEF OpStep, JoinGroup, CancelGroup, Shutdown, Scan, Cleanup, OpGoto, ShutdownRefuses
  <2> QED
    BY <1>0, <2>1 DEF ShutdownRefuses
<1>7. JoinWaits'
  <2>1. \A d \in Coros \ {c} :
          /\ op'[d] = "finished" => due'[d] \cap Running' = {}
          /\ does'[d].kind = "shutdown" =>
               /\ op'[d] \in {"scan", "cleanup", "finished"} => Running' \subseteq cancelled'
               /\ op'[d] = "finished" => Running' = {}
    BY <1>0, <1>2 DEF JoinWaits
  <2>2. op'[c] = "finished" =>
          /\ due'[c] \cap Running = {}
          /\ does[c].kind = "shutdown" => Running = {}
    <3> SUFFICES ASSUME op'[c] = "finished"
                 PROVE  /\ due'[c] \cap Running = {}
                        /\ does[c].kind = "shutdown" => Running = {}
      OBVIOUS
    <3>1. Scan(c) /\ Active(does[c].group) = {}
      BY DEF OpStep, JoinGroup, CancelGroup, Shutdown, Scan, Cleanup, OpGoto, TypeOK
    <3>2. InGroup(does[c].group) \cap Running = {}
      BY <3>1 DEF Active
    <3>3. does[c].kind = "shutdown" => Running \subseteq InGroup(does[c].group)
      BY AllGroups DEF ShutdownRefuses, Running
    <3> QED
      BY <1>3, <3>2, <3>3
  <2>3. does[c].kind = "shutdown" /\ op'[c] \in {"scan", "cleanup", "finished"}
          => Running \subseteq cancelled'
    <3> SUFFICES ASSUME does[c].kind = "shutdown", op'[c] \in {"scan", "cleanup", "finished"}
                 PROVE  Running \subseteq cancelled'
      OBVIOUS
    <3>1. CASE CancelGroup(c)
      <4>1. cancelled' = cancelled \cup groups_
        BY <3>1, AllGroups DEF CancelGroup, ShutdownRefuses, TypeOK, Submitted
      <4> QED
        BY <4>1
    <3>2. CASE Scan(c) \/ Cleanup(c)
      BY <1>2, <3>2 DEF Scan, Cleanup, OpGoto, JoinWaits
    <3>3. ~JoinGroup(c) /\ ~Shutdown(c)
      BY DEF JoinGroup, Shutdown, OpGoto, TypeOK
    <3> QED
      BY <3>1, <3>2, <3>3 DEF OpStep
  <2>4. Running' = {} => ListGroups' = {}
    BY DEF ListGroups, Active
  <2> QED
    BY <1>0, <2>1, <2>2, <2>3, <2>4 DEF JoinWaits
<1> QED
  BY <1>0, <1>1, <1>2, <1>4, <1>5, <1>6, <1>7

LEMMA StepPreserves == IInv /\ [Next]_vars => IInv'
<1> SUFFICES ASSUME IInv, [Next]_vars PROVE IInv'
  OBVIOUS
<1>1. ASSUME RuntimeInv', UNCHANGED managerVars PROVE IInv'
  <2>1. UNCHANGED <<Running, Submitted, ListGroups>>
    BY <1>1 DEF managerVars, Running, Submitted, ListGroups, Active
  <2>2. TypeOK'
    BY <1>1, <2>1 DEF IInv, managerVars, TypeOK, RuntimeInv
  <2>3. JoinWaits' /\ DueInGroup' /\ ShutdownRefuses' /\ Running' \subseteq groups_'
    BY <1>1, <2>1 DEF IInv, managerVars, JoinWaits, DueInGroup, ShutdownRefuses, InGroup
  <2> QED
    BY <1>1, <2>2, <2>3 DEF IInv
<1>2. CASE RuntimeNext
  <2>1. RuntimeInv'
    BY <1>2, WrapperRunsPreserves, CountDownPreserves, ThreadsPreserve
       DEF IInv, RuntimeNext, WrapperStep
  <2> QED
    BY <1>1, <1>2, <2>1 DEF RuntimeNext
<1>3. ASSUME NEW x \in Tasks, Submit(x) \/ TaskEnds(x) PROVE IInv'
  BY <1>3, TaskStepPreserves
<1>4. ASSUME NEW c \in Coros, OpStep(c) PROVE IInv'
  BY <1>4, OpStepPreserves
<1>5. ASSUME NEW c \in Coros, Return(c) PROVE IInv'
  <2>1. RuntimeInv'
    BY <1>5, WrapperRunsPreserves DEF IInv, Return
  <2> QED
    BY <1>1, <1>5, <2>1 DEF Return
<1>6. CASE UNCHANGED vars
  <2>1. RuntimeInv'
    BY <1>6, RuntimeUnchanged DEF IInv, vars
  <2> QED
    BY <1>1, <1>6, <2>1 DEF vars
<1> QED
  BY <1>2, <1>3, <1>4, <1>5, <1>6 DEF Next

\* IInv holds in every reachable state.
LEMMA IInvariant == Spec => []IInv
BY InitEstablishes, StepPreserves, PTL DEF Spec

\* The counters of the blocking calls are exact, block_on does not sleep
\* through the end of its coroutine, no call returns before its coroutines are
\* over, and a running task keeps its entry, whoever cleans up when
\* (runtime.hpp:67-151, task_manager.cpp:77-106).
THEOREM TaskManagerInvariant == Spec => []TaskManagerInv
<1>1. IInv => TaskManagerInv
  BY DEF IInv, RuntimeInv, TaskManagerInv
<1> QED
  BY <1>1, IInvariant, PTL

\* An operation that is finished has seen the end of every task of its group
\* that was submitted before it began; after a shutdown nothing runs, and while
\* it waits there is no running task that it has not cancelled
\* (task_manager.cpp:77-157).
THEOREM OperationsWait == Spec => []JoinWaits
<1>1. IInv => JoinWaits
  BY DEF IInv
<1> QED
  BY <1>1, IInvariant, PTL
==============================================================================
