----------------------------- MODULE Task_proofs -----------------------------
(***************************************************************************)
(* Proofs about tasks, for any number of them and any relation of awaiter  *)
(* and awaited: no coroutine is resumed twice, and no frame is destroyed   *)
(* before its coroutine is over.                                           *)
(***************************************************************************)
EXTENDS Task, TLAPS

\* Tasks are started by being awaited or by their owner, never by both, and a
\* task that is cancelled is not awaited.
Regular == Prestarted = {} /\ Cancellable \subseteq Roots

\* An awaiter is resumed only when its child has left its frame.
ResumedAfterEnd ==
  \A t \in Tasks :
    Child[t] # None /\ (pc[t] = "resumed" \/ (pc[t] = "awaiting" /\ queued[t] > 0))
      => pc[Child[t]] = "finished"

\* TaskInv says nothing of the child of an awaiter that is being resumed, which
\* that awaiter destroys next.
IInv == TaskInv /\ ResumedAfterEnd

\* At the start nothing has been started.
LEMMA InitEstablishes == Init => IInv
<1> SUFFICES ASSUME Init PROVE IInv
  OBVIOUS
<1>1. TypeOK
  BY DEF Init, TypeOK
<1>2. ResumedOnce /\ ResumedAfterEnd
  BY DEF Init, ResumedOnce, ResumedAfterEnd
<1>3. ASSUME NEW t \in Tasks PROVE Consistent(t)
  BY DEF Init, Consistent, NotStarted, AwaitLinks
<1> QED
  BY <1>1, <1>2, <1>3 DEF IInv, TaskInv

\* A task that is past its creation and not suspended is started, and not queued.
LEMMA NotSuspended ==
  ASSUME IInv, NEW t \in Tasks, pc[t] \notin Suspended
  PROVE  t \in started /\ queued[t] = 0
<1>1. queued[t] \in Nat
  BY DEF IInv, TaskInv, TypeOK
<1>2. Consistent(t) /\ ResumedOnce
  BY DEF IInv, TaskInv
<1>3. t \in started
  BY <1>2 DEF Consistent, NotStarted, Suspended
<1>4. queued[t] = 0
  BY <1>1, <1>2 DEF ResumedOnce
<1> QED
  BY <1>3, <1>4

\* A task that is awaited has one awaiter.
LEMMA ChildOf ==
  ASSUME IInv, NEW u \in Tasks, Child[u] # None
  PROVE  /\ Child[u] \in Tasks
         /\ AwaitLinks(u)
         /\ \A v \in Tasks : Child[v] = Child[u] => v = u
<1>1. Child[u] \in Tasks
  BY TaskAssumption
<1>2. Consistent(u)
  BY DEF IInv, TaskInv
<1>3. AwaitLinks(u)
  BY <1>2 DEF Consistent
<1>4. \A v \in Tasks : Child[v] = Child[u] => v = u
  BY TaskAssumption
<1> QED
  BY <1>1, <1>3, <1>4

\* A task that is started has never been queued.
LEMMA StartPreserves ==
  ASSUME Regular, IInv, NEW t \in Tasks, Start(t)
  PROVE  IInv'
<1>1. TypeOK /\ ResumedOnce /\ ResumedAfterEnd /\ \A u \in Tasks : Consistent(u)
  BY DEF IInv, TaskInv
<1>2. t \in Roots /\ t \notin started
  BY DEF Start, Regular
<1>3. pc[t] = "created" /\ queued[t] = 0
  BY <1>1, <1>2 DEF Consistent, NotStarted
<1>4. UNCHANGED <<pc, detached, cont, finalCont, result, got, slept, cancelled, cancelling>>
  BY DEF Start
<1>5. started' = started \cup {t}
  BY DEF Start
<1>6. queued' = [queued EXCEPT ![t] = 1]
  BY <1>3 DEF Start, Schedule
<1>7. TypeOK'
  BY <1>1, <1>4, <1>5, <1>6 DEF TypeOK
<1>8. \A u \in Tasks : queued'[u] = IF u = t THEN 1 ELSE queued[u]
  BY <1>1, <1>6 DEF TypeOK
<1>9. ResumedOnce'
  BY <1>1, <1>3, <1>4, <1>5, <1>8 DEF ResumedOnce, Suspended
<1>10. ASSUME NEW u \in Tasks PROVE Consistent(u)'
  <2>1. NotStarted(u)'
    BY <1>1, <1>4, <1>5, <1>8 DEF Consistent, NotStarted
  <2>2. Child[u] # None => AwaitLinks(u)'
    <3> SUFFICES ASSUME Child[u] # None PROVE AwaitLinks(u)'
      OBVIOUS
    <3>1. /\ Child[u] \in Tasks /\ AwaitLinks(u)
          /\ \A v \in Tasks : Child[v] = Child[u] => v = u
      BY ChildOf
    <3>2. Consistent(u) /\ Consistent(Child[u])
      BY <1>1, <3>1
    <3> QED
      BY <1>2, <1>4, <1>5, <1>8, <3>2 DEF Consistent, AwaitLinks, NotStarted, Roots
  <2> QED
    BY <1>1, <1>4, <1>5, <1>8, <2>1, <2>2 DEF Consistent
<1>11. ResumedAfterEnd'
  BY <1>1, <1>3, <1>4, <1>8 DEF ResumedAfterEnd
<1> QED
  BY <1>7, <1>9, <1>10, <1>11 DEF IInv, TaskInv

\* Only a root is detached.
LEMMA DetachPreserves ==
  ASSUME Regular, IInv, NEW t \in Tasks, Detach(t)
  PROVE  IInv'
<1>1. TypeOK /\ ResumedOnce /\ ResumedAfterEnd /\ \A u \in Tasks : Consistent(u)
  BY DEF IInv, TaskInv
<1>2. t \in Spawned
  BY DEF Detach
<1>3. UNCHANGED <<pc, queued, started, cont, finalCont, result, got, slept, cancelled, cancelling>>
  BY DEF Detach
<1>4. detached' = detached \cup {t}
  BY DEF Detach
<1>5. TypeOK'
  BY <1>1, <1>2, <1>3, <1>4 DEF TypeOK
<1>6. ResumedOnce'
  BY <1>1, <1>3 DEF ResumedOnce
<1>7. ASSUME NEW u \in Tasks PROVE Consistent(u)'
  <2>1. NotStarted(u)'
    BY <1>1, <1>3 DEF Consistent, NotStarted
  <2>2. Child[u] # None => AwaitLinks(u)'
    <3> SUFFICES ASSUME Child[u] # None PROVE AwaitLinks(u)'
      OBVIOUS
    <3>1. /\ Child[u] \in Tasks /\ AwaitLinks(u)
          /\ \A v \in Tasks : Child[v] = Child[u] => v = u
      BY ChildOf
    <3>2. Consistent(u) /\ Consistent(Child[u])
      BY <1>1, <3>1
    <3> QED
      BY <1>3, <3>2 DEF Consistent, AwaitLinks
  <2> QED
    BY <1>1, <1>3, <2>1, <2>2 DEF Consistent
<1>8. ResumedAfterEnd'
  BY <1>1, <1>3 DEF ResumedAfterEnd
<1> QED
  BY <1>5, <1>6, <1>7, <1>8 DEF IInv, TaskInv

\* The coroutine is resumed once for the one time it is queued; what it awaits
\* has ended.
LEMMA ResumePreserves ==
  ASSUME Regular, IInv, NEW t \in Tasks, Resume(t)
  PROVE  IInv'
<1>1. TypeOK /\ ResumedOnce /\ ResumedAfterEnd /\ \A u \in Tasks : Consistent(u)
  BY DEF IInv, TaskInv
<1>2. pc[t] \in Suspended /\ queued[t] > 0
  BY DEF Resume
<1>3. queued[t] = 1 /\ t \in started
  BY <1>1, <1>2 DEF ResumedOnce
<1>4. UNCHANGED <<started, detached, cont, finalCont, result, got, slept, cancelled, cancelling>>
  BY DEF Resume
<1>5. pc' = [pc EXCEPT ![t] = IF pc[t] = "awaiting" THEN "resumed" ELSE "running"]
  BY DEF Resume
<1>6. queued' = [queued EXCEPT ![t] = 0]
  BY <1>3 DEF Resume
<1>7. TypeOK'
  BY <1>1, <1>4, <1>5, <1>6 DEF TypeOK
<1>8. \A u \in Tasks : pc'[u] = IF u # t THEN pc[u] ELSE IF pc[t] = "awaiting" THEN "resumed" ELSE "running"
  BY <1>1, <1>5 DEF TypeOK
<1>9. \A u \in Tasks : queued'[u] = IF u = t THEN 0 ELSE queued[u]
  BY <1>1, <1>6 DEF TypeOK
<1>10. ResumedOnce'
  BY <1>1, <1>4, <1>8, <1>9 DEF ResumedOnce
<1>11. ASSUME NEW u \in Tasks PROVE Consistent(u)'
  <2>1. NotStarted(u)'
    BY <1>1, <1>3, <1>4, <1>8, <1>9 DEF Consistent, NotStarted
  <2>2. Child[u] # None => AwaitLinks(u)'
    <3> SUFFICES ASSUME Child[u] # None PROVE AwaitLinks(u)'
      OBVIOUS
    <3>1. /\ Child[u] \in Tasks /\ AwaitLinks(u)
          /\ \A v \in Tasks : Child[v] = Child[u] => v = u
      BY ChildOf
    <3>2. Consistent(u) /\ Consistent(Child[u])
      BY <1>1, <3>1
    <3> QED
      BY <1>2, <1>4, <1>8, <1>9, <3>2, TaskAssumption DEF Consistent, AwaitLinks,
         NotStarted, Suspended
  <2> QED
    BY <1>1, <1>4, <1>8, <1>9, <2>1, <2>2 DEF Consistent
<1>12. ResumedAfterEnd'
  <2> SUFFICES ASSUME NEW u \in Tasks, Child[u] # None,
                      pc'[u] = "resumed" \/ (pc'[u] = "awaiting" /\ queued'[u] > 0)
               PROVE  pc'[Child[u]] = "finished"
    BY DEF ResumedAfterEnd
  <2>1. Child[u] \in Tasks
    BY TaskAssumption
  <2>2. pc[u] = "resumed" \/ (pc[u] = "awaiting" /\ queued[u] > 0)
    BY <1>2, <1>8, <1>9
  <2>3. pc[Child[u]] = "finished"
    BY <1>1, <2>2 DEF ResumedAfterEnd
  <2> QED
    BY <1>2, <1>8, <2>1, <2>3 DEF Suspended
<1> QED
  BY <1>7, <1>10, <1>11, <1>12 DEF IInv, TaskInv

\* A sleeping task is queued by nobody else.
LEMMA WakePreserves ==
  ASSUME Regular, IInv, NEW t \in Tasks, Wake(t)
  PROVE  IInv'
<1>1. TypeOK /\ ResumedOnce /\ ResumedAfterEnd /\ \A u \in Tasks : Consistent(u)
  BY DEF IInv, TaskInv
<1>2. pc[t] = "sleeping" /\ queued[t] = 0
  BY DEF Wake
<1>3. t \in started
  BY <1>1, <1>2 DEF Consistent, NotStarted
<1>4. UNCHANGED <<pc, started, detached, cont, finalCont, result, got, slept, cancelled, cancelling>>
  BY DEF Wake
<1>5. queued' = [queued EXCEPT ![t] = 1]
  BY <1>2 DEF Wake, Schedule
<1>6. TypeOK'
  BY <1>1, <1>4, <1>5 DEF TypeOK
<1>7. \A u \in Tasks : queued'[u] = IF u = t THEN 1 ELSE queued[u]
  BY <1>1, <1>5 DEF TypeOK
<1>8. ResumedOnce'
  BY <1>1, <1>2, <1>3, <1>4, <1>7 DEF ResumedOnce, Suspended
<1>9. ASSUME NEW u \in Tasks PROVE Consistent(u)'
  <2>1. NotStarted(u)'
    BY <1>1, <1>3, <1>4, <1>7 DEF Consistent, NotStarted
  <2>2. Child[u] # None => AwaitLinks(u)'
    <3> SUFFICES ASSUME Child[u] # None PROVE AwaitLinks(u)'
      OBVIOUS
    <3>1. /\ Child[u] \in Tasks /\ AwaitLinks(u)
          /\ \A v \in Tasks : Child[v] = Child[u] => v = u
      BY ChildOf
    <3>2. Consistent(u) /\ Consistent(Child[u])
      BY <1>1, <3>1
    <3> QED
      BY <1>2, <1>4, <1>7, <3>2 DEF Consistent, AwaitLinks
  <2> QED
    BY <1>1, <1>4, <1>7, <2>1, <2>2 DEF Consistent
<1>10. ResumedAfterEnd'
  BY <1>1, <1>2, <1>4, <1>7 DEF ResumedAfterEnd
<1> QED
  BY <1>6, <1>8, <1>9, <1>10 DEF IInv, TaskInv

\* A running task is not queued.
LEMMA SleepPreserves ==
  ASSUME Regular, IInv, NEW t \in Tasks, Sleep(t)
  PROVE  IInv'
<1>1. TypeOK /\ ResumedOnce /\ ResumedAfterEnd /\ \A u \in Tasks : Consistent(u)
  BY DEF IInv, TaskInv
<1>2. pc[t] = "running"
  BY DEF Sleep, Goto
<1>3. t \in started /\ queued[t] = 0
  BY <1>2, NotSuspended DEF Suspended
<1>4. UNCHANGED <<queued, started, detached, cont, finalCont, result, got, cancelled, cancelling>>
  BY DEF Sleep
<1>5. pc' = [pc EXCEPT ![t] = "sleeping"]
  BY DEF Sleep, Goto
<1>6. slept' = slept \cup {t}
  BY DEF Sleep
<1>7. TypeOK'
  BY <1>1, <1>4, <1>5, <1>6 DEF TypeOK
<1>8. \A u \in Tasks : pc'[u] = IF u = t THEN "sleeping" ELSE pc[u]
  BY <1>1, <1>5 DEF TypeOK
<1>9. ResumedOnce'
  BY <1>1, <1>4, <1>8 DEF ResumedOnce, Suspended
<1>10. ASSUME NEW u \in Tasks PROVE Consistent(u)'
  <2>1. NotStarted(u)'
    BY <1>1, <1>3, <1>4, <1>8 DEF Consistent, NotStarted
  <2>2. Child[u] # None => AwaitLinks(u)'
    <3> SUFFICES ASSUME Child[u] # None PROVE AwaitLinks(u)'
      OBVIOUS
    <3>1. /\ Child[u] \in Tasks /\ AwaitLinks(u)
          /\ \A v \in Tasks : Child[v] = Child[u] => v = u
      BY ChildOf
    <3>2. Consistent(u) /\ Consistent(Child[u])
      BY <1>1, <3>1
    <3> QED
      BY <1>2, <1>4, <1>8, <3>2, TaskAssumption DEF Consistent, AwaitLinks
  <2> QED
    BY <1>1, <1>4, <1>8, <2>1, <2>2 DEF Consistent
<1>11. ResumedAfterEnd'
  BY <1>1, <1>2, <1>4, <1>8, TaskAssumption DEF ResumedAfterEnd
<1> QED
  BY <1>7, <1>9, <1>10, <1>11 DEF IInv, TaskInv

\* A task that finds itself cancelled ends with that result.
LEMMA PausePreserves ==
  ASSUME Regular, IInv, NEW t \in Tasks, Pause(t)
  PROVE  IInv'
<1>1. TypeOK /\ ResumedOnce /\ ResumedAfterEnd /\ \A u \in Tasks : Consistent(u)
  BY DEF IInv, TaskInv
<1>2. pc[t] = "running"
  BY DEF Pause
<1>3. t \in started /\ queued[t] = 0
  BY <1>2, NotSuspended DEF Suspended
<1>4. UNCHANGED <<queued, started, detached, cont, finalCont, got, cancelled, cancelling>>
  BY DEF Pause
<1>5. slept' = slept \cup {t}
  BY DEF Pause
<1>6. \/ /\ pc' = [pc EXCEPT ![t] = "ending"]
         /\ result' = [result EXCEPT ![t] = "cancelled"]
      \/ /\ pc' = [pc EXCEPT ![t] = "sleeping"]
         /\ result' = result
  BY DEF Pause
<1>7. TypeOK'
  <2>1. pc' \in [Tasks -> {"created", "running", "sleeping", "suspending", "awaiting",
          "resumed", "ending", "suspended at the end", "finished", "destroyed"}]
    BY <1>1, <1>6 DEF TypeOK
  <2>2. result' \in [Tasks -> {"value", "exception", "cancelled", None}]
    BY <1>1, <1>6 DEF TypeOK
  <2> QED
    BY <1>1, <1>4, <1>5, <2>1, <2>2 DEF TypeOK
<1>8. /\ \A u \in Tasks \ {t} : pc'[u] = pc[u] /\ result'[u] = result[u]
      /\ \/ pc'[t] = "ending" /\ result'[t] = "cancelled"
         \/ pc'[t] = "sleeping" /\ result'[t] = result[t]
  BY <1>1, <1>6 DEF TypeOK
<1>9. ResumedOnce'
  BY <1>1, <1>3, <1>4, <1>8 DEF ResumedOnce
<1>10. ASSUME NEW u \in Tasks PROVE Consistent(u)'
  <2>1. NotStarted(u)'
    BY <1>1, <1>3, <1>4, <1>8 DEF Consistent, NotStarted
  <2>2. Child[u] # None => AwaitLinks(u)'
    <3> SUFFICES ASSUME Child[u] # None PROVE AwaitLinks(u)'
      OBVIOUS
    <3>1. /\ Child[u] \in Tasks /\ AwaitLinks(u)
          /\ \A v \in Tasks : Child[v] = Child[u] => v = u
      BY ChildOf
    <3>2. Consistent(u) /\ Consistent(Child[u])
      BY <1>1, <3>1
    <3> QED
      BY <1>2, <1>4, <1>8, <3>2, TaskAssumption DEF Consistent, AwaitLinks
  <2> QED
    BY <1>1, <1>4, <1>8, <2>1, <2>2, TaskAssumption DEF Consistent
<1>11. ResumedAfterEnd'
  BY <1>1, <1>2, <1>4, <1>8, TaskAssumption DEF ResumedAfterEnd
<1> QED
  BY <1>7, <1>9, <1>10, <1>11 DEF IInv, TaskInv

\* A task that is not started early is not over when it is first awaited.
LEMMA AwaitReadyPreserves ==
  ASSUME Regular, IInv, NEW t \in Tasks, AwaitReady(t)
  PROVE  IInv'
<1>1. TypeOK /\ ResumedOnce /\ ResumedAfterEnd /\ \A u \in Tasks : Consistent(u)
  BY DEF IInv, TaskInv
<1>2. pc[t] = "running" /\ Child[t] \in Tasks /\ got[t] = None
  BY TaskAssumption DEF AwaitReady
<1>3. t \in started /\ queued[t] = 0
  BY <1>2, NotSuspended DEF Suspended
<1>4. Child[t] \notin started /\ pc[Child[t]] = "created"
  <2>1. AwaitLinks(t) /\ Consistent(Child[t])
    BY <1>1, <1>2, TaskAssumption, ChildOf
  <2> QED
    BY <1>2, <2>1 DEF Consistent, AwaitLinks, NotStarted
<1>5. UNCHANGED <<queued, started, detached, cont, finalCont, result, got, slept, cancelled, cancelling>>
  BY DEF AwaitReady
<1>6. pc' = [pc EXCEPT ![t] = "suspending"]
  BY <1>4 DEF AwaitReady, Done
<1>7. TypeOK'
  BY <1>1, <1>5, <1>6 DEF TypeOK
<1>8. \A u \in Tasks : pc'[u] = IF u = t THEN "suspending" ELSE pc[u]
  BY <1>1, <1>6 DEF TypeOK
<1>9. ResumedOnce'
  BY <1>1, <1>3, <1>5, <1>8 DEF ResumedOnce
<1>10. ASSUME NEW u \in Tasks PROVE Consistent(u)'
  <2>1. NotStarted(u)'
    BY <1>1, <1>3, <1>5, <1>8 DEF Consistent, NotStarted
  <2>2. Child[u] # None => AwaitLinks(u)'
    <3> SUFFICES ASSUME Child[u] # None PROVE AwaitLinks(u)'
      OBVIOUS
    <3>1. /\ Child[u] \in Tasks /\ AwaitLinks(u)
          /\ \A v \in Tasks : Child[v] = Child[u] => v = u
      BY ChildOf
    <3>2. Consistent(u) /\ Consistent(Child[u])
      BY <1>1, <3>1
    <3> QED
      BY <1>2, <1>5, <1>8, <3>2, TaskAssumption DEF Consistent, AwaitLinks
  <2> QED
    BY <1>1, <1>2, <1>5, <1>8, <2>1, <2>2, TaskAssumption DEF Consistent
<1>11. ResumedAfterEnd'
  BY <1>1, <1>2, <1>5, <1>8, TaskAssumption DEF ResumedAfterEnd
<1> QED
  BY <1>7, <1>9, <1>10, <1>11 DEF IInv, TaskInv

\* A task with a child returns after its child.
LEMMA ReturnPreserves ==
  ASSUME Regular, IInv, NEW t \in Tasks, Return(t)
  PROVE  IInv'
<1>1. TypeOK /\ ResumedOnce /\ ResumedAfterEnd /\ \A u \in Tasks : Consistent(u)
  BY DEF IInv, TaskInv
<1>2. pc[t] = "running" /\ (Child[t] # None => got[t] # None)
  BY DEF Return, Goto
<1>3. t \in started /\ queued[t] = 0
  BY <1>2, NotSuspended DEF Suspended
<1>4. UNCHANGED <<queued, started, detached, cont, finalCont, got, slept, cancelled, cancelling>>
  BY DEF Return
<1>5. pc' = [pc EXCEPT ![t] = "ending"]
  BY DEF Return, Goto
<1>6. \E r \in {"value", "exception", "cancelled"} : result' = [result EXCEPT ![t] = r]
  BY <1>1 DEF Return, TypeOK
<1>7. TypeOK'
  <2>1. result' \in [Tasks -> {"value", "exception", "cancelled", None}]
    BY <1>1, <1>6 DEF TypeOK
  <2> QED
    BY <1>1, <1>4, <1>5, <2>1 DEF TypeOK
<1>8. \A u \in Tasks : pc'[u] = IF u = t THEN "ending" ELSE pc[u]
  BY <1>1, <1>5 DEF TypeOK
<1>9. \A u \in Tasks : IF u = t THEN result'[u] \in {"value", "exception", "cancelled"} ELSE result'[u] = result[u]
  BY <1>1, <1>6 DEF TypeOK
<1>10. ResumedOnce'
  BY <1>1, <1>3, <1>4, <1>8 DEF ResumedOnce
<1>11. ASSUME NEW u \in Tasks PROVE Consistent(u)'
  <2>1. NotStarted(u)'
    BY <1>1, <1>3, <1>4, <1>8, <1>9 DEF Consistent, NotStarted
  <2>2. Child[u] # None => AwaitLinks(u)'
    <3> SUFFICES ASSUME Child[u] # None PROVE AwaitLinks(u)'
      OBVIOUS
    <3>1. /\ Child[u] \in Tasks /\ AwaitLinks(u)
          /\ \A v \in Tasks : Child[v] = Child[u] => v = u
      BY ChildOf
    <3>2. Consistent(u) /\ Consistent(Child[u])
      BY <1>1, <3>1
    <3> QED
      BY <1>2, <1>4, <1>8, <3>2, TaskAssumption DEF Consistent, AwaitLinks, NotStarted
  <2> QED
    BY <1>1, <1>4, <1>8, <1>9, <2>1, <2>2, TaskAssumption DEF Consistent
<1>12. ResumedAfterEnd'
  BY <1>1, <1>2, <1>4, <1>8, TaskAssumption DEF ResumedAfterEnd
<1> QED
  BY <1>7, <1>10, <1>11, <1>12 DEF IInv, TaskInv

\* The child is started by the one task that awaits it.
LEMMA AwaitSuspendPreserves ==
  ASSUME Regular, IInv, NEW t \in Tasks, AwaitSuspend(t)
  PROVE  IInv'
<1>1. TypeOK /\ ResumedOnce /\ ResumedAfterEnd /\ \A u \in Tasks : Consistent(u)
  BY DEF IInv, TaskInv
<1>2. pc[t] = "suspending"
  BY DEF AwaitSuspend, Goto
<1>3. Child[t] \in Tasks /\ got[t] = None /\ t \in started /\ queued[t] = 0
  <2>1. Child[t] # None /\ Consistent(t)
    BY <1>1, <1>2 DEF Consistent
  <2>2. Child[t] \in Tasks
    BY <2>1, ChildOf
  <2> QED
    BY <1>2, <2>1, <2>2, NotSuspended DEF Consistent, AwaitLinks, Suspended
<1>4. /\ Child[t] \notin started /\ Child[t] # t
      /\ pc[Child[t]] = "created" /\ queued[Child[t]] = 0
      /\ cont[Child[t]] = None /\ finalCont[Child[t]] = None
  <2>1. AwaitLinks(t) /\ Consistent(Child[t])
    BY <1>1, <1>3, TaskAssumption, ChildOf
  <2>2. Child[t] \notin started /\ Child[t] # t
    BY <1>2, <1>3, <2>1 DEF AwaitLinks
  <2> QED
    BY <2>1, <2>2 DEF Consistent, NotStarted
<1>5. \A u \in Tasks : Child[u] = Child[t] => u = t
  BY <1>3, TaskAssumption
<1>6. UNCHANGED <<detached, finalCont, result, got, slept, cancelled, cancelling>>
  BY DEF AwaitSuspend
<1>7. pc' = [pc EXCEPT ![t] = "awaiting"]
  BY DEF AwaitSuspend, Goto
<1>8. cont' = [cont EXCEPT ![Child[t]] = t]
  BY DEF AwaitSuspend
<1>9. started' = started \cup {Child[t]}
  BY DEF AwaitSuspend
<1>10. queued' = [queued EXCEPT ![Child[t]] = 1]
  BY <1>4 DEF AwaitSuspend, Schedule
<1>11. TypeOK'
  BY <1>1, <1>3, <1>6, <1>7, <1>8, <1>9, <1>10 DEF TypeOK
<1>12. \A u \in Tasks : pc'[u] = IF u = t THEN "awaiting" ELSE pc[u]
  BY <1>1, <1>7 DEF TypeOK
<1>13. \A u \in Tasks : cont'[u] = IF u = Child[t] THEN t ELSE cont[u]
  BY <1>1, <1>8 DEF TypeOK
<1>14. \A u \in Tasks : queued'[u] = IF u = Child[t] THEN 1 ELSE queued[u]
  BY <1>1, <1>10 DEF TypeOK
<1>15. ResumedOnce'
  BY <1>1, <1>4, <1>9, <1>12, <1>14 DEF ResumedOnce, Suspended
<1>16. ASSUME NEW u \in Tasks PROVE Consistent(u)'
  <2>1. NotStarted(u)'
    BY <1>1, <1>3, <1>6, <1>9, <1>12, <1>13, <1>14 DEF Consistent, NotStarted
  <2>2. Child[u] # None => AwaitLinks(u)'
    <3> SUFFICES ASSUME Child[u] # None PROVE AwaitLinks(u)'
      OBVIOUS
    <3>1. /\ Child[u] \in Tasks /\ AwaitLinks(u)
          /\ \A v \in Tasks : Child[v] = Child[u] => v = u
      BY ChildOf
    <3>2. Consistent(u) /\ Consistent(Child[u])
      BY <1>1, <3>1
    <3>3. CASE u = t
      BY <1>3, <1>4, <1>6, <1>9, <1>12, <1>13, <3>3 DEF AwaitLinks
    <3>4. CASE u # t
      <4>1. Child[u] # Child[t]
        BY <1>5, <3>4
      <4>2. got'[u] # None => pc'[Child[u]] = "destroyed"
        BY <1>2, <1>6, <1>12, <3>1 DEF AwaitLinks
      <4>3. got'[u] = None /\ pc'[u] \notin {"awaiting", "resumed"} => Child[u] \notin started'
        BY <1>6, <1>9, <1>12, <3>1 DEF AwaitLinks
      <4>4. pc'[u] = "awaiting" /\ queued'[u] = 0 => pc[u] = "awaiting" /\ queued[u] = 0
        BY <1>12, <1>14, <3>4
      <4> QED
        BY <1>6, <1>9, <1>12, <1>13, <3>1, <4>1, <4>2, <4>4 DEF AwaitLinks
    <3> QED
      BY <3>3, <3>4
  <2> QED
    BY <1>1, <1>2, <1>3, <1>4, <1>5, <1>6, <1>9, <1>12, <1>13, <1>14, <2>1, <2>2 DEF
       Consistent
<1>17. ResumedAfterEnd'
  BY <1>1, <1>2, <1>3, <1>4, <1>12, <1>14, TaskAssumption DEF ResumedAfterEnd
<1> QED
  BY <1>11, <1>15, <1>16, <1>17 DEF IInv, TaskInv

\* What an awaiter destroys has finished.
LEMMA AwaitResumePreserves ==
  ASSUME Regular, IInv, NEW t \in Tasks, AwaitResume(t)
  PROVE  IInv'
<1>1. TypeOK /\ ResumedOnce /\ ResumedAfterEnd /\ \A u \in Tasks : Consistent(u)
  BY DEF IInv, TaskInv
<1>2. pc[t] = "resumed" /\ result[Child[t]] # None
  BY DEF AwaitResume
<1>3. Child[t] \in Tasks /\ t \in started /\ queued[t] = 0
  <2>1. Child[t] # None
    BY <1>1, <1>2 DEF Consistent
  <2> QED
    BY <1>2, <2>1, ChildOf, NotSuspended DEF Suspended
<1>4. pc[Child[t]] = "finished" /\ queued[Child[t]] = 0 /\ Child[t] # t
  <2>1. pc[Child[t]] = "finished"
    BY <1>1, <1>2, <1>3, TaskAssumption DEF ResumedAfterEnd
  <2> QED
    BY <1>2, <1>3, <2>1, NotSuspended DEF Suspended
<1>5. \A u \in Tasks : Child[u] = Child[t] => u = t
  BY <1>3, TaskAssumption
<1>6. UNCHANGED <<queued, started, detached, cont, finalCont, result, slept, cancelled, cancelling>>
  BY DEF AwaitResume
<1>7. pc' = [pc EXCEPT ![t] = "running", ![Child[t]] = "destroyed"]
  BY DEF AwaitResume
<1>8. got' = [got EXCEPT ![t] = result[Child[t]]]
  BY DEF AwaitResume
<1>9. TypeOK'
  BY <1>1, <1>3, <1>6, <1>7, <1>8 DEF TypeOK
<1>10. \A u \in Tasks : pc'[u] = IF u = t THEN "running" ELSE IF u = Child[t] THEN "destroyed" ELSE pc[u]
  BY <1>1, <1>4, <1>7 DEF TypeOK
<1>11. \A u \in Tasks : got'[u] = IF u = t THEN result[Child[t]] ELSE got[u]
  BY <1>1, <1>8 DEF TypeOK
<1>12. ResumedOnce'
  BY <1>1, <1>3, <1>4, <1>6, <1>10 DEF ResumedOnce
<1>13. ASSUME NEW u \in Tasks PROVE Consistent(u)'
  <2>1. NotStarted(u)'
    BY <1>1, <1>3, <1>4, <1>6, <1>10 DEF Consistent, NotStarted
  <2>2. Child[u] # None => AwaitLinks(u)'
    <3> SUFFICES ASSUME Child[u] # None PROVE AwaitLinks(u)'
      OBVIOUS
    <3>1. /\ Child[u] \in Tasks /\ AwaitLinks(u)
          /\ \A v \in Tasks : Child[v] = Child[u] => v = u
      BY ChildOf
    <3>2. Consistent(u) /\ Consistent(Child[u])
      BY <1>1, <3>1
    <3> QED
      BY <1>2, <1>4, <1>6, <1>10, <1>11, <3>1 DEF AwaitLinks
  <2> QED
    BY <1>1, <1>3, <1>4, <1>6, <1>10, <1>11, <2>1, <2>2, TaskAssumption, ZenonT(60) DEF Consistent
<1>14. ResumedAfterEnd'
  BY <1>1, <1>2, <1>6, <1>10, TaskAssumption DEF ResumedAfterEnd
<1> QED
  BY <1>9, <1>12, <1>13, <1>14 DEF IInv, TaskInv

\* Only a root destroys itself.
LEMMA FinalSuspendPreserves ==
  ASSUME Regular, IInv, NEW t \in Tasks, FinalSuspend(t)
  PROVE  IInv'
<1>1. TypeOK /\ ResumedOnce /\ ResumedAfterEnd /\ \A u \in Tasks : Consistent(u)
  BY DEF IInv, TaskInv
<1>2. pc[t] = "ending"
  BY DEF FinalSuspend
<1>3. t \in started /\ queued[t] = 0
  BY <1>2, NotSuspended DEF Suspended
<1>4. t \in detached => \A u \in Tasks : Child[u] # t
  BY <1>1, TaskAssumption DEF TypeOK, Roots
<1>5. UNCHANGED <<queued, started, detached, cont, result, got, slept, cancelled, cancelling>>
  BY DEF FinalSuspend
<1>6. \/ /\ t \in detached
         /\ pc' = [pc EXCEPT ![t] = "destroyed"]
         /\ finalCont' = finalCont
      \/ /\ t \notin detached
         /\ pc' = [pc EXCEPT ![t] = "suspended at the end"]
         /\ finalCont' = [finalCont EXCEPT ![t] = cont[t]]
  BY DEF FinalSuspend
<1>7. TypeOK'
  BY <1>1, <1>2, <1>4, <1>5, <1>6 DEF TypeOK
<1>8. \A u \in Tasks :
        \/ pc'[u] = pc[u] /\ finalCont'[u] = finalCont[u] /\ u # t
        \/ pc'[u] = "destroyed" /\ finalCont'[u] = finalCont[u] /\ u = t /\ t \in detached
        \/ pc'[u] = "suspended at the end" /\ finalCont'[u] = cont[u] /\ u = t
  <2>1. CASE t \in detached /\ pc' = [pc EXCEPT ![t] = "destroyed"] /\ finalCont' = finalCont
    BY <1>1, <2>1 DEF TypeOK
  <2>2. CASE /\ pc' = [pc EXCEPT ![t] = "suspended at the end"]
             /\ finalCont' = [finalCont EXCEPT ![t] = cont[t]]
    BY <1>1, <2>2 DEF TypeOK
  <2> QED
    BY <1>6, <2>1, <2>2
<1>9. ResumedOnce'
  BY <1>1, <1>2, <1>5, <1>8 DEF ResumedOnce, Suspended
<1>10. ASSUME NEW u \in Tasks PROVE Consistent(u)'
  <2>1. NotStarted(u)'
    BY <1>1, <1>3, <1>5, <1>8 DEF Consistent, NotStarted
  <2>2. Child[u] # None => AwaitLinks(u)'
    <3> SUFFICES ASSUME Child[u] # None PROVE AwaitLinks(u)'
      OBVIOUS
    <3>1. /\ Child[u] \in Tasks /\ AwaitLinks(u)
          /\ \A v \in Tasks : Child[v] = Child[u] => v = u
      BY ChildOf
    <3>2. Consistent(u) /\ Consistent(Child[u])
      BY <1>1, <3>1
    <3> QED
      BY <1>2, <1>4, <1>5, <1>8, <3>2, TaskAssumption DEF Consistent, AwaitLinks,
         NotStarted
  <2> QED
    BY <1>1, <1>2, <1>5, <1>8, <2>1, <2>2 DEF Consistent
<1>11. ResumedAfterEnd'
  BY <1>1, <1>2, <1>5, <1>8, TaskAssumption DEF ResumedAfterEnd
<1> QED
  BY <1>7, <1>9, <1>10, <1>11 DEF IInv, TaskInv

\* Only the result of a task that can be cancelled changes.
LEMMA CancelResultPreserves ==
  ASSUME Regular, IInv, NEW t \in Tasks, CancelResult(t)
  PROVE  IInv'
<1>1. TypeOK /\ ResumedOnce /\ ResumedAfterEnd /\ \A u \in Tasks : Consistent(u)
  BY DEF IInv, TaskInv
<1>2. cancelling[t] = "result"
  BY DEF CancelResult
<1>3. UNCHANGED <<pc, queued, started, detached, cont, finalCont, got, slept, cancelled>>
  BY DEF CancelResult
<1>4. cancelling' = [cancelling EXCEPT ![t] = "resume"]
  BY DEF CancelResult
<1>5. result' = result \/ (result[t] = None /\ result' = [result EXCEPT ![t] = "cancelled"])
  BY DEF CancelResult
<1>6. TypeOK'
  BY <1>1, <1>3, <1>4, <1>5 DEF TypeOK
<1>7. \A u \in Tasks : cancelling'[u] = IF u = t THEN "resume" ELSE cancelling[u]
  BY <1>1, <1>4 DEF TypeOK
<1>8. \A u \in Tasks : result'[u] = result[u] \/ (result[u] = None /\ result'[u] = "cancelled")
  BY <1>1, <1>5 DEF TypeOK
<1>9. ResumedOnce'
  BY <1>1, <1>3 DEF ResumedOnce
<1>10. ASSUME NEW u \in Tasks PROVE Consistent(u)'
  <2>1. NotStarted(u)'
    BY <1>1, <1>3, <1>8 DEF Consistent, NotStarted
  <2>2. Child[u] # None => AwaitLinks(u)'
    <3> SUFFICES ASSUME Child[u] # None PROVE AwaitLinks(u)'
      OBVIOUS
    <3>1. /\ Child[u] \in Tasks /\ AwaitLinks(u)
          /\ \A v \in Tasks : Child[v] = Child[u] => v = u
      BY ChildOf
    <3>2. Consistent(u) /\ Consistent(Child[u])
      BY <1>1, <3>1
    <3> QED
      BY <1>3, <3>2 DEF Consistent, AwaitLinks
  <2> QED
    BY <1>1, <1>2, <1>3, <1>7, <1>8, <2>1, <2>2 DEF Consistent
<1>11. ResumedAfterEnd'
  BY <1>1, <1>3 DEF ResumedAfterEnd
<1> QED
  BY <1>6, <1>9, <1>10, <1>11 DEF IInv, TaskInv

\* Nobody awaits a task that is cancelled.
LEMMA CancelResumePreserves ==
  ASSUME Regular, IInv, NEW t \in Tasks, CancelResume(t)
  PROVE  IInv'
<1>1. TypeOK /\ ResumedOnce /\ ResumedAfterEnd /\ \A u \in Tasks : Consistent(u)
  BY DEF IInv, TaskInv
<1>2. cancelling[t] = "resume"
  BY DEF CancelResume
<1>3. cont[t] = None
  <2>1. t \in Roots /\ Consistent(t) /\ cont[t] \in Tasks \cup {None}
    BY <1>1, <1>2 DEF Consistent, Regular, TypeOK
  <2> QED
    BY <2>1 DEF Consistent, Roots
<1>4. UNCHANGED <<pc, started, detached, cont, finalCont, result, got, slept, cancelled>>
  BY DEF CancelResume
<1>5. cancelling' = [cancelling EXCEPT ![t] = "over"]
  BY DEF CancelResume
<1>6. queued' = queued
  BY <1>3 DEF CancelResume
<1>7. TypeOK'
  BY <1>1, <1>4, <1>5, <1>6 DEF TypeOK
<1>8. \A u \in Tasks : cancelling'[u] = IF u = t THEN "over" ELSE cancelling[u]
  BY <1>1, <1>5 DEF TypeOK
<1>9. ResumedOnce'
  BY <1>1, <1>4, <1>6 DEF ResumedOnce
<1>10. ASSUME NEW u \in Tasks PROVE Consistent(u)'
  <2>1. NotStarted(u)'
    BY <1>1, <1>4, <1>6 DEF Consistent, NotStarted
  <2>2. Child[u] # None => AwaitLinks(u)'
    <3> SUFFICES ASSUME Child[u] # None PROVE AwaitLinks(u)'
      OBVIOUS
    <3>1. /\ Child[u] \in Tasks /\ AwaitLinks(u)
          /\ \A v \in Tasks : Child[v] = Child[u] => v = u
      BY ChildOf
    <3>2. Consistent(u) /\ Consistent(Child[u])
      BY <1>1, <3>1
    <3> QED
      BY <1>4, <1>6, <3>2 DEF Consistent, AwaitLinks
  <2> QED
    BY <1>1, <1>2, <1>4, <1>6, <1>8, <2>1, <2>2 DEF Consistent
<1>11. ResumedAfterEnd'
  BY <1>1, <1>4, <1>6 DEF ResumedAfterEnd
<1> QED
  BY <1>7, <1>9, <1>10, <1>11 DEF IInv, TaskInv

\* The awaiter of a task that ends is suspended, not queued, and gets resumed.
LEMMA FinalResumePreserves ==
  ASSUME Regular, IInv, NEW t \in Tasks, FinalResume(t)
  PROVE  IInv'
<1>1. TypeOK /\ ResumedOnce /\ ResumedAfterEnd /\ \A u \in Tasks : Consistent(u)
  BY DEF IInv, TaskInv
<1>2. pc[t] = "suspended at the end"
  BY DEF FinalResume, Goto
<1>3. t \in started /\ queued[t] = 0
  BY <1>2, NotSuspended DEF Suspended
<1>4. UNCHANGED <<started, detached, cont, finalCont, result, got, slept, cancelled, cancelling>>
  BY DEF FinalResume
<1>5. pc' = [pc EXCEPT ![t] = "finished"]
  BY DEF FinalResume, Goto
<1>6. ASSUME NEW p \in Tasks, Child[p] = t
      PROVE  /\ got[p] = None /\ pc[p] \in {"awaiting"} /\ queued[p] = 0
             /\ p \in started /\ finalCont[t] = p
  <2>1. /\ AwaitLinks(p) /\ Consistent(p) /\ Child[p] # None
        /\ queued[p] \in Nat
    BY <1>1, <1>6, ChildOf, TaskAssumption DEF TypeOK
  <2>2. got[p] = None /\ pc[p] \in {"awaiting", "resumed"}
    BY <1>2, <1>3, <1>6, <2>1 DEF AwaitLinks
  <2>3. pc[p] = "resumed" \/ (pc[p] = "awaiting" /\ queued[p] > 0) => pc[t] = "finished"
    BY <1>1, <1>6, <2>1 DEF ResumedAfterEnd
  <2>4. pc[p] = "awaiting" /\ queued[p] = 0
    <3>1. pc[t] # "finished" /\ queued[p] \in Nat
      BY <1>2, <2>1
    <3> QED
      BY <2>2, <2>3, <3>1
  <2> QED
    BY <1>2, <1>6, <2>1, <2>4 DEF AwaitLinks, Consistent, NotStarted
<1>7. ASSUME finalCont[t] # None
      PROVE  finalCont[t] \in Tasks /\ Child[finalCont[t]] = t
  BY <1>1, <1>7 DEF TypeOK, Consistent
<1>8. \/ finalCont[t] = None /\ queued' = queued
      \/ finalCont[t] \in Tasks /\ queued' = [queued EXCEPT ![finalCont[t]] = 1]
  <2>1. CASE finalCont[t] = None
    BY <2>1 DEF FinalResume
  <2>2. CASE finalCont[t] # None
    <3>1. finalCont[t] \in Tasks /\ queued[finalCont[t]] = 0
      BY <1>6, <1>7, <2>2
    <3>2. queued' = [queued EXCEPT ![finalCont[t]] = queued[finalCont[t]] + 1]
      BY <2>2 DEF FinalResume, Schedule
    <3> QED
      BY <3>1, <3>2
  <2> QED
    BY <2>1, <2>2
<1>9. TypeOK'
  <2>1. queued' \in [Tasks -> Nat]
    <3>1. queued \in [Tasks -> Nat]
      BY <1>1 DEF TypeOK
    <3>2. CASE queued' = queued
      BY <3>1, <3>2
    <3>3. CASE queued' = [queued EXCEPT ![finalCont[t]] = 1]
      BY <3>1, <3>3
    <3> QED
      BY <1>8, <3>2, <3>3
  <2> QED
    BY <1>1, <1>4, <1>5, <2>1 DEF TypeOK
<1>10. \A u \in Tasks : pc'[u] = IF u = t THEN "finished" ELSE pc[u]
  BY <1>1, <1>5 DEF TypeOK
<1>11. \A u \in Tasks : queued'[u] = IF Child[u] = t THEN 1 ELSE queued[u]
  <2>1. CASE finalCont[t] = None
    BY <1>6, <1>8, <2>1, TaskAssumption
  <2>2. CASE finalCont[t] # None
    BY <1>1, <1>6, <1>7, <1>8, <2>2 DEF TypeOK
  <2> QED
    BY <2>1, <2>2
<1>12. ResumedOnce'
  BY <1>1, <1>2, <1>4, <1>6, <1>10, <1>11 DEF ResumedOnce, Suspended
<1>13. ASSUME NEW u \in Tasks PROVE Consistent(u)'
  <2>1. NotStarted(u)'
    BY <1>1, <1>3, <1>4, <1>6, <1>10, <1>11, ZenonT(60) DEF Consistent, NotStarted
  <2>2. Child[u] # None => AwaitLinks(u)'
    <3> SUFFICES ASSUME Child[u] # None PROVE AwaitLinks(u)'
      OBVIOUS
    <3>1. Child[u] \in Tasks /\ AwaitLinks(u)
      BY ChildOf
    <3>2. CASE Child[u] = t
      <4>1. got[u] = None /\ pc[u] = "awaiting" /\ u # t
        BY <1>2, <1>6, <3>2
      <4>2. pc'[u] = "awaiting" /\ queued'[u] = 1 /\ got'[u] = None
        BY <1>4, <1>10, <1>11, <3>2, <4>1
      <4> QED
        BY <4>2 DEF AwaitLinks
    <3>3. CASE Child[u] # t
      BY <1>2, <1>4, <1>10, <1>11, <3>1, <3>3 DEF AwaitLinks
    <3> QED
      BY <3>2, <3>3
  <2> QED
    BY <1>1, <1>2, <1>4, <1>10, <1>11, <2>1, <2>2 DEF Consistent
<1>14. ResumedAfterEnd'
  BY <1>1, <1>10, <1>11, TaskAssumption DEF ResumedAfterEnd
<1> QED
  BY <1>9, <1>12, <1>13, <1>14 DEF IInv, TaskInv

\* A token's callbacks are for tasks that can be cancelled.
LEMMA CancelPreserves ==
  ASSUME IInv, Cancel
  PROVE  IInv'
<1>1. TypeOK /\ ResumedOnce /\ ResumedAfterEnd /\ \A u \in Tasks : Consistent(u)
  BY DEF IInv, TaskInv
<1>2. UNCHANGED <<pc, queued, started, detached, cont, finalCont, result, got, slept>>
  BY DEF Cancel
<1>3. cancelled' \in BOOLEAN
  BY DEF Cancel
<1>4. cancelling' = [u \in Tasks |-> IF u \in Cancellable THEN "result" ELSE "off"]
  BY DEF Cancel
<1>5. TypeOK'
  BY <1>1, <1>2, <1>3, <1>4 DEF TypeOK
<1>6. ResumedOnce' /\ ResumedAfterEnd'
  BY <1>1, <1>2 DEF ResumedOnce, ResumedAfterEnd
<1>7. ASSUME NEW u \in Tasks PROVE Consistent(u)'
  <2>1. Consistent(u)
    BY <1>1
  <2>2. cancelling'[u] # "off" => u \in Cancellable
    BY <1>4
  <2> QED
    BY <1>2, <2>1, <2>2 DEF Consistent, NotStarted, AwaitLinks
<1> QED
  BY <1>5, <1>6, <1>7 DEF IInv, TaskInv

\* Every step of a task, of the scheduler and of the token preserves IInv.
LEMMA StepPreserves == Regular /\ IInv /\ [Next]_vars => IInv'
<1> SUFFICES ASSUME Regular, IInv, [Next]_vars PROVE IInv'
  OBVIOUS
<1>1. ASSUME NEW t \in Tasks, Start(t) \/ Detach(t) \/ Resume(t) \/ Wake(t)
      PROVE  IInv'
  BY <1>1, StartPreserves, DetachPreserves, ResumePreserves, WakePreserves
<1>2. ASSUME NEW t \in Tasks, BodyStep(t)
      PROVE  IInv'
  BY <1>2, SleepPreserves, PausePreserves, AwaitReadyPreserves, ReturnPreserves DEF
     BodyStep
<1>3. ASSUME NEW t \in Tasks, LibraryStep(t)
      PROVE  IInv'
  BY <1>3, AwaitSuspendPreserves, AwaitResumePreserves, FinalSuspendPreserves,
     FinalResumePreserves DEF LibraryStep
<1>4. ASSUME NEW t \in Tasks, CancelResult(t) \/ CancelResume(t)
      PROVE  IInv'
  BY <1>4, CancelResultPreserves, CancelResumePreserves
<1>5. ASSUME UNCHANGED vars PROVE IInv'
  <2>1. UNCHANGED <<pc, queued, started, detached, cont, finalCont, result, got, slept>>
        /\ UNCHANGED <<cancelled, cancelling>>
    BY <1>5 DEF vars
  <2>2. TypeOK' /\ ResumedOnce' /\ ResumedAfterEnd'
    BY <2>1 DEF IInv, TaskInv, TypeOK, ResumedOnce, ResumedAfterEnd
  <2>3. ASSUME NEW u \in Tasks PROVE Consistent(u)'
    <3>1. Consistent(u)
      BY DEF IInv, TaskInv
    <3> QED
      BY <2>1, <3>1 DEF Consistent, NotStarted, AwaitLinks
  <2> QED
    BY <2>2, <2>3 DEF IInv, TaskInv
<1> QED
  BY <1>1, <1>2, <1>3, <1>4, <1>5, CancelPreserves DEF Next

\* No coroutine is given to the scheduler twice, nor while it runs, nor once it
\* is over (task_promise.hpp:33-70, task_awaiter.hpp:41-59), whatever the tasks
\* and whichever of them await which, as long as they are Regular.
THEOREM TaskInvariant ==
  ASSUME Regular
  PROVE  Spec => []TaskInv
<1>1. Init => IInv
  BY InitEstablishes
<1>2. IInv /\ [Next]_vars => IInv'
  BY StepPreserves
<1>3. IInv => TaskInv
  BY DEF IInv
<1> QED
  BY <1>1, <1>2, <1>3, PTL DEF Spec

\* A frame is destroyed only when its coroutine is over: by the awaiter that
\* FinalAwaiter resumed, or by itself when it is detached (task_awaiter.hpp:26,
\* task_promise.hpp:46).
THEOREM FramesOutliveTheirCoroutines ==
  ASSUME Regular
  PROVE  Spec => DestroyedOnlyWhenOver
<1>1. Init => IInv
  BY InitEstablishes
<1>2. IInv /\ [Next]_vars => IInv'
  BY StepPreserves
<1>3. IInv /\ [Next]_vars
        => [\A t \in Tasks : pc[t] # "destroyed" /\ pc'[t] = "destroyed"
              => pc[t] = "finished" \/ (pc[t] = "ending" /\ t \in detached)]_vars
  <2> SUFFICES ASSUME IInv, Next, NEW t \in Tasks, pc[t] # "destroyed", pc'[t] = "destroyed"
               PROVE  pc[t] = "finished" \/ (pc[t] = "ending" /\ t \in detached)
    OBVIOUS
  <2>1. pc \in [Tasks -> {"created", "running", "sleeping", "suspending", "awaiting",
          "resumed", "ending", "suspended at the end", "finished", "destroyed"}]
    BY DEF IInv, TaskInv, TypeOK
  <2>2. ASSUME NEW u \in Tasks, Start(u) \/ Detach(u) \/ Resume(u) \/ Wake(u)
        PROVE  FALSE
    BY <2>1, <2>2 DEF Start, Detach, Resume, Wake
  <2>3. ASSUME NEW u \in Tasks, BodyStep(u)
        PROVE  FALSE
    BY <2>1, <2>3 DEF BodyStep, Sleep, Pause, AwaitReady, Return, Goto
  <2>4. ASSUME NEW u \in Tasks, AwaitSuspend(u) \/ FinalResume(u)
        PROVE  FALSE
    BY <2>1, <2>4 DEF AwaitSuspend, FinalResume, Goto
  <2>5. ASSUME NEW u \in Tasks, AwaitResume(u)
        PROVE  pc[t] = "finished"
    <3>1. Child[u] # None /\ pc[u] = "resumed"
      <4>1. Consistent(u) /\ pc[u] = "resumed"
        BY <2>5 DEF IInv, TaskInv, AwaitResume
      <4> QED
        BY <4>1 DEF Consistent
    <3>2. Child[u] \in Tasks /\ pc[Child[u]] = "finished"
      BY <3>1, TaskAssumption DEF IInv, ResumedAfterEnd
    <3>3. pc' = [pc EXCEPT ![u] = "running", ![Child[u]] = "destroyed"]
      BY <2>5 DEF AwaitResume
    <3> QED
      BY <2>1, <3>2, <3>3
  <2>6. ASSUME NEW u \in Tasks, FinalSuspend(u)
        PROVE  pc[t] = "ending" /\ t \in detached
    BY <2>1, <2>6 DEF FinalSuspend
  <2>7. ASSUME Cancel \/ \E u \in Tasks : CancelResult(u) \/ CancelResume(u)
        PROVE  FALSE
    BY <2>7 DEF Cancel, CancelResult, CancelResume
  <2> QED
    BY <2>2, <2>3, <2>4, <2>5, <2>6, <2>7 DEF Next, LibraryStep
<1> QED
  BY <1>1, <1>2, <1>3, PTL DEF Spec, DestroyedOnlyWhenOver
=============================================================================
