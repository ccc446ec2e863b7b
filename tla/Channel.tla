------------------------------- MODULE Channel -------------------------------
(***************************************************************************)
(* koroutine::Channel (include/koroutine/channel.hpp) with its reader and  *)
(* writer awaiters (include/koroutine/awaiters/channel_awaiter.hpp).       *)
(*                                                                         *)
(* A critical section of channel_lock is one step.  The awaiters it takes  *)
(* off the lists are resumed after the lock is released, one at a time, by *)
(* the thread that held it; `resuming` holds what such threads have yet to *)
(* do.  _is_active is cleared outside the lock, before clean_up takes it.  *)
(***************************************************************************)
EXTENDS SequencesExt, Integers

CONSTANTS
  Writers, Readers,   \* the coroutines that write and that read
  Capacities,         \* the buffer capacities a channel may be built with
  MaxWrites,          \* bound: how often each writer writes
  CweTimeout,         \* whether close_when_empty is called with a timeout
  None                \* no value

ASSUME ChannelAssumption ==
  /\ Writers \cap Readers = {}
  /\ Capacities \subseteq Nat
  /\ MaxWrites \in [Writers -> Nat]
  /\ CweTimeout \in BOOLEAN

VARIABLES
  capacity,    \* buffer_capacity
  active,      \* _is_active
  cleaned,     \* clean_up has run
  buffer,      \* the values in the buffer
  writerList,  \* the writers whose WriterAwaiter is queued
  readerList,  \* the readers whose ReaderAwaiter is queued
  resuming,    \* the awaiters each running push has still to resume
  pc,          \* "idle", "suspended" or "scheduled", for every coroutine
  wrote,       \* how many writes each writer has begun
  result,      \* the value in the Result of each reader, None if unset
  cwe          \* how far close_when_empty is

\* History: the values handed to readers, in order; those that a read returned
\* and those whose write returned without an exception.
VARIABLES handed, received, acked

vars == <<capacity, active, cleaned, buffer, writerList, readerList, resuming, pc,
          wrote, result, cwe, handed, received, acked>>

Coros == Writers \cup Readers

\* The k-th value that w writes.
Values == UNION {{w} \X (1 .. MaxWrites[w]) : w \in Writers}
Value(w) == <<w, wrote[w]>>

ASSUME NoneAssumption == None \notin Values

Init ==
  /\ capacity \in Capacities
  /\ active = TRUE
  /\ cleaned = FALSE
  /\ buffer = <<>>
  /\ writerList = <<>>
  /\ readerList = <<>>
  /\ resuming = {}
  /\ pc = [c \in Coros |-> "idle"]
  /\ wrote = [w \in Writers |-> 0]
  /\ result = [r \in Readers |-> None]
  /\ cwe = "off"
  /\ handed = <<>>
  /\ received = {}
  /\ acked = {}

ResumeReader(r, v) == [to |-> r, value |-> v]
ResumeWriter(w) == [to |-> w, value |-> None]

-----------------------------------------------------------------------------
(***************************************************************************)
(* co_await write(v).  write() and try_push_writer both check that the     *)
(* channel is open; a check that fails in between fails the second time.   *)
(***************************************************************************)
BeginWrite(w) ==
  /\ pc[w] = "idle"
  /\ wrote[w] < MaxWrites[w]
  /\ wrote' = [wrote EXCEPT ![w] = @ + 1]

\* The channel is closed: ChannelClosedException at the co_await.
WriteThrows(w) ==
  /\ BeginWrite(w)
  /\ ~active
  /\ UNCHANGED <<capacity, active, cleaned, buffer, writerList, readerList, resuming,
                 pc, result, cwe, handed, received, acked>>

\* A reader is waiting: the value goes straight to it.
WriteToReader(w) ==
  /\ BeginWrite(w)
  /\ active
  /\ readerList # <<>>
  /\ readerList' = Tail(readerList)
  /\ handed' = Append(handed, Value(w)')
  /\ resuming' = resuming \cup
       {<<ResumeReader(Head(readerList), Value(w)'), ResumeWriter(w)>>}
  /\ pc' = [pc EXCEPT ![w] = "suspended"]
  /\ UNCHANGED <<capacity, active, cleaned, buffer, writerList, result, cwe, received, acked>>

WriteToBuffer(w) ==
  /\ BeginWrite(w)
  /\ active
  /\ readerList = <<>>
  /\ Len(buffer) < capacity
  /\ buffer' = Append(buffer, Value(w)')
  /\ resuming' = resuming \cup {<<ResumeWriter(w)>>}
  /\ pc' = [pc EXCEPT ![w] = "suspended"]
  /\ UNCHANGED <<capacity, active, cleaned, writerList, readerList, result, cwe, handed, received, acked>>

\* Mutant: waiting writers are queued as a stack.
WriteWaitsLifo(w) ==
  /\ BeginWrite(w)
  /\ active
  /\ readerList = <<>>
  /\ Len(buffer) >= capacity
  /\ writerList' = <<w>> \o writerList
  /\ pc' = [pc EXCEPT ![w] = "suspended"]
  /\ UNCHANGED <<capacity, active, cleaned, buffer, readerList, resuming, result, cwe, handed, received, acked>>

WriteWaits(w) ==
  /\ BeginWrite(w)
  /\ active
  /\ readerList = <<>>
  /\ Len(buffer) >= capacity
  /\ writerList' = Append(writerList, w)
  /\ pc' = [pc EXCEPT ![w] = "suspended"]
  /\ UNCHANGED <<capacity, active, cleaned, buffer, readerList, resuming, result, cwe, handed, received, acked>>

(***************************************************************************)
(* co_await read().  A read of a closed channel throws and changes nothing.*)
(***************************************************************************)
BeginRead(r) ==
  /\ pc[r] = "idle"
  /\ active
  /\ pc' = [pc EXCEPT ![r] = "suspended"]
  /\ result' = [result EXCEPT ![r] = None]

\* The oldest buffered value; the oldest waiting writer takes its place.
ReadBuffer(r) ==
  /\ BeginRead(r)
  /\ buffer # <<>>
  /\ handed' = Append(handed, Head(buffer))
  /\ IF writerList # <<>>
     THEN /\ buffer' = Append(Tail(buffer), Value(Head(writerList)))
          /\ writerList' = Tail(writerList)
          /\ resuming' = resuming \cup
               {<<ResumeWriter(Head(writerList)), ResumeReader(r, Head(buffer))>>}
     ELSE /\ buffer' = Tail(buffer)
          /\ resuming' = resuming \cup {<<ResumeReader(r, Head(buffer))>>}
          /\ UNCHANGED writerList
  /\ UNCHANGED <<capacity, active, cleaned, readerList, wrote, cwe, received, acked>>

\* Mutant: the reader has its value but the writer is not resumed.
ReadWriterForgets(r) ==
  /\ BeginRead(r)
  /\ buffer = <<>>
  /\ writerList # <<>>
  /\ LET w == Head(writerList)
     IN  /\ handed' = Append(handed, Value(w))
         /\ resuming' = resuming \cup {<<ResumeReader(r, Value(w))>>}
  /\ writerList' = Tail(writerList)
  /\ UNCHANGED <<capacity, active, cleaned, buffer, readerList, wrote, cwe, received, acked>>

\* Nothing is buffered: straight from the oldest waiting writer.
ReadWriter(r) ==
  /\ BeginRead(r)
  /\ buffer = <<>>
  /\ writerList # <<>>
  /\ LET w == Head(writerList)
     IN  /\ handed' = Append(handed, Value(w))
         /\ resuming' = resuming \cup {<<ResumeReader(r, Value(w)), ResumeWriter(w)>>}
  /\ writerList' = Tail(writerList)
  /\ UNCHANGED <<capacity, active, cleaned, buffer, readerList, wrote, cwe, received, acked>>

ReadWaits(r) ==
  /\ BeginRead(r)
  /\ buffer = <<>>
  /\ writerList = <<>>
  /\ readerList' = Append(readerList, r)
  /\ UNCHANGED <<capacity, active, cleaned, buffer, writerList, resuming, wrote, cwe, handed, received, acked>>

\* Mutant: the coroutine is scheduled without its result.
ResumeWithoutResult(s) ==
  /\ resuming' = (resuming \ {s}) \cup (IF Len(s) = 1 THEN {} ELSE {Tail(s)})
  /\ pc' = [pc EXCEPT ![Head(s).to] = "scheduled"]
  /\ UNCHANGED <<capacity, active, cleaned, buffer, writerList, readerList, wrote, result, cwe, handed, received, acked>>

(***************************************************************************)
(* AwaiterBase::resume: the result is stored, the coroutine scheduled.     *)
(***************************************************************************)
Resume(s) ==
  /\ resuming' = (resuming \ {s}) \cup (IF Len(s) = 1 THEN {} ELSE {Tail(s)})
  /\ pc' = [pc EXCEPT ![Head(s).to] = "scheduled"]
  /\ result' = IF Head(s).to \in Readers
               THEN [result EXCEPT ![Head(s).to] = Head(s).value]
               ELSE result
  /\ UNCHANGED <<capacity, active, cleaned, buffer, writerList, readerList, wrote, cwe, handed, received, acked>>

\* A worker resumes the writer.  before_resume throws if the channel has been
\* closed by now, whatever has become of the value.
FinishWrite(w) ==
  /\ pc[w] = "scheduled"
  /\ pc' = [pc EXCEPT ![w] = "idle"]
  /\ acked' = IF active THEN acked \cup {Value(w)} ELSE acked
  /\ UNCHANGED <<capacity, active, cleaned, buffer, writerList, readerList, resuming,
                 wrote, result, cwe, handed, received>>

\* A worker resumes the reader: it returns its value, or throws if the channel
\* has been closed by now.
FinishRead(r) ==
  /\ pc[r] = "scheduled"
  /\ pc' = [pc EXCEPT ![r] = "idle"]
  /\ result' = [result EXCEPT ![r] = None]
  /\ received' = IF active THEN received \cup {result[r]} ELSE received
  /\ UNCHANGED <<capacity, active, cleaned, buffer, writerList, readerList, resuming,
                 wrote, cwe, handed, acked>>

(***************************************************************************)
(* A queued awaiter is destroyed with its coroutine and removes itself.    *)
(***************************************************************************)
AbandonWrite(w) ==
  /\ Contains(writerList, w)
  /\ writerList' = RemoveFirst(writerList, w)
  /\ pc' = [pc EXCEPT ![w] = "idle"]
  /\ UNCHANGED <<capacity, active, cleaned, buffer, readerList, resuming, wrote, result, cwe, handed, received, acked>>

AbandonRead(r) ==
  /\ Contains(readerList, r)
  /\ readerList' = RemoveFirst(readerList, r)
  /\ pc' = [pc EXCEPT ![r] = "idle"]
  /\ UNCHANGED <<capacity, active, cleaned, buffer, writerList, resuming, wrote, result, cwe, handed, received, acked>>

-----------------------------------------------------------------------------
\* close(), from any thread and from ~Channel; only the first one goes on.
Close ==
  /\ active
  /\ active' = FALSE
  /\ UNCHANGED <<capacity, cleaned, buffer, writerList, readerList, resuming, pc, wrote,
                 result, cwe, handed, received, acked>>

\* Mutant: clean_up drops the waiting readers without resuming them.
CleanUpDropsReaders ==
  /\ ~active
  /\ ~cleaned
  /\ cleaned' = TRUE
  /\ pc' = [c \in Coros |-> IF Contains(writerList, c) THEN "scheduled" ELSE pc[c]]
  /\ writerList' = <<>>
  /\ readerList' = <<>>
  /\ buffer' = <<>>
  /\ UNCHANGED <<capacity, active, resuming, wrote, result, cwe, handed, received, acked>>

\* clean_up, under channel_lock: everybody is resumed and the buffer emptied.
CleanUp ==
  /\ ~active
  /\ ~cleaned
  /\ cleaned' = TRUE
  /\ pc' = [c \in Coros |-> IF Contains(writerList, c) \/ Contains(readerList, c)
                            THEN "scheduled" ELSE pc[c]]
  /\ writerList' = <<>>
  /\ readerList' = <<>>
  /\ buffer' = <<>>
  /\ UNCHANGED <<capacity, active, resuming, wrote, result, cwe, handed, received, acked>>

(***************************************************************************)
(* close_when_empty: it polls the buffer, sleeping in between.             *)
(***************************************************************************)
CweGoto(from, to) ==
  /\ cwe = from
  /\ cwe' = to
  /\ UNCHANGED <<capacity, cleaned, buffer, writerList, readerList, resuming, pc, wrote,
                 result, handed, received, acked>>

CweCall == CweGoto("off", "polling") /\ UNCHANGED active

\* The buffer is found empty, under the lock; the lock is then released.
CweFindsEmpty == buffer = <<>> /\ CweGoto("polling", "empty") /\ UNCHANGED active

\* The deadline has passed: seen by the loop or by the test after it.
CweGivesUp ==
  /\ CweTimeout
  /\ CweGoto("polling", "done") \/ CweGoto("empty", "done")
  /\ UNCHANGED active

\* close(); clean_up is the next step of the same thread if this closed it.
CweClose == CweGoto("empty", "done") /\ active' = FALSE

Next ==
  \/ \E w \in Writers :
       \/ WriteThrows(w) \/ WriteToReader(w) \/ WriteToBuffer(w) \/ WriteWaits(w)
       \/ FinishWrite(w) \/ AbandonWrite(w)
  \/ \E r \in Readers :
       \/ ReadBuffer(r) \/ ReadWriter(r) \/ ReadWaits(r)
       \/ FinishRead(r) \/ AbandonRead(r)
  \/ \E s \in resuming : Resume(s)
  \/ Close \/ CleanUp
  \/ CweCall \/ CweFindsEmpty \/ CweGivesUp \/ CweClose

Spec == Init /\ [][Next]_vars

\* A thread that is in a push or in clean_up goes on, and the scheduler runs
\* what it is given.
Fairness ==
  /\ \A c \in Coros : WF_vars(\E s \in resuming : Head(s).to = c /\ Resume(s))
  /\ WF_vars(CleanUp)
  /\ \A w \in Writers : WF_vars(FinishWrite(w))
  /\ \A r \in Readers : WF_vars(FinishRead(r))

FairSpec == Spec /\ Fairness

-----------------------------------------------------------------------------
BeingResumed(c) == \E s \in resuming : \E i \in DOMAIN s : s[i].to = c

TypeOK ==
  /\ capacity \in Capacities
  /\ active \in BOOLEAN
  /\ cleaned \in BOOLEAN
  /\ buffer \in Seq(Values)
  /\ writerList \in Seq(Writers)
  /\ readerList \in Seq(Readers)
  /\ pc \in [Coros -> {"idle", "suspended", "scheduled"}]
  /\ wrote \in [Writers -> Nat] /\ \A w \in Writers : wrote[w] <= MaxWrites[w]
  /\ result \in [Readers -> Values \cup {None}]
  /\ cwe \in {"off", "polling", "empty", "done"}
  /\ handed \in Seq(Values)
  /\ received \in SUBSET Values
  /\ acked \in SUBSET Values

\* No wait is in vain: a reader waits only while there is nothing to read and
\* nobody waits to write; a writer waits only while the buffer is full.
WaitsJustified ==
  /\ readerList # <<>> => buffer = <<>> /\ writerList = <<>>
  /\ writerList # <<>> => Len(buffer) = capacity
  /\ Len(buffer) <= capacity

\* A suspended coroutine is on its list once, or is about to be resumed once
\* by the one thread that took it off: none is lost, none resumed twice.
WaitersAccounted ==
  /\ IsInjective(writerList) /\ IsInjective(readerList)
  /\ \A c \in Coros :
       pc[c] = "suspended" <=> \/ Contains(writerList, c)
                               \/ Contains(readerList, c)
                               \/ BeingResumed(c)
  /\ \A c \in Coros :
       BeingResumed(c) => ~Contains(writerList, c) /\ ~Contains(readerList, c)
  /\ \A s, t \in resuming : \A i \in DOMAIN s, j \in DOMAIN t :
       s[i].to = t[j].to => s = t /\ i = j

\* Types; what the lists and the buffer say of each other; and that close(),
\* reads, writes and destroyed awaiters race without losing a waiter or
\* resuming one twice (channel.hpp:32-103, 185-203).
ChannelInv == TypeOK /\ WaitsJustified /\ WaitersAccounted

\* What the channel still has to hand out, in order.
Accepted == buffer \o [i \in DOMAIN writerList |-> Value(writerList[i])]

\* The values on their way: in a Result, or about to be stored in one.
InFlight(r) ==
  ({result[r]} \cup UNION {{s[i].value : i \in {j \in DOMAIN s : s[j].to = r}} : s \in resuming})
    \ {None}

\* While the channel is open, a value handed to a reader is returned by its
\* read or is still on its way to exactly one reader; and a reader that a
\* worker is about to resume has a result to return.  What a write that has
\* returned wrote is in the buffer or has a reader.
HandedArrives ==
  active =>
    /\ ToSet(handed) = received \cup UNION {InFlight(r) : r \in Readers}
    /\ \A r, q \in Readers : r # q => InFlight(r) \cap InFlight(q) = {}
    /\ \A r \in Readers : InFlight(r) \cap received = {}
    /\ \A r \in Readers : pc[r] = "scheduled" => result[r] # None
    /\ acked \subseteq ToSet(handed) \cup ToSet(buffer)

\* Values are handed out in the order in which they were accepted.
Fifo == INSTANCE FifoChannel WITH open <- active, queue <- Accepted

ImplementsFifoChannel == Fifo!Spec

\* After close() nobody stays suspended, in a list or in a hand-over.
CloseReleasesAll ==
  \A c \in Coros : ~active /\ pc[c] = "suspended" ~> pc[c] # "suspended"
=============================================================================
