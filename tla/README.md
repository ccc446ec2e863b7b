# koroutine_lib in TLA+

koroutine_lib is a C++20 coroutine library: tasks and their awaiters, a
scheduler on a thread pool, synchronisation objects that coroutines share, and
asynchronous IO. This directory holds TLA+ models of it, the TLC configurations
that check them on small instances, and TLAPS proofs of the properties that
hold for instances of any size. Paths below are relative to the repository;
`include/` stands for `include/koroutine/`.

## The system

| part | state | operations | hard parts |
|---|---|---|---|
| `include/sync/async_mutex.h` AsyncMutex | `_locked`, list of waiting awaiters, under `internal_mutex` | lock, try_lock, unlock, `~LockAwaiter` | the hand-over happens after the list is unlocked; waiters may be destroyed |
| `include/sync/async_condition_variable.h` AsyncConditionVariable | list of waiting awaiters | wait, notify_one, notify_all, `~WaitAwaiter` | wait() unlocks before it enqueues; a notification takes the mutex for the waiter |
| `include/channel.hpp` Channel, `include/awaiters/channel_awaiter.hpp` | buffer, reader and writer lists, `_is_active` | read, write, close, close_when_empty | values change hands inside the lock, coroutines are resumed outside |
| `include/executors/thread_pool_executor.h` ThreadPoolExecutor | queue, heap of delayed tasks, `stop_`; two mutexes, two condition variables | execute, execute_delayed, shutdown, the worker and timer loops | `stop_` is an atomic set without a lock; sleepers must not miss what is added |
| `include/task.hpp`, `include/task_promise.hpp`, `include/awaiters/task_awaiter.hpp`, `include/result.hpp` Task | coroutine frame, result, `continuation_`, `detached_`, started flag | start, detach, co_await, return, destroy | a task ends on one thread while another registers as its awaiter; it is destroyed by whom it resumes |
| `include/cancellation.hpp` CancellationToken | flag, callbacks | cancel, on_cancel, reset | the callback resumes a coroutine that the task's end resumes too |
| `include/when_all.hpp` when_all | counter, results, exceptions, continuation | wrappers, awaiter | the last wrapper races with await_suspend |
| `include/when_any.hpp` when_any, `include/details/fire_and_forget.hpp` | `completed`, the winner's outcome, continuation | wrappers, awaiter | the winner is elected before its outcome is stored |
| `include/runtime.hpp` Runtime | mutex, condition variable, counter on the caller's stack | block_on, join_all, spawn | a thread blocks for coroutines that run elsewhere |
| `src/task_manager.cpp` TaskManager | groups of tasks and their tokens | submit, join, cancel, shutdown, list | it polls in two critical sections and erases what has ended |
| `include/executors/` looper, async, new-thread, no-op; `include/schedulers/timer_scheduler.hpp` | queues, a thread | execute, execute_delayed, schedule, shutdown, join | waits without or with too weak a predicate |
| `src/async_io/`: io_uring, kqueue and IOCP engines; files and sockets | pending and in-flight operations, an eventfd, a completion port | submit, run, stop; read, write, accept, connect, close | wake-ups, full queues, stop before run, a close next to a read |
| `include/async_io/httplib.h`: bodies, ranges, forms | a stream, a reader, a parser | write, read, parse | anything may be cut anywhere; reader and writer must agree where a message ends |
| `include/async_io/httplib.h`: Server | sockets, `is_running_`, one task for each connection | listen_async, stop, the exchange | keep-alive after errors; stop() next to accepting and reading |
| `include/async_io/httplib.h`: ClientImpl | one socket, who uses it, requests in flight | send, redirects, open_stream, stop | callers that share a socket; a mutex held across a co_await |
| `include/schedulers/SimpleScheduler.h`, `include/scheduler_manager.h`, `include/awaiters/` | the default scheduler; none in the awaiters | schedule, dispatch, sleep, switch | the default scheduler runs on a pool of threads, although `docs/source/contributing/01-architecture.md` draws a looper |

How they meet: a coroutine suspends in an awaiter; whoever completes the awaiter
(an unlock, a notification, a write, the end of a task, a worker of the engine)
stores a result and gives the coroutine to a scheduler; SimpleScheduler gives it
to the thread pool, one of whose workers resumes it. Coroutines have no thread
of their own, so two steps of one coroutine may run on two threads, and the code
that schedules a coroutine goes on at the same time as the coroutine does.
httplib.h is written on top of all this: the server's connections are tasks of a
TaskManager, its reads and writes operations of the engine.

What makes each part correct, in one line: the mutex has one owner, serves in
order and forgets nobody; a notification reaches one waiter and the mutex is
never wedged; a channel neither loses, repeats nor reorders values while it is
open, and releases everybody when it closes; executors run what they accept,
once and not early, and sleep through nothing; a task is resumed once per
suspension and destroyed only when it is over; a combinator returns once, after
what it waits for; a join returns when its tasks are over; an operation completes
once and in the end; a body is read as it was written and leaves the connection
at the next message; an answer belongs to its request; who sends, listens, joins
or stops comes back.

## Modules and the code

In every model a critical section of a `std::mutex` is one step unless
something that does not take that mutex can be seen from inside it, and what a
coroutine or a thread does between two of them is a step of its own. Each action
carries its guard from the code's conditions; PROJECT.json maps every definition
to its lines. A definition marked `Mutant` is not part of a specification: it is
a plausible bug in the definition below it, and the run named in PROJECT.json
finds the property violated when it is put in its place.

**`AsyncMutex`** (`async_mutex.h`). `locked` and `waiters` are the fields, `pc`
tells where each coroutine is, `handoff[c]` is the local `next` of an unlock()
between `internal_mutex` and `next->resume()`. LockFree and LockBusy are the two
outcomes of `after_suspend`; UnlockPop and UnlockResume are the two halves of
unlock(); Abandon is `~LockAwaiter` of a queued awaiter. **`FifoLock`** is what
the mutex promises, a lock with a queue and no inside; the refinement reads the
owner during a hand-over as the waiter that gets it.

**`AsyncConditionVariable`** extends AsyncMutex: wait() is unlock(), then
enqueue; a notification takes waiters off the list, sets `_locked` for each
(`acquire_for_notify`) and resumes it.

**`Channel`**. try_push_reader and try_push_writer are split by the branch they
take (ReadBuffer, ReadWriter, ReadWaits; WriteToReader, WriteToBuffer,
WriteWaits); `resuming` holds, for every push that has left `channel_lock`, the
awaiters it has still to resume, in order. close() clears the flag, CleanUp runs
under the lock later. `capacity` is fixed when the channel is built.
**`FifoChannel`** is the order it promises; what a closed channel still holds may
be read there, as the guide says, or be discarded, as the code does.

**`ThreadPoolExecutor`**. Workers, the timer thread and the callers are
processes with a `pc`; a thread that has found the predicate of a wait false
keeps the lock (`"checked"`) until it blocks, because shutdown() sets `stop_`
without a lock. Notifying is a step after unlocking, as in the code; waits may
wake spuriously; the clock is a bounded counter. `accepted`, `dropped` and `runs`
are history: with the queues and the hands of the threads they say where each
task is.

**`Task`**. `pc` follows a coroutine from its creation to its destruction,
`queued` counts the resumptions the scheduler holds for it. AwaitReady and
AwaitSuspend are the two steps of a co_await; FinalSuspend copies `detached_`
and `continuation_`, FinalResume schedules the continuation: between the two
the task is done for anyone who asks, and still runs. Cancel, CancelResult and
CancelResume are the token's callback. The constants say which task awaits which
(`Child`), and which are started early, spawned or cancellable.

**`Combinators`** is what when_all and when_any have in common: wrappers that
await a task each, and the awaiter of the coroutine that called, with its three
steps await_ready, the store of `continuation` and a second look at what the
wrappers change. `continuation` is a plain pointer read and written by two
threads with no ordering between them. That is a data race; the model lets the
store arrive after the second look (`ordered = FALSE`), which is what a store
buffer does, or not (`TRUE`). `oneWorker` is a scheduler with a single thread.

**`WhenAll`** extends it: both forms of when_all, which differ in `KeepsLock`. The
wrapper's steps are the store under the lock, the countdown and the scheduling.
**`WhenAny`** extends it too. Elect is the compare-and-swap, Publish the
store under the lock and the scheduling; AwaitResume returns what is stored by
then, which may be nothing.

**`Runtime`**: `waiter` is the thread in a wait with
a predicate (tested, about to block, waiting), `wrapper` the coroutine that
counts down: under the mutex in block_on (the final awaiter), without it in
join_all when the coroutine returned. **`TaskManager`** extends it: the
coroutines that the threads wait for are its operations, each a loop of Scan and
Cleanup with other operations, submissions and ends of tasks in between; `due`
remembers what a join has to have waited for.

**`Executors`**: `kind` selects one of five. The timer's schedule() tests
`is_active` and pushes in two steps, Accept and Push, although both are under
`queue_lock`: shutdown() clears the flag and the loop's condition reads flag and
queue without it, so the thread may exit in between (`TooLate`). Notifying is a
step of its own after the queue is unlocked, and the constant choice `prompt`
says whether it comes before anything else does. Delayed tasks that fall due
together move in any order among equals (InOrder), as a `std::priority_queue`
may give them out. **`DelayedExecutor`** is what any executor promises: it has
no threads and no locks, only tasks, the time each may begin, and whether it is
open. Each step of Executors (while notifications are prompt) and of
ThreadPoolExecutor (always) is one of its steps or a stutter.

**`AsyncIO`** is the submission and completion of operations on objects,
**`IoUring`**, **`Kqueue`** and **`Iocp`** the three engines, each with its
thread, its queues and its own way to be woken and stopped, and **`IOEngines`**
the choice between them, with the properties of the interface and, for each
platform, the places in which an operation may be: on linux the pending queue, the
submission queue, the kernel and the completion queue; on macos the pending queue
and `active_ops_`, or none when another operation on its descriptor has replaced it
(`Evicted`); on windows the hands of the thread that submits it, and then
`in_flight_ops_`, where it is about to be started, with the kernel, in the port's
queue, or a CLOSE for which no packet was posted (`Unposted`). The kernel is
external: it finishes in any order what it was given.

**`HttpContent`** is a body in its three framings between a provider and a
reader, in units; **`HttpRanges`** which ranges are accepted, normalised, merged
and written as parts; **`HttpForms`** the serialised form and FormDataParser;
**`HttpMessages`** composes them, as plain content, a ranged response or a form;
**`AnySequences`** says what a sequence of whatever elements is.
**`HttpConnections`** is what both sides see of connections; **`HttpServer`** and
**`HttpClient`** are the code, one action for each stretch between two co_awaits;
**`Http`** composes them. There bodies are one element: how they are framed is in
HttpContent, and what a reader leaves behind is "unread". `setup` holds the
client's options and which faults a run may have.

**`SequenceLemmas`** (facts about sequences that several of the proofs use) and the
`*_proofs` modules hold the proofs, `Http_proofs` those of the connections and then
those of the messages; where
a constant is a function or a record, an `MC*` module gives it its value.

## Runs

| run | instance | states | what it shows |
|---|---|---|---|
| `mutex` | 5 coroutines | 971 | one owner, `_locked` exact, no waiter lost; refines FifoLock; every waiter is served |
| `condvar` | 4 coroutines, free choice of calls | 7 964 | every waiter on one list once; the mutex is never left locked with nobody to unlock it |
| `channel` | 2 writers (2 values and 1), 2 readers, capacity 0 and 1 | 146 556 | waits are justified, values are neither lost, repeated nor overtaken while open; close() releases everybody |
| `pool` | 2 workers, timer, 2 callers, 1 task and 2 delayed ones, clock to 2 | 270 442 | every task in one place, once; no lost wakeup; the timer wakes in time; refines DelayedExecutor; accepted tasks run; shutdown() returns |
| `task` | a chain of 3 tasks, the first cancellable, and a spawned one | 63 531 | one resumption per suspension, frames are destroyed only when over; awaits return, tasks end |
| `when_all` | 3 tasks that return or throw, both forms, one thread or several, ordered stores or not | 16 606 | returns only after all, and always if stores are ordered |
| `when_any` | 3 tasks, three forms, one thread or several, ordered stores or not | 26 499 | one winner; on one thread one return, with its outcome; always returns if stores are ordered |
| `runtime` | 2 threads, 3 coroutines, 2 tasks in 2 groups | 507 082 | blocked calls, joins, cancel and shutdown keep what they promise; block_on returns |
| `executors` | each of 5 executors, 3 tasks, delays of 0 to 2, clock to 3 | 694 878 | the queues hold what was accepted, once; refines DelayedExecutor; accepted tasks run, but for a timer's task that comes too late |
| `io` | each of 3 engines, 2 or 3 operations on a socket and a file, queue of 2 | 918 051 | an operation is in one place (on macos unless evicted), completed once (on windows as long as the engine runs), and in the end; stop() ends the loop |
| `http_messages` | bodies of up to 3 units, ranges of 3 bytes (up to 5 of them), forms of up to 3 items | 172 180 | what ends well is complete and no more was read; ranges and forms are what was asked for; readers end |
| `http` | four scenarios (below), 2 connections, 2 requests, 1 redirect | 257 941 | in-flight counts are exact; answers belong to their requests; send and listen_async return |

Why the bounds are enough. Mutex: an owner, an unlock() between two owners, two
waiters and a newcomer need five coroutines, and the invariants are proved for
any number. Channel: three values and two writers are the smallest instance in
which a value can overtake one that waits (the mutant WriteWaitsLifo does), two
readers the smallest in which one can take the other's. Pool: two workers so
that one can leave while the other works, two callers so that shutdown() races
execute(), two delays so that the one added later is due sooner. Task: a chain
of three has a task that is awaited and awaits. when_all and when_any: three
tasks have a first, a middle and a last wrapper. TaskManager: two groups, so that
a join can forget one, and two operations at once, so that one cleans up between
the other's scan and cleanup. Executors: three tasks put one before, at and after
the head of the queue; the clock goes one tick past the longest delay. IO: two
operations on one descriptor and one on another; a submission queue of two is
full with the eventfd's read and one operation. HTTP bodies: three units can be
cut twice; two ranges are disjoint, adjacent or overlapping in every order, and
three and more are there for the limits. The limits themselves (MaxRangeCount,
MaxFiles) are small so that they are exceeded.

The four scenarios of `http` (MCSetups): two callers, one of which opens a stream,
on a keep-alive client with one thread; one caller with redirects, and stop() of
the server; a client without keep-alive that streams, and stop() of the server;
a client with Expect: 100-continue, its own stop(), and binds, accepts, connects
and providers that fail. The one with `closeWakes = FALSE` is Linux, where closing
a descriptor does not end what is pending on it.

Deadlock checking is off (`CHECK_DEADLOCK FALSE`) where the instance comes to its
end; it is on for the mutex and the condition variable, whose coroutines go on
for ever.

Fairness is weak fairness of the steps the code takes by itself. A thread that
is inside a call goes on; the scheduler resumes what it is given (the pool's own
liveness, `AcceptedRuns`, is the reason it does); a sleep ends; the clock ticks;
an engine's thread runs and the kernel finishes what it can; a handler and a
content provider return. Nobody is made to call lock(), write(), cancel(), send()
or stop(), and no fault has to happen. Two assumptions are about users: an owner
of the mutex unlocks it at some time, and the body of a task comes to its end.
`AllFairSpec` and `AnyFairSpec` also assume that a store becomes visible in
the end.

## Where the code falls short of what is said of it

The models have the following behaviours, each met while translating the code.
A property names them as exceptions or is claimed for the rest, and the hazard
at the line in PROJECT.json says so.

- `async_condition_variable.h:28`: a notification between wait()'s unlock() and
  its enqueueing is lost (`tests/unit/test_sync.cpp:108-110` expects both
  coroutines to end); notify makes a second owner of the mutex (:76).
- `channel.hpp:200`: close() throws buffered values away, which
  `docs/source/guides/05-channels.md:102` lets consumers read;
  close_when_empty() (:145) can close a channel that is no longer empty.
- `thread_pool_executor.h:100`: a delayed task that is pending at shutdown is
  waited for and then refused (comment at :99); a second shutdown() returns
  before the pool has stopped.
- `task_awaiter.hpp:46`: a task that was started before it is awaited can end
  unseen (:44-45); `task_promise.hpp:189`: cancelling an
  awaited task resumes its awaiter twice (:266 means not to);
  `runtime.hpp:281`: spawn() leaks the frame of a task that ends before detach().
- `when_all.hpp:180`: on several threads the coroutine may be scheduled twice
  (:179), and where stores are late not at all; `when_any.hpp:67`: the awaiter can
  find the winner elected and nothing stored (:20).
- `runtime.hpp:188`: join_all's notification, made without the mutex, can come
  between the thread's test and its wait (:166).
- `timer_scheduler.hpp:37`: the loop can pop from a queue that has become empty or
  block after the notification of shutdown(); a task that schedule() accepts (:66)
  while shutdown() clears the flag (:78) may be pushed when the thread has exited
  (:27), and stays in the queue for ever; `looper_executor.h:62` spins.
- `io_uring_engin.cpp`: a full submission queue leaves the loop deaf (:118), run()
  overwrites an earlier stop() (:63), a close does not end a pending read;
  `kqueue_engin.cpp:249`: a second operation on a descriptor replaces the first;
  `iocp_engin.cpp:346`: stop() can complete an operation that submit() completes.
- `httplib.h`: socket_mutex_ is held across a co_await (:10128); callers of one
  client are not kept apart (:10114); a good answer to a request whose body was
  not read leaves it on the connection (:9425); a 417 is followed by a second
  answer (:9588); a connection that is accepted while stop() runs is not closed
  (:9152); no timeout is kept (:4144); a provider under a status 200 set by the
  handler announces another length than it writes when ranges are asked for
  (:8737); an epilogue after the last boundary may be refused (:6513); a chunked
  body that is too large is not skipped (:5628).

## What is proved

All theorems hold for every value of the constants under the named assumptions
in the modules (`NoneAssumption` of AsyncMutex and of Channel,
`ChannelAssumption`, `PoolAssumption`, `TaskAssumption`, `CombinatorsAssumption`,
`WhenAnyAssumption`, `RuntimeAssumption`, `TaskManagerAssumption`,
`ExecutorsAssumption`, `AsyncIOAssumption`, `IoUringAssumption`,
`ConnectionsAssumption`, `ClientAssumption`, `RangesAssumption`, `FormsAssumption`,
`MessagesAssumption`): sets are finite where the code counts them, "nobody" and
"nothing" are none of the coroutines and values, a capacity and a delay are
natural numbers, a submission queue has one entry at least, a task has one
awaiter, an empty line is no header line, and the boundary of a form is in none of
its items. MaxTime, the bound of the clocks, is any natural number.
Each argument is an inductive invariant, stronger than the property where that
is not inductive, and has one lemma or step for each action.

**Mutex and condition variable** (`Await_proofs`, with lemmas on
`std::list::remove` and friends in `SequenceLemmas`). MutualExclusion is not
inductive: that nobody else owns a free mutex follows from how `_locked`, the
coroutines past lock() and the hand-overs in flight add up. MutexInv says it: at
most one coroutine or hand-over holds the mutex, `_locked` is true exactly then,
and every waiting coroutine is queued once or is the one in the hand-over. From
it follow MutexExcludes, LockNeverLeaks and NoWaiterLost; MutexRefinesFifoLock
maps each step to one of FifoLock or to a stutter. Under a condition variable the
mutex can have two owners, so MutexInv is lost; CvInvariant and CvNeverWedged
keep what is left of it: a waiter is on one list once, whoever sets `_locked`
will clear it or hand it over, and nobody queues for a free mutex.

**Channel** (`Channel_proofs`). ChannelInv says where waiters are and HandedArrives
where values are; neither is inductive alone, because a value changes places
together with the coroutine that carries it. IInv joins them over one set, `Due`:
the awaiters that pushes have still to resume, each with what is to be stored in
it. Accounted: nobody is due twice, nor due and in a list. WrittenOnce and
WritesEntered: a writer's next value is in no place yet, and its awaiter is
listed with it. Arrives: what was handed out is received, or carried by exactly
one reader. ChannelInvariant and ChannelArrives follow. ChannelRefinesFifoChannel
needs WaitsJustified (a writer waits only behind a full buffer, so that buffer
and list together are one queue) and four lemmas on that queue: a write appends,
a read takes the head, whether the buffer or a writer has it, and a writer who
goes away takes one value out.

**Tasks** (`Task_proofs`), for tasks that are Regular: started by their awaiter
or, if they have none, by their owner; and cancelled only where nobody awaits
them. Those are the cases in which the code keeps its promises (the others are
in the section above). TaskInv says nothing of the child of an awaiter that is
being resumed. ResumedAfterEnd adds that it has finished - it is why the awaiter
may destroy it - and with TaskInv is inductive. TaskInvariant: nobody is resumed
twice. FramesOutliveTheirCoroutines is the action property DestroyedOnlyWhenOver.

**Pool** (`ThreadPoolExecutor_proofs`). PoolNobodyOversleeps: a queued task finds
a worker awake or a notification on its way, and a timer thread that sleeps past
the time of a delayed task has one coming. That is inductive once it is known
that the predicate is tested and the thread blocked under the lock that execute()
takes (CheckedIsEmpty) and who holds which lock and task (ThreadsInv). PoolDrains:
once a worker has left, `stop` is set and `tasks` is empty and stays so - a worker
leaves only after it has seen both under the lock, and nothing is added after
`stop`. PoolInvariant: each accepted task is in one place, once - the heap, the
queue, a thread's hand, run, or dropped; given the facts above, which know whose
hands are full, it is inductive. PoolRefinesDelayedExecutor maps the pool to
DelayedExecutor: a task has begun when a worker holds it or has run it, and waits
for its time while it is in the timer's heap. The step that needs the invariants
is WorkerTakes: the task at the head of `tasks` is accepted, not dropped, in
nobody's hand and not in the heap, so it begins for the first time and in time.

**The other executors** (`Loops_proofs`), all five kinds and any delays.
ExecutorsInv is not inductive, and not even true, where a notification may be
late. Where it is prompt, every accepted task is in a queue, once, or about to
be pushed, and it needs three facts of LoopInv. PushingOK: one task at most is
about to be pushed, the timer's, which is not overdue and has no notification in
front of it; for DelayedExecutor it is accepted already, and Push is a stutter.
WaitsForTop: a timer thread in wait_for waits for the head of the heap, unless a
sooner task is about to be notified or shutdown has cleared the heap - so what
it pops afterwards, without looking, is what it meant to run. MovedAreDue: what
the looper has moved to `tasks_` may run. ExecutorsInvariant and
ExecutorsRefineDelayedExecutor follow.

**IO engines** (`Loops_proofs`), each with its own invariant on top of what
holds of all (EnginesInv: an operation that is anywhere has been built, and the
queues have nothing twice). UringInv: an operation in flight, or the read of the
eventfd, is in one of the kernel's three places and not yet completed, so a
completion finds it in `in_flight_ops_`; the submission queue never has more
than Depth entries, because process_op takes no more of the pending operations
than fit and the eventfd is read again only if there is room (AcceptedFit, by
FS_Surjection). KqueueInv: what is active has its descriptor to itself, with an
event registered or reported, and is not completed; and operations leave the
pending queue in the order in which they came (Ascending), so that the one that
finds `active_ops_` taken is the later one, which is how Evicted knows the
other. IocpInv: the kernel has only operations whose submitter has started them,
until stop() those are in `in_flight_ops_` and not completed, and so is what its
submitter has entered and not yet started. EnginesInvariant is IOInv, for any
number of operations and objects and any depth: what is submitted and not
completed is in exactly one of its platform's places, but for an evicted
operation on macos, which is in none, and is completed once, on windows as long
as the engine runs.

**when_all** (`Await_proofs`). WhenAllInv: the counter is the number of
wrappers that have not counted down (a fact about finite sets, by
FS_RemoveElement), a wrapper that has counted down has noted its outcome in one
place, and nobody schedules the caller before the counter is 0. Hence
WhenAllWaitsForAll, whatever the order of threads and stores. WhenAllSerial
needs more, AllSerial: on one thread at most one wrapper is between two
suspensions, and none while when_all itself runs, so that race
cannot occur.

**when_any** (`Await_proofs`). One winner follows from the flag and the
wrappers; that the coroutine is scheduled at most twice needs TwoSchedule: once by
a winner that has stored, once by an await_suspend that is over. WhenAnySerial
adds AnySerial: on one thread no wrapper leaves its co_await before the caller is
suspended, so neither await_ready nor await_suspend finds a winner, the store of
`continuation` is seen, and one return follows one store.

**Runtime and task manager** (`TaskManager_proofs`). RuntimeInv is about the
blocked calls: the counter of each is the number of its wrappers that have not
counted down (finite sets again), a thread that has found its predicate false
has a notification coming, where it is made under the mutex, and a call that has
returned has none of its coroutines left. JoinWaits is not inductive by itself:
a join that cleans up must not forget a task it has not waited for
(`Running \subseteq groups_`), what is due to an operation belongs to its group,
so that a scan that finds nothing active has seen all of it (DueInGroup), and
nothing is submitted once a shutdown is under way (ShutdownRefuses). Together
they give TaskManagerInvariant and OperationsWait.

**HTTP connections** (`Http_proofs`), for any number of callers, connections,
requests, redirects and failures. Neither HttpInv nor Matched is inductive: that
an answer belongs to its request depends on what is under way in both directions
and on where the connection's task is. IInv has two parts. ControlInv holds of all
connections: a connection that is not made yet has nothing on it and belongs to
nobody, a caller has what its place in send_() implies (CallerInv), socket_mutex_
is held by at most one caller, who connects, and `socket_requests_in_flight_` is
the number of callers in flight (finite sets again). WireInv holds of a
connection while it is Clear - no two exchanges overlapped on it, no good answer
left a body unread and no 417 was written, which is what Matched excepts: one
caller uses it (Sole); what the server has answered is in step with what was sent
(AnsweredInStep), and up to the first error the next request is on its way or in
the task's hands (NextInStep); what is between a caller and the task is one
exchange, its request on the one side or its answer on the other (ExchangeInv),
so that an answer that is not to be the last on the connection leaves nothing
behind; and an unused socket_ has nothing left on it (Quiet), which is why the
next caller may reuse it. A step at either end touches one connection: StepWire
proves once what every step keeps of the others, and MoveInv, EndsInv and a lemma
for each step what it keeps of its own. HttpInvariant and AnswersMatch follow.

**HTTP messages** (`Http_proofs`), for contents, pieces, ranges and items of any
number and length. MessagesInv is inductive. PlacesInv and BodyInv say where
writer and reader may be and that what has been handed over is a beginning of the
content. That is not inductive, as it says nothing of the wire. PlainInv does,
for a body with a length or none: after r elements the wire continues the stream
of head, content and next message (WireFrom), and r is what the reader's place
says (ReaderAt). ChunkedInv does for chunks, whose sizes the reader cannot
predict: the elements on the wire lead from the reader's place to the writer's,
each a step of the decoder (Run), so whatever is written lengthens a run at its
end and whatever is read shortens it at its beginning; neither cuts a chunk.
MessagesUntruncated follows. RangedOK is about the response a server makes and
does not change: the loop that merges sorted ranges keeps the set of bytes they
cover (MergedIsOK, over the fold by a least counterexample), the parts of the
flattened content lie one behind the other (FlattenBlocks) and so have the bytes
they say, and what RangeError lets pass has something to serve. With BodyIs that
is MessagesRangesServed.

FormParsed needs to know where the parser is, and its state and its buffer do not
say that by themselves. FormInv adds the text: the form that is sent is laid out
with a place for every header line, content and boundary (FormLayout), and the
parser has consumed p tokens of it (ParsedAt): the buffer is what has been read
after them (BufferAt), and for each of the five states p is a place in an item,
whose header lines or content up to there have been handed over after all the items
before it (InItem), or it is after the last boundary (InEpilogue). A turn moves p
by what it erases (TurnParsed): buf_find finds the next boundary and no other,
because none is in a content and what could be the beginning of one stays in the
buffer (ContentText). When parse() has returned, the parser waits for something
that is not in the buffer (ParserWaits); when all has been read there is nothing
left to wait for before the last boundary (AllParsed), and a form without an
epilogue is not refused on the way (NotRejected). MessagesFormParsed follows. An
epilogue may hold what looks like an entry, which is why the property excepts those
that are not Unmistakable.

Induction over data: what FlattenSeq and the folds of the community modules
compute is proved for sequences of any length by a least counterexample
(LeastNatural, from WFMin; FlattenBlocks, MergedIsOK), as the theorems on induction
take an operator.

Only model-checked: tasks that are not Regular (TLC does not check
these either, see above); all liveness, which is beyond TLAPS with the installed
provers. MutualExclusion, LockedIffHeld, WaitersAccounted of the mutex,
NothingStranded and SerialReturnIsClean are stated by theorems only.

## What is not modelled

Generators are sequential with one owner. Endpoints, socket options, logging, the
mock, scripts, demos and benchmarks have no protocol of their own. The resolver
and the standard streams block a thread of their own and complete once.
In `httplib.h`: TLS, proxies, digest authentication, compression, hashing, base64,
parsing of paths, queries and single header lines, HTTP/1.0, mounted directories,
redirects to other hosts (only how they end), the destructor's wait, a request that
its own content receiver or provider cancels, and the 3xx answers (other than the
redirects the client follows) of a server that has not read the request's body. Text of a
form is cut between tokens only, so a boundary is never recognised in half.
In what is modelled: destroying a coroutine while another thread is about to
resume it (except the abandoned waits of the mutex, the condition variable and
the channel, which happen while they are queued), moving a Task, callbacks of
users on a token, a pool that is shut down by one of its own tasks, and what a
program does after undefined behaviour such as a second resumption or a pop from
an empty queue.

## Plan

1. *Composition*: Task on ThreadPoolExecutor, with the counter `queued` refined
   by the pool's queue; Http's reads on IOEngines.
2. Callbacks and reset() of CancellationToken.
