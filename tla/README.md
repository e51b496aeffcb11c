# A TLA+ specification of CoAwaitLib

CoAwaitLib is a header-only library of stackful coroutines: `co::await()` suspends
the coroutine it is called in, or blocks the thread when there is none. This
directory holds TLA+ modules that model all of its parts but one, TLC configurations
that check them on small instances, and TLAPS proofs of the safety properties of the
future, the mutex, the coroutines, both channels, `forEach()` and the executor for every
size of the instance.

## The system

| Part | State it keeps | Operations | Interacts with |
|---|---|---|---|
| `LightFutureData`, `future`, `promise` (`future.hpp`) | `continuationPtr` (empty, a task, or "invalid" = ready) and the variant with the outcome | `set_value`, `set_exception`, `is_ready`, `suspend`, `wait`, `wait_for`, `get` | calls the task a consumer registered; everything below waits through it |
| `Routine` and `await()` (`routine.hpp`, `await.hpp`) | per coroutine: `mOuter`, `mPostLeave`, `mContinuation`, `mResult`, `mIsDetached`, the stack; per thread: `current()`; per `await()`: a `Runner` | construction, `await`, `join`, `detach`, destruction, the coroutine's end | resumed by futures, by the end of other coroutines and by handlers of the io_context |
| `Mutex` (`mutex.hpp`) | `mCountOfWaiter`, the container `mWaiter` of futures | `lock`, `try_lock`, `unlock` | `await()` of a future per waiter |
| `BufferedChannel`, `Sender`, `Receiver` (`channel.hpp`) | the queue, two deques of waiting futures, two closed flags, the size | `push`, `pop`, `closeSender`, `closeReceiver`, `setMaxQueueSize` | futures of both sides |
| `UnbufferedChannel` (`channel.hpp`), `generate` | two futures that are emplaced anew for each value | `push`, `pop`, both closes | |
| `forEach` (`foreach.hpp`) | coroutines, first exception | one call | `Routine`, `BufferedChannel` |
| `async`, `runOutsideOfCoroutine`, `yieldTo` | a future | one call each | `Routine`, the io_context |
| `TimedMutex` (`timed_mutex.hpp`) | as `Mutex`, with a timer per waiter | as `Mutex`, `try_lock_for` | timers of the io_context |
| `Routine::SpecificPtr` | a map per coroutine | `get`, `reset`, `release` | `current()` |
| `IoContextThreads` (`executor.hpp`) | threads, a work guard | construction, `joinAll` | the io_context |
| `networking.hpp`, `pplx_task_awaiter.hpp` | none of their own | wrappers | `yieldTo`, `await` |

Hard behaviours: consumers and setters race on one atomic pointer; continuations live
on the stack of a call that may return; a coroutine that awaits another one hands its
continuation over in three atomic steps while the other may be ending; coroutines
migrate between threads with a `thread_local` that must follow them; `unlock()` meets
callers that have counted themselves but are not yet in the queue; the channel calls
`set_value()` only after it has released its lock; the two sides of the unbuffered
channel replace the futures they wait for; handlers on io threads write into the stack
of a suspended coroutine; an io_context stops when it runs out of work, with an
`IoContextThreads` coming and going. `PROJECT.json` lists these hazards
with the line where each of them bites and the properties that cover it.

What makes each part correct: a future becomes ready once, with one outcome, and wakes
its consumer; a coroutine is resumed exactly once per suspension, on one thread, after
what it awaits has happened, and its memory is released once, after its end; a mutex
has one owner, passes ownership on in order and forgets nobody; a channel delivers each
value once, in order, blocks only when it must and lets everybody go at the end;
`forEach()` processes each element once and reports an error; a handler only touches
frames that are alive; threads that are joined leave nothing half-done behind.

## Modules

| Module | Contents |
|---|---|
| `OneShot`, `LightFutureData`, `LightFutureProofs` | what a future promises; the code; proofs |
| `AbstractMutex`, `Mutex`, `MutexProofs` | what a mutex promises; the code; proofs |
| `AbstractRoutine`, `Routine`, `RoutineProofs` | what coroutines promise; the code; proofs |
| `BufferedChannel`, `BufferedChannelProofs` | the code, also of `generateForMultiConsumer()`; proofs |
| `UnbufferedChannel`, `UnbufferedChannelProofs` | the code, with `generate()` as its sender; proofs |
| `AbstractForEach`, `ForEach`, `ForEachProofs` | what `forEach()` promises; the code, composed with `BufferedChannel`; proofs, which use those about the channel |
| `Executor`, `ExecutorProofs` | `IoContextThreads`, `async()`, `runOutsideOfCoroutine()`, `yieldTo()` and the socket functions, over a model of the io_context; proofs |
| `DequeLemmas` | what `push_back`, `pop_front` and the like do to a deque, for all the proofs |
| `TimedMutex` | the code of the experimental mutex |

Every module keeps the names of the code for its state. An action is what happens
between two points where another thread can interfere: one atomic operation of the
lock-free parts, one critical section of the channel. `PROJECT.json` maps each
definition to its lines. Each module has a section "The decisions of the code": small
operators for the conditions the code branches on, preceded by wrong variants of them.
The variants are used only to confirm that each property fails when the code is wrong.

**LightFutureData.** One setter (`spc`: store the value, exchange the pointer, call the
task, notify) and one consumer (`cpc`) that makes a sequence of calls: `get`, `wait`,
`wait_for`, `is_ready`, and `await` of a `future` or of the data itself. Calls are
numbered, and the task on the stack of a call has its number, so that a stale task can
be told from the current one. Values and exceptions are both outcomes. `wait_for()` is
the only call with a timeout, which may happen at any time. Memory is sequentially
consistent: `is_ready_weak()`, a `memcmp` on the atomic, is a read like `is_ready()`.

**Mutex.** `pc[c]` names the next atomic operation of caller `c`: the compare-exchange
of the spin phase, `fetch_add`, the push under the lock of `mWaiter`, the two looks at
the future in `await(p)`, and on the other side `fetch_sub`, the pop, the exchange of
`on_ready()` and the call of the continuation. `FairPolicy` chooses between the deque
and the vector of waiters. `WeakCas` allows the spurious failures of
`compare_exchange_weak`. The woken waiter becomes runnable as the holder. How a
coroutine gets back onto a thread is `Routine`'s subject.

**Routine.** Every thread has a stack of frames of the library: the constructor of a
coroutine's `Data`, a turn of the loop of `Runner::operator()` and a call of a
`Runner` that has not decided yet. Coroutine code creates coroutines, awaits a
coroutine, a future, the io_context or a timer, sets futures, ends, and joins, drops or detaches
handles; the library's steps in between are the atomic operations of
`await_suspend()`, `resume()` and `ResultSetter`. `life[r]` is the memory of the `Data`
and its stack. Whether a coroutine ends with a value or an exception makes no
difference to control and is left out. The io_context is external: a queue of posted
Runners that idle io threads take. `pending` are the coroutines that wait for something
outside of the library which calls their Runner once: a `deadline_timer`, a duration or a
`pplx::task`. `DetachWhen` says when `detach()` may be called: never, at any time, or
at any time but the moment in which the coroutine is ending on another thread, which is
the race of `routine_detach_race`.

**BufferedChannel.** The critical section of each operation is one step, the
`set_value()` calls after it and the return from `await(self)` are steps of their own.
Senders share a `Sender`, receivers a `Receiver`; the last to let go closes its side.
Values are numbered per sender. A sender that was told false and a receiver that got no
value make no further call, like the loops in `foreach.hpp` and `generate.hpp`.

**UnbufferedChannel.** A sender and a receiver with the futures `value` and
`valueRead`, each a pointer and a variant, which `emplace()` makes new. `set_value()` is
two steps, so that the other side may look, suspend or emplace in between. Either side
may stop after any operation; `closeReceiver()` waits for the sender's next value or
end, as in the code. The sender that stops when it is told false is the user's code.

**ForEach.** The arguments (kind of range, `maxParallelity`, number of elements) are
chosen in `Init`, zero included; `MinRandom` is the smallest random-access range, 1 in
`foreach` and 0 in `foreach_empty`. The caller divides the range or creates the channel,
creates the coroutines one by one, pushes, closes and awaits; the coroutines process
their part or pop, with an exception possible at every element, and one of the range
itself at every turn of the caller's loop. The channel is `BufferedChannel` by
`INSTANCE`, with the caller as its sender and the coroutines as its receivers. A
coroutine is a process of its own here: that it may run inside the constructor of its
`Routine` or inside a `set_value()` of the caller is one of the interleavings. Division
by zero, the failed assertions (`assert(cnt > 0)` of `setMaxQueueSize()`, which
`maxParallelity` 0 meets first, and `assert(firstError)`) and `std::terminate()` are ends
of their own. `AbstractForEach` allows such an end only for `maxParallelity` 0 and after
the range itself has thrown, of which the comment above `forEach()` says nothing.

**Executor.** The io_context is external, modelled from its use: a queue of handlers, the
count of outstanding work, the flag `stopped`, which the last piece of work sets, and the
operations in progress. Threads take a handler, execute it and what it resumes, and leave
`run()` when the io_context is stopped. Functions given to `async()` are tasks; they call
`async()` for others, await them, call `runOutsideOfCoroutine()` and start operations
with a `yieldTo()` callback, which is what each function of `networking.hpp` does;
`read_some()` with bytes at hand returns without suspending. `overload` says whether an
error is thrown or handed to the caller (the overload of `send()` with an `error_code`
throws as well, and counts as one that throws). Suspending and resuming are single
steps; inside of a handler, setting a future resumes its coroutine at once, inside of a
coroutine the resumption is posted, which is what `Runner` does.

**TimedMutex.** As `Mutex`, with `await(p.result)` as one step and `unlock()` as in
`timed_mutex.hpp`.

## Runs

| Run | Checks | Instance |
|---|---|---|
| `mutex_fair` | type, mutual exclusion, no stranded waiter, safe destruction, wakeups, starvation freedom, refinement of `AbstractMutex` | 4 callers, 8 spins, spurious failures, `FairPolicy` |
| `future_shared` | type, live tasks, registered tasks alive, `get_unchecked()`'s assert, refinement of `OneShot`, every call returns | 4 calls of any kind, 5 looks, 2 outcomes |
| `future_timeout` | *violated*: `set_value()` calls a task that exists and leaves a ready future | 2 calls |
| `routine` | type, one runner, `current()`, exactly one waker, memory, release, refinement of `AbstractRoutine` (what is awaited has happened, and the result of an awaited coroutine is ready), everyone released | 2 coroutines, 3 threads, 2 awaits each (plus those of coroutines) |
| `routine_detach_race` | *violated*: no use after free | 1 coroutine, 2 threads |
| `channel` | type and queue bound, one waker each, waiting only if needed, exactly once, order, clean end, every operation returns | 2 senders with 2 values, 2 receivers, size 1, raised to 2 at any time |
| `channel_resize` | *violated*: false from `push()` means closed | the size is raised |
| `unbuffered` | type, protocol of the two futures, values and answers, every operation returns | up to 4 values |
| `foreach` | a refused `push()` means an error, refinement of `AbstractForEach`, `forEach()` comes back | up to 2 coroutines and 5 elements, both kinds of ranges, no empty random-access range |
| `foreach_empty` | *violated*: refinement of `AbstractForEach` | random-access ranges of 0 to 2 elements |
| `executor` | type and count of work, frames alive, own outcome, nothing left after joining, tasks end and joining returns | 2 tasks with 1 operation each, 2 threads, 2 `IoContextThreads` in a row, 2 outcomes |
| `timed_mutex` | *violated*: `unlock()` hands over | 2 callers, 2 spins |

The bounds. For safety the proofs remove all of them; for liveness, and for whoever
changes a model, they are chosen as follows. Four callers give a holder, a successor that
is being woken, a waiter in the queue and a newcomer between `fetch_add` and
`addToWaiter`, all at once. A future sees every pair of calls in a row with four calls.
Two coroutines on three threads give one that ends on one thread while the other one
registers with it on another and a third thread sets the future either waits for; with two
awaits each, whatever an earlier suspension left behind meets the next one. A chain of
three is beyond TLC together with liveness; the proofs cover it for safety. On the channel, two senders overfill a queue of
size one, both receivers may wait at once, and either side may be the last to leave. The
futures of the unbuffered channel are reused from the second value on; with four values a
late step of one rendezvous can meet the next two. Five elements on two coroutines
give parts of equal and of different size, more elements than the channel holds, and
errors of one and of both coroutines. Two tasks on two threads give a handler
that races the suspension of the task it belongs to and a task that awaits another; the
second `IoContextThreads` finds the io_context stopped by the first.

The violations are disagreements between the code and what its tests or callers state;
the findings in `PROJECT.json` quote them. Three of them limit other properties.
`wait_for()` restores `EmptyHandle` without looking. A value set at that moment is
forgotten, and the setter, which is between its exchange and its call, calls the task of a
`wait_for()` that has returned (`future_timeout`):
`CallEntersLiveTask` and `CallsReturn` except the states in which the pointer has been
erased, and `OneShot` is about what `get()` returns, not about `is_ready()`.
An empty random-access range divides by zero (`foreach_empty`), so `foreach` starts with
one element there; empty input ranges are included. `detach()`
of a coroutine that ends on another thread at the same time frees memory in use:
`routine` allows it at every other time (`DetachWhen` is "unraced").

One more disagreement has no run. The comment above `BufferedChannel` says that senders
are suspended "if the queue is full" (`channel.hpp:72`). `push()` queues its value first
and waits when the queue, its own value included, has reached the size (line 194): with
the default size of 2 a single value of the others is enough to make it wait, and with a
size of 1 none is needed. `WaitOnlyIfNeeded` states what the code does, which is one value
earlier than the comment: the values of those that do not wait are one short of the size
while somebody waits, and never more.

### Fairness

Every fairness condition is weak and says that a thread that can take a step takes
one. `Mutex`: callers inside `lock()` and `unlock()` go on and holders unlock; nobody
has to call `lock()`. The loop of `unlock()` that yields while the container is empty
is a step that is enabled only when it finds somebody, since the turns that find
nothing change nothing. `LightFutureData`: the promise is set some day and the
consumer goes on with its call. `Routine`: threads are scheduled and io threads are
inside `run()`; coroutines await the coroutines they own and end, and owners give up
their handles. `MaxAwaits` bounds the awaits of futures and of the io_context only, so
that the bound never keeps a coroutine from awaiting one it owns. The spin of `await_suspend()` is enabled only when it succeeds.
`BufferedChannel` and `UnbufferedChannel`: participants send, receive or leave.
`ForEach`: the caller and the coroutines are scheduled and the callable returns or
throws. `Executor`: threads are scheduled, functions and operations end, and a
destructor that has begun goes on; nobody has to call `async()` or to create or destroy
an `IoContextThreads`.

Deadlock is checked for the mutex, whose callers never stop. The other models end:
promises are set, coroutines finish, everybody leaves the channel.

## Proofs

Every theorem is about the specification TLC checks, for every value of the constants
that satisfies the named `ASSUME`s of its module; TLC evaluates those on every run. They
say that sets of names do not overlap with each other or with the marks the code uses
(`nullptr`, `InvalidHandle`), that sizes and bounds are natural numbers, and in three
places that something is finite because a cardinality is counted: the callers of a mutex,
the senders of a channel, the threads of an executor (coroutines, receivers and tasks may
be infinitely many). `LargestSize` says that the queue sizes in use have a largest one,
which is the bound `TypeOK` gives for the queue. None of the invariants is inductive
alone. Each proof module begins with the strengthening, then has lemmas on what a kind of
step does to the state, one lemma per action, and at the end the theorems.

**LightFutureProofs**, for any outcomes, any number of calls of any kind and any number of
looks: `TypeOK`, `RegisteredTaskAlive`, `GetUncheckedIsReady`, `CallEntersLiveTask`, and
that the code implements `OneShot`. The strengthening says where a sleeping call's task is
(`SleepInv`), that the setter never holds a task of a later call (`CallInv`), that the flag
is set by the setter only (`FlagInv`) and that readiness follows the store (`StoredInv`).
`HandoverInv` adds for `CallEntersLiveTask` that as long as the `InvalidHandle` of
`on_ready()` stands, the owner of the task it took cannot have gone on.

**MutexProofs**, for every finite set of callers, both policies, every spin limit and with
or without spurious failures: `TypeOK`, `MutualExclusion`, `NoStrandedWaiter`,
`WakeupsMatch`, `DestroySafe`, and that the code implements `AbstractMutex`. `IInv` adds
that the counter is the number of counted callers (`CountInv`), that the mutex has an
owner exactly while somebody is counted (`OwnedInv`), that no caller is queued twice and a
queued caller's future is not set (`QueueInv`), how the waiter's position determines its
future's pointer (`FutureInv`), and that at most one `unlock()` is delivering
(`MessengerInv`). The argument: the counter being 0 means nobody is counted, hence nobody
owns; `fetch_sub` leaves the owner in charge while others are counted; the pop moves
ownership to one waiter, and the two-step wakeup reaches that waiter wherever it is in
`await(p)`. In the refinement the pop is the abstract hand-over, to the head of the queue
with `FairPolicy` and to its end with `HighThroughputPolicy`. The safety of the latter is
only proved; its stack of waiters is not free of starvation by design, and no run uses it.

**RoutineProofs**, for any coroutines, threads, futures and awaits: `TypeOK`,
`SingleRunner`, `CurrentConsistent` and `ExactlyOneWaker` whenever `detach()` is called,
and `NoUseAfterFree`, `ReleasedInTime` and the refinement of `AbstractRoutine` under the
hypothesis `DetachWhen # "anytime"`; without it the first of them is what
`routine_detach_race` refutes. Frames are numbered from the oldest one of a thread, so that
a frame keeps its slot while others come and go above it. `CoreInv` says: what may lie
above and below what on a stack (`ShapeInv`) and hence what `current()` and `mOuter` are
(`CurrentInv`); a coroutine has one frame and one Runner (`OnceInv`); the members of the
`Data` at each place of `await()`, `resume()` and the end (`PlaceInv`) and while the
coroutine is on no thread (`RestInv`); who has the handle, and that an awaited coroutine
belongs to the one that awaits it (`OwnerInv`). The wakeups are the heart of it. An armed
Runner is a token: whoever has it, a future, the queue, a timer or a call, is the only one
(`ArmedInv`). The Runner of a coroutine that awaits another one is disarmed, and is called,
on top of the frame that ends, before that frame resumes the continuation (`DisarmedInv`).
The continuation a coroutine has, or `resume()` carries, is the one that awaits it
(`ContinuationInv`), and whoever sleeps is known to somebody (`KnownInv`). `LifeInv`
relates `life`, `mIsDetached`, `owner` and the local `destruct`. For the refinement,
`PastInv` says that a coroutine that is about to be entered, or whose Runner was called
while it is registering or spinning in `await_suspend()` (`Registered`), awaits something
that is over, an awaited coroutine with its result ready, and that a future is awaited by
one coroutine; `FoundReady` is the lemma on the three places where `await()` finds that
it came too late. `ToldAfterResult` is the order of `ResultSetter`: the coroutine that
awaits is told only after `mResult` was set.

**BufferedChannelProofs**, for any senders, receivers and callers of `setMaxQueueSize()`,
any number of values and any sizes: `TypeOK` with the bound of the queue, `OneWakerEach`,
`ExactlyOnce`, `SenderOrder`, `EndIsClean`; `WaitOnlyIfNeeded` under the hypothesis that
`setMaxQueueSize()` does not set the first size again (the property is about the time
before its first call, which the model recognises by the size); and `FalseMeansClosed`
under the hypothesis that nobody calls `setMaxQueueSize()`, which is the case in
`foreach.hpp`. The invariant comes in layers. `CoreInv`: everyone who waits is in one
place of one deque or has one `set_value()` call coming (`WakeInv`), flags follow the
participants (`FlagInv`), at most the last `push()` of a sender is not accepted
(`CountInv`). On top of it, every waiting sender has left a value in the queue and
receivers wait only while it is empty (`QueueInv`); what is beyond the size are values of
senders that wait or were told false (`BoundInv`, `SizeInv`); values leave the queue in
the order they joined it and towards one receiver (`OrderInv`); no value that was
accepted, or still may be, is lost (`KeptInv`); nothing is told before everything is
drained, and false not before the receivers are gone (`NothingInv`, `FalseInv`).

**UnbufferedChannelProofs**, for any number of values: `TypeOK`, `FutureProtocol` and
`Rendezvous`. `HandshakeInv` says for each place of the sender what the two futures hold
and where the receiver can be; the value of a `push()` is offered, then being released,
then answered. `CountInv` relates that to the number of values taken.

**ForEachProofs**, for every kind and size of range and every `maxParallelity`, zero
included: `RefusedMeansError`, and under the hypothesis `MinRandom > 0` (no empty
random-access range, which `foreach_empty` refutes) the refinement of `AbstractForEach`. The channel's
invariant is not proved again: `ForEachProofs` instantiates `BufferedChannelProofs`,
shows its assumptions, and shows that each call of `forEach()` is a step of the channel.
The rest: the parts of a random-access range are disjoint, what is left of them was not
executed and everything else was (`SplitInv`, `PartsInv`); the elements received from the
channel are the executed ones, except for the ones the coroutines are at (`ReceivedInv`);
a coroutine leaves only for an error or when the channel is drained (`HandleInv`); a
failure is kept or on its way to `firstError` (`ErrorInv`).

**ExecutorProofs**, for any tasks, threads, operations and outcomes: `TypeOK` with the
count of work, `FramesAlive`, `OwnOutcome` and `JoinDrains`. A handler that has not been
carried out refers to one coroutine, at most one thing refers to a coroutine (`OnceInv`),
finds it where it expects it (`ExpectInv`), and a coroutine that is on no thread is
referred to (`ReferInv`). For `JoinDrains`: the count of work is exact (`CountInv`), so a
stopped io_context has no handler and no operation; a coroutine could then only wait for
another one, and as the one that holds a future is older than the one that sets it
(`TreeInv`), somebody would wait for a coroutine that waits for nothing.

Only model-checked: all liveness (the provers do not handle fairness), namely
`StarvationFreedom`, `CallsReturn`, `EveryoneReleased`, `OperationsReturn` of both channels,
`Returns` of `forEach()` and `TasksDone` of the executor; and the five violations.

`try_lock()` uses `compare_exchange_weak` and may therefore fail on a free mutex, which
`test/CoMutexTests.cpp:45` does not expect on machines where that happens; the model
allows it (`WeakCas`), and no property of the mutex depends on its absence.

## Not modelled, and what is left

Not modelled:

- `Routine::SpecificPtr`: a map of each coroutine that only this coroutine uses. Two
  sequential flaws were met while reading it: `reset()` with the stored pointer deletes
  the object and keeps the pointer (`routine_specific_ptr.hpp:71`), and an entry of a
  destroyed `SpecificPtr` in another coroutine is found by a new one at the same address,
  as the destructor resets the current coroutine's entry only. `release()` does not
  compile when it is used.
- `TimedMutex::try_lock_for()`, which does not compile when it is used.
- The stack switching of boost::coroutines2 and the allocation of stacks.
- Memory orders: all steps interleave on one memory. `is_ready_weak()`
  (`future.hpp:193`) reads the atomic with `memcmp` before the value is read, which only
  hardware that keeps loads in order makes safe.
- Buffers, flags, endpoints and bytes of the socket functions; the error code of a
  cancelled timer; `joinAll()` called before the destructor, which joins twice; the
  replacement of the default io_context.
- Coroutines that wait for something that is no work of the io_context while its
  threads are joined: the threads leave `run()`, and the coroutine is resumed by whoever
  sets its future.

What is left to prove: nothing that a run checks and that the provers can handle, except
for what the violated properties leave true. `TimedMutex` is experimental and its
`unlock()` is refuted; what it does guarantee is not stated. `FalseMeansClosed` is proved
without `setMaxQueueSize()`; what a sender may conclude from false when the size has been
raised is a question to the code. The memory of a coroutine whose `detach()` races with its
end is the subject of `routine_detach_race`. `DestroySafe` covers what the assert of
`~BaseMutex()` can see: an `unlock()` that is inside and a `lock()` that has counted
itself, not a `lock()` before its `fetch_add`.
