# YAsynC in TLA+

YAsynC is a C++17 library of asynchronous generators: a pool of worker threads
(`Yengine`) resumes generators that await one another, an I/O engine
(`IOYengine`, epoll) completes outside futures, and a timer thread (`TickTack`)
calls back. The sources are the `.hpp` and `.cpp` files of `src/src/`; the
repository has no tests, and its header comments are its only documentation.
This directory holds TLA+ modules of its components, the TLC runs that check
them on small instances, and proofs, checked by TLAPS, of their main safety
properties for every instance.

## 1. The system

| component | state | operations | talks to |
|---|---|---|---|
| `ThreadSafeQueue` (threadsafequeue.hpp) | `list`, `currentSize`, `popw`, `closed`, sleepers on `cvPop` | `push`, `pop`, `close`, `currentIdle` | notifies `cvIdle` (the engine's `condWLE`) |
| `Yengine` (engine.hpp, engine.cpp) | the queue `work`, the map `notifications` (awaited future -> awaiter), `FutureState` of each future, worker threads | `execute`, `notify`, `wle`; inside: `threado`, `notifiAdd`, `notifiDrop` | resumes generators, is called by everything else |
| operator generators (engine.hpp) | state I, A, ..., Fi of each `>>`, `<<`, `>>=` | `resume`, `done` | read the state and the result of what they await |
| outside futures, aggregates, `blawait` (impls.hpp) | a `FutureState` and a result set by a client | `completed`, `set`, `running`, `add` | `Yengine::notify` |
| `TickTack` (ticktack.hpp, ticktack.cpp) | the ordered set `ent`, `nid`, `stahp`, a worker thread | `start`, `stop`, `shutdown` | calls callbacks on the worker's, the stopper's or the closer's thread |
| `IOI2Way` (iompls.cpp) | two buffers, their locks, `exi`, `notifi` | `_read`, `_write`, destructor | `Yengine::notify` of the other end |
| `IOYengine`, `FileResource` (io.cpp) | tickets, the epoll thread; per resource `engif`, `iopor` | `taek`, `wioe`, `_read`, `_write`, `cancel` | epoll, `Yengine::notify` |
| buffered reads, `Writer` (io.hpp, io.cpp) | `readbuff`; `buffer`, `lflush` | `read`, `peek`, `flush` | `_read`, `_write` of the resource |
| sockets (iosock.hpp, iosock.cpp) | `engif` or `redy`, the socket, a ticket | `listen`, `shutdown`, `connest`, `cancel` | epoll, `IOYengine::taek` |
| `CtrlC` (ioctrcl.cpp) | `stahp`, a semaphore, a catcher thread | `on`, `un` | the signal handler, `Yengine::notify` |

What is hard here, component by component, with the property that would make it
right:

* The queue wakes a sleeper only on the transition from empty, and the engine
  decides from a hand-kept count whether it is idle. Right means: no item waits
  while everybody sleeps, nobody sleeps through `close()`, the counts are exact.
* The engine has a lock on the queue and one on `notifications`, none on the
  futures. Right means: a generator is due to be resumed by one thing at a time,
  not before what it awaits has settled, never once it is done, and always in
  the end; and `wle()` returns after the work, not before it.
* The timers are taken out of the set by three threads and called outside the
  lock. Right means: a one-off timer is called once, a cancelled or stopped
  one not any more, none too early, each in the end.
* The operator generators look at the state of what they await after they were
  resumed, and swallow, split or collect values. Right means: a pipeline yields
  what its operations make of the source, all of it, in order, and computes no
  more than it was asked for.
* An aggregate is complete whenever its balance is 0, and may be added to after
  that. Right means: who waits for it waits for all that was added before.
* The I/O components pass events through a single outside future that is reused
  for every event. Right means: no byte and no event is lost, duplicated or
  taken by the wrong operation, and the tickets come back.
* `CtrlC` uses one semaphore for signals and for the end of its thread. Right
  means: a signal, and only a signal, completes the future, and `un()` ends the
  thread whatever signals come.

`PROJECT.json` lists every place where these can go wrong (`hazards`).

## 2. What is modelled

| module | models | actions |
|---|---|---|
| `ThreadSafeQueue` | the queue | `Push`; `PopWait`, `PopTake`, `PopClosed`, `SpuriousWakeup`; `Close` |
| `Yengine` | the engine, over an `INSTANCE` of the queue named `work` | clients: `Execute`, `Completed`, `Cancelled`, `PushCall`; a worker: `WorkerWaits`, `WorkerTakes`, `WorkerLeaves`, `IsCancelled` ... `Drop`; `wle()`: `WleCall` ... `WleJoin` |
| `MCYengine` | the pipelines the runs use, and the clients of `Next` as one thread | `OneClientSpec` |
| `TickTack` | the timers | clients: `Start`, `Stop`, `StopCalls`, `Shutdown`, `ShutdownCalls`, `ShutdownJoins`; the worker: `Outer` ... `Wake`; the clock: `Tick` |
| `IOI2Way` | one direction of the two-way resource | the writing end: `Write`, `WriterGone`, `Complete`, `Post`; the reading end: `Read`, `Reset`, `Move`, `ReaderGone`; the reader's engine: `Check`, `Add`, `Drop` |
| `Streams` | what the engine promises (agen.hpp): values are computed when asked for and taken once | `Ask`, `Produce`, `Take`, `Receive`, `Offer`, `Settle` |
| `EngineStreams` | the refinement mapping from `Yengine` to `Streams` | |
| `Aggregate`, `MCAggregate` | `AggregateFuture<void>` and `blawait<void>`, over `Yengine` | `AddCounts`, `AddSubmits`; the lambdas: `Counts`, `Tells`; `Blawait`, `BlawaitTests`, `BlawaitSpurious` |
| `Generators`, `MCGenerators` | the operator generators, in pipelines of any of them over any source | `Demand`; `ResumeL` (a lambdagen), `Resume0`, `ResumeMM`, `ResumeF`, `ResumeX`, `ResumeXM`, `ResumeIM`, `ResumeNxt`; `ResumeC` (an `IteratingGenerator`) |
| `IOYengine` | what resources share: epoll, the IO thread, `engif`, the worker that resumes the resource's generator, tickets and `wioe` | `NotifyCall`, `SetResult`, `SetCompleted`, `Post`, `EpollWait`, `IOThreadEnds`, `Release`, `Check`, `Drop`, `Running` |
| `FileResource` | `_read`, `_write`, `cancel` and the end of a file, pipe or socket; its peer | `Launch`, `WriteNothing`, `lazyEpollReg`, `TakeUp`, `Await`, `Switch`, `ReadSome` ... `WriteNone`, `FileEvent`, `FileCancel`, `FileGone` |
| `BufferedIO` | `read` (so many bytes, to the end, until a pattern), `peek` and `write` of `IAIOResource` | `Call`, `Mapped` and its cases |
| `Writer` | `Writer`: write, flush, the destructor, `eod()` | `WriterWrite`, `Flush`, `LaunchFlush`, `WriterGone`, `FlushStarts`, `FlushFails`, `FlushEnds`, `EodCompleted` |
| `ListeningSocket` | `listen`, `shutdown`, `accept`, the socket's closing | `Listen`, `Shutdown`, `ListenTakesUp`, `ListenSwitch`, `Accept`, `AcceptBlocks`, `AcceptFails`, `ListenAwaits` |
| `ConnectingSocket` | `netConnectTo`, `connest`, `cancel` | `Register`, `ConnectCandidates`, `ConnectEvent`, `ConnectCancel`, `connest`, `Connected`, `SocketGone` |
| `CtrlC` | `on`, `un`, the signal handler and the catcher thread | `On`, `OnAgain`, `Signal`; `CatcherWaits` ... `CatcherEnds`; `Un`, `UnPosts` ... `UnJoins` |
| `IOScenarios`, `MCIOScenarios` | the IO modules together | `Client`, `WorkerStep`, `IOStep`, `CatcherStep` |
| `*Proofs` | theorems about the module they extend | |

**Queue.** One action per critical section of `mutex`. A sleeper that has been
notified and has not got the mutex back ("woken") is a state of its own, so that
another popper can take the item first, as it can in C++. `popper` replaces the
threads' program counters; `popw` and `currentSize` are variables beside the
data because the code keeps them by hand. `close()` returns early when already
closed; it reads `closed` without the mutex, but the engine calls it once.

**Engine.** One action per critical section, and one per unlocked read or write
of a `FutureState`; the two assignments of `execute()` and of completing an
outside future (set the state, push) are two actions, with `calls` between them.
`pc`, `task` and `seen` are a worker's place in `threado()`, its local `task`,
and which case of the switch on the awaited state it took. `threado()` has loops
within loops; a pass of the inner one is `Run`, `ResumeSource` or `ResumeOp`,
then `Check`, `SetAwaiting`, `Add` or `Publish`, `Drop`. The generators are
either sources, which produce a number of values and are done, or the `>>`
generator `OpDirectGenerator0` with its states I, A, Fi. `wle()` keeps
`notificationsLock` from its test until `condWLE.wait` releases it ("dozing"):
nobody else can take the lock in between, but a worker can notify `condWLE`.

`FutureState` is a plain field; the model assumes that reads and writes of it
are atomic and seen in one order, which is what x86 builds give for an enum, and
interleaves them freely. What goes wrong below goes wrong under this assumption
already.

*Clients.* `Next` has the clients that the source files are: everything they
submit is the end of a pipeline (`Roots`: nothing awaits it), and they submit it
again only when it has yielded (engine.hpp:555-583, impls.hpp:96,118,143,
io.cpp:351, iosock.hpp:197), before, while or after `wle()` runs. `OneClientSpec` of
`MCYengine` has them as one thread, which calls `wle()` once its calls have returned.
`AheadNext` has clients that also launch a generator that some
pipeline will await. `SingleAwaiter` says that no future is awaited by two
generators: the map has room for one awaiter per future.

**Timers.** One action per critical section of `lock` and per read of `stahp`;
the callback runs between `Fire` and `Fired`, with clients free to start and
stop timers meanwhile, as the callback itself may. `wait_for` may end at any
time (`Wake`): the notification of `shutdown()`, the 5 ms timeout and spurious
wakeups do the same. `first`, `fired`, `cancelled` and `stopped` are history
variables that no action reads. `shutdown()` is called once and not from a
callback, where it would join its own thread.

**Two-way resource.** The two directions share no state, so one is modelled:
writes of one end until it is destroyed, reads of the other one at a time, and
the steps of `Yengine` that concern the read generator: the look at the future
it returned, `notifiAdd`, and a worker that processes a notification. Bytes are
numbered as they are written. The writer holds `locks[W]` from the append to the
end of `notify<W>()`; within it the copy of `notifi`, `completed()` and the push
are told apart, because the reader resets `notifi` without the lock. When it
does so while the writer has just tested `notifi`, the writer has either copied
it already or follows a pointer that is gone: `crashed` may become true. `last`
and `completed` stand for the futures' states, `posted` for their places in the
work queue; stale notifications, of which there can be several, are popped and
find nobody. A read that is in progress keeps the resource alive (`self`), so
the reading end goes only while it is idle.

**Streams.** The abstract specification of the engine has no workers, no queue
and no map: a generator is idle, asked, has made a value, or its value is there
for the generator that awaits it. `EngineStreams` reads the stage of a generator
off its `FutureState`, off `gen`, and off the worker that has it: between
engine.cpp:75 and 77 a generator is Suspended already and its value not taken.

**Aggregate.** Over all of `Yengine`: the members are generators that `add()`
submits, the lambdas run between `ResumeOp` and `Publish`, and the state of the
aggregate, which the code computes from the balance, is kept in `state[agg]`.
The last lambda notifies the engine with the lock held (`synch`); `add()` waits
for it and then makes the aggregate Running again. `told` and `blocker` are the
flag of `blawait()` and its thread, which may wake up spuriously. `MCAggregate` has
either these clients or those of `AheadNext` (`clients`).

**Operator generators.** A pipeline is a sequence of operations; which class
each generator is of, and whether the pipeline compiles, follows from the types
as in `then_spec1`, `explode_spec0` and `implode_spec0`. A function that returns futures is
put behind things of type U only: behind U? it would make an
`OpDirectGeneratorFMM`, which cannot be instantiated (section 5). The state machine of each
class is one action with its cases as disjuncts, and one worker resumes them
(`Yield`, `Await`, `AwaitNxt` are what `threado()` does with what they return). Values
are four abstract ones and the functions that clients pass in are constants;
the function that makes futures (`Inner`) makes some that are completed
beforehand and some that yield several values.

**IO.** `completed()` is two writes (the result, then the state) and `running()` two
steps (the state, then the result): the IO thread, a client that cancels and
the worker interleave between them. epoll is external: a descriptor is armed
for one event, is reported when it is ready, with the set of events that
applies, and is disarmed by that (EPOLLONESHOT). `disturbed` is a history variable
that no action reads: it holds of an operation that found something left in
`engif`, armed or on its way when it began, or was cancelled since. The kernel's buffers, the peer
and the outcome of `connect` are external as well. `live` is the resource with its
ticket; an IO thread or a client that follows a resource that is gone, or the
null engine of a closed one, makes `crashed` true, where the model stops.
Resources share the IO thread, which handles an event at a time, and the count
of tickets, so that one resource at a time (`scenario`) is enough for what the
properties say; a listener has, besides its own, the tickets of the connections
it accepts, and a connecting socket that of the stream it becomes. Bytes are numbered in the order in
which the peer sends them; `Content` says what the bytes are for the search of a
pattern.

**CtrlC.** A step per access to the semaphore, `stahp` or the future. A second
`on()`, and a future that expires between `expired()` and `lock()`, end the
program (`terminated`). It is a scenario of `IOScenarios` that leaves the resource
alone.

Left out everywhere: values of results and error texts, allocation, and the
Windows branches.

## 3. The runs

| run | instance | shows |
|---|---|---|
| `queue` | 3 poppers, 2 items, list of at most 3 | counters exact, nothing stranded, nobody sleeps through `close`, items keep flowing, `close` releases all |
| `engine_two` | 2 workers, `map2` awaits `map1` awaits `src`, which yields twice; `rcv` awaits the outside future `evt` | one resumer per generator, parked under what it awaits; the engine implements `Streams`: a generator is not resumed early, unasked or when done, and each value is taken once |
| `one_worker` | 1 worker; either an aggregate of two members, one of which awaits an outside future and the other a source that yields twice, and `blawait`; or clients that launch ahead what these pipelines await, and call `wle` | no awaiter forgotten, what is submitted yields, `wle` ends once it closes, `blawait` returns, and after every member that was added before it |
| `engine_lost` | 2 workers, `rcv` awaits `evt` | **violated**: a completion is lost (below) |
| `engine_close` | 2 workers, one source, one thread that calls `execute` and then `wle` | **violated**: work dropped by `close` (below) |
| `ticktack` | 2 timers, times 0..2, one-off or every tick | one-off once, cancel last, never early, quiet after shutdown, every timer called, shutdown returns |
| `ticktack_stop` | 1 timer | **violated**: `stop()` does not stop (below) |
| `ioi2way` | 4 bytes in chunks of 1 or 2, 3 reads of 1, 2 or until the end, 1 or 2 workers | bytes once and in order, a parked reader is told, the end is reported |
| `ioi2way_lost` | the same, 2 reads | **violated**: bytes are lost (below) |
| `generators` | every pipeline of 1 to 3 operations over every source of 1 to 3 items, 6 together (`MaxSize`) | what is promised is yielded, nothing only at the end, nobody resumed when done, lazy, every demand met |
| `io` | each of reader, writer, listener, connection and `CtrlC`; bounds below | bytes accounted for, replies as asked, outcomes true, `eod` means written, nothing left armed, `wioe` waits and returns, waits end |
| `io_regular` | 2 reads of a regular file | **violated**: the second fails (below) |

*Why these bounds are enough to be interesting.* Three poppers are the fewest
with one asleep, one woken and one taking the item of the second. A list of
three has a push onto empty, one onto a non-empty list, and a pop that leaves
items behind. Two workers give every race on an unlocked field; two yields per
source let a chain be parked, climbed and set up again; a chain of three has a
generator that is awaited and awaits. The queue inside the engine needs no
bound: a future is pushed only by a call or by a completion, of which there are
finitely many at a time. Two timers can be in two different hands, and a
periodic one can fire three times by the end of the clock (`MaxTime`). Four bytes
(`MaxBytes`) in chunks of one or two let a read be resumed several times before
it has what it wants, and three reads (`MaxReads`) have one that starts with
bytes left from before; `MaxBytes` also bounds the number of futures. The proofs
below hold for every value of these bounds.

An aggregate of two has a member that is added after the first was done. With
three operations each class follows and precedes each other one. In `io`: files
are regular, sockets, accepted (blocking) sockets or pipes; 3 bytes come in
(`InSize`) through a buffer of 2 (`BufferSize`), so that a read takes several calls
and leaves a rest; 1 byte fits into the kernel's buffer on the way out
(`Capacity`), so that a write of 2 (`MaxWritten`) is split; 2 calls (`MaxCalls`), so
that one finds what the other left, in the buffer or armed, and the second of
them neither a peek nor a read to a pattern (`LastRequests`), whose leavings
nothing would find; 2 flushes; 2
connections and an error of `accept` (`MaxErrors`); one `cancel()` or `shutdown()`
(`MaxCancels`) at any moment; 2 `on()` and 3 signals (`MaxOns`, `MaxSignals`), so that
a count is left from the first. Reads are cancelled on sockets only, the peer
acts while the resource lives, and a resource has one operation at a time and
its engine one worker.

Deadlock is not checked: a closed queue, an engine whose clients have stopped
and a shut down timer thread are all entitled to stop.

*Fairness.* `FairQueueSpec`: each thread that pops is scheduled and comes back
(weak fairness of its `Pop`). `FairSpec` of the engine: each worker is
scheduled, strongly because it competes with `wle()` for `notificationsLock`; a
call that was begun is finished; an outside future is completed or cancelled in
the end, since an operation that never ends tells nothing about the engine.
Nothing is assumed of spurious wakeups, of further calls, or of `wle()` being
called. `FairSpec` of the timers: the clock runs, the worker is scheduled and
its callbacks return, calls that were begun are finished. `FairSpec` of the
two-way resource: a notification that was begun is finished, the reader's worker
and the engine's others are scheduled; writes, the end of transmission and
further reads are the clients' choice. `EndIsReported` and `ParkedIsTold` are
stated for one worker, since with more the engine loses completions
(`engine_lost`); `EndIsReported` allows the crash of the unlocked reset. `Generators`:
the worker goes on while it has a generator to resume; further demands are the
client's choice. `Aggregate`: as the engine, an `add()` that has counted its member
submits it, and the thread in `blawait()` is scheduled. `IOScenarios`: the worker, or
the catcher, is scheduled; the IO thread, a `notify()` or `un()` that was begun, and
a peer that reads what it is sent make progress when they can, and the peer at the latest when
the others have nothing to do, since a peer that never reads blocks a writer
for ever. The end of what the peer sends is its choice, as are calls,
signals and cancellations.

### Where the code disagrees with its comments

* **A lost completion** (`engine_lost`, engine.cpp:58 and 72, against
  agen.hpp:28). A worker resumes `rcv`, which returns `evt`, and finds `evt` Running.
  Before it adds `rcv` to `notifications`, `evt` is completed and notified, and the
  other worker processes the notification and finds no awaiter. `rcv` is parked
  for ever. With one worker this cannot happen (`one_worker`).
* **Dropped work** (`engine_close`, threadsafequeue.hpp:114 against :99). The
  queue says closed rather than empty-and-closed. Both workers sleep; a thread
  calls `execute()`, which pushes the source and wakes one of them, and then
  `wle()`: the woken worker has not got the mutex back, both are counted as idle
  (engine.cpp:15), and `wle()` closes the queue. The worker finds it closed and
  ends, and the source is never resumed.
* **A timer that goes on** (`ticktack_stop`, ticktack.cpp:34 against
  ticktack.hpp:73). `stop()` does not find a timer whose callback is running,
  and a periodic one is put back and called for ever.
* **Lost bytes** (`ioi2way_lost`, iompls.cpp:45 and 49, against iompls.hpp:11).
  A read of two bytes that finds one takes it out of the buffer into its
  parameter `data`, which is a copy, and waits; resumed, it starts from empty.

* **A regular file works once** (`io_regular`, io.cpp:67 against io.cpp:65, "That
  means that all r/w will succeed (and block)"). epoll refuses a regular file,
  which is marked as registered all the same: the second operation is told to
  rearm it and fails.

Two more are not among the runs of `PROJECT.json`, each has a configuration that
reproduces it:

* **An aggregate that is complete too early** (`MCAggregate_early.cfg`,
  impls.hpp:120 against impls.hpp:133, "Blocks current thread until completion
  of a future"). With two workers: the only member is done, the aggregate is
  notified and a worker sees it Completed (engine.cpp:47); `add()` makes it
  Running, `blawait()` is called and its generator parked under it; the worker
  drops and resumes that generator (engine.cpp:48), and `blawait()` returns while
  the added member is not done.
* **An iterating generator that is done at its start** (`MCGenerators_iterating.cfg`,
  impls.hpp:16 and 26 against agen.hpp:15, "`done` must always indicate whether
  the generation has completed"). `done()` is `c != e`: the first of two elements
  completes the future, and an exhausted generator never does.

Other behaviours of the IO modules that are outcomes of the models, so that no
property forbids them. The switch over an event expects exactly one: a pipe that has data and hangs
up is a wrong event, and its hang-up alone an error rather than the end
(io.cpp:156). An event that is armed and not consumed (by a read that returned, or by a
`connect` that succeeded at once) makes the next operation fail or is delivered
to a resource that is gone. Between `completed()` and the notification the IO
thread may use a resource that the client has let go. `listen()` arms the socket
before its generator does, so that it may be told of an event after it has
closed. `shutdown()` and an incoming connection overwrite one another in `engif`, so
that connections may be accepted after `shutdown()` (iosock.hpp:279), and `shutdown()` after the
close follows a null engine. `cancel()` with nothing pending leaves a completed
`engif` (io.hpp:80 warns of it), and a cancelled read loses what it had read. A socket may hang up
before `connect` is called, and a refused connection reports the hang-up first:
both are told as "Operation cancelled". In `CtrlC` a signal and `un()` overwrite one
another's result, and a second `on()` ends the program on Linux.

Other behaviours of the engine, which no comment contradicts exactly and
no run states: an awaiter of a shared future is lost (engine.cpp:31); with two
workers and clients that launch ahead, a generator launched between
engine.cpp:75 and 77 has its new awaiter dropped and resumed too early; an
awaited future that is already cancelled resumes its awaiter (engine.cpp:59)
rather than dropping the chain; `wle()` can miss its last notification and sleep
for ever (engine.cpp:15 and threadsafequeue.hpp:111 use different mutexes). They
are among the hazards.

## 4. What is proved

| theorem | for |
|---|---|
| `QueueTypeCorrect`, `CountersStayExact`, `NothingStranded`, `NobodySleepsThroughClose` | any finite set of poppers, any items, a list of any length |
| `EngineTypeCorrect`, `OneResumer`, `ParkedIsAwaiter`, `DoneNotResumed`, `ReadyWhenResumed` | any workers, any pipelines with `SingleAwaiter`, the clients of `Next` |
| `PipeTypeCorrect`, `BytesOnceInOrder`, `ParkedReaderTold` | any number of bytes and reads, any chunks and requests; one or two workers (the last: one) |
| `EngineImplementsStreams` | any workers, any pipelines with `SingleAwaiter`, the clients of `Next` |
| `AwaiterIsFound` | one worker, any pipelines, also with shared futures, clients that launch ahead too |
| `BlawaitWaits` | one worker, any number of members, whenever they are added and completed |
| `EveryResourceHasATicket`, `WioeWaitsForAll` | any number of bytes, calls, flushes, connections, errors, cancellations, signals |
| `ExchangeHolds`, `OutcomesTrue`, `QuietBetween` | the same |
| `BytesHold`, `BytesKept`, `RepliesRight`, `EodTrue`, `TypesHold` | the same, any sizes of the buffers, any modes of reading |
| `Invariance`, `YieldsRight`, `NothingEnds`, `NeverResumed`, `RunsLazily` | any values and functions of the user, any pipeline of at least one operation, any source that is not empty |
| `TimerTypeCorrect`, `OneOffCalledOnce`, `NoEarlyCall`, `CancellationIsLast`, `QuietOnceShutDown` | any clock bound, number of timers and intervals |

Assumptions: those named in the modules (`PoppersAssumption`,
`BoundAssumption`, `EngineAssumption`, `AggregateAssumption`, `BufferAssumption`,
`FileAssumption`, `TimerAssumption`, `PipeAssumption`, `FunctionsAssumption`,
`PipelinesAssumption`), which TLC evaluates in the runs, and in the
statements `SingleAwaiter` and, for two of them, `Cardinality(Workers) = 1`.

*Queue.* `QueueInv` is inductive: types, exact counters, and that an item in an
open queue has a popper that is "out" or "woken". The last needs the counters:
`push()` wakes somebody only if `currentSize` is exactly 1, so the case in which
it does not must already have somebody awake. `popw` needs the cardinality of
the set of threads in `pop()` to go up and down by one.

*Engine.* `SingleOwner` is not inductive: that a generator has one owner does
not say that nobody will hand it out a second time. The strengthening `IInv`
ties every owner to the state of the generator: one that is in a call or in the
queue is Queued, one a worker runs is Queued or Running, one in the map is
Awaiting and the future it is parked under is what it awaits. A worker may
only take over the awaiter of the future it has just published, and in between
nobody but that worker can settle or restart that future, because only
pipeline ends are submitted by clients. That is where the client discipline
enters, and with clients that launch ahead the property is false. The queue's
lemmas are used through an instance of `ThreadSafeQueueProofs`. `DoneIsFinal` and
`ResumedWhenReady` are action properties that follow from `IInv` at the step; the
runs check `ImplementsStreams`, which says both.

*Streams.* The refinement needs, on top of `IInv`, what ties the marks of the
stream to the engine (`StreamInv`): a generator that awaits is in state A of its
`>>` (`AwaitingHasA`), a generator that is marked Completed is done and none is marked Cancelled
(`MarksMatch`), sources have values left until they are done (`SourcesLeft`),
outside futures are Running, Completed or Cancelled (`OutMarks`), and the last
value of a generator has been taken or is on offer (`LastTaken`). Each step of a worker is
then a step of `Streams` or a stutter; calls, the queue and `wle()` stutter.

*Tickets.* `TicketInv`: the count is one for the resource, one per accepted
connection and one for the stream that a connecting socket has become; `wioe()`
is woken at 0 only. That a ticket is not released twice needs to know when the
generator of a listener still runs (`ListenerLives`) and when `connest()` has its
outcome (`ConnectionLives`).

*Timers.* `OnePlace`: an entry is in one place at a time, the set, `stop()`,
`shutdown()` or the worker's hands. `StillToCall`: in any of these it has not
been cancelled, and if it is one-off it has not been called. `OnTime`: its time
is the first one plus an interval per call made. From these, one-off timers are
called once, cancellation is the last call, and no call is early.

*Two-way resource.* `Ascends`: what was read followed by the buffer ascends and
is at most `written`, so that the next bytes go beyond it. `TellsWaiter` is
`ParkedIsTold` for a reader that has made its future, parked or not. The type
invariant is not trivial: that the numbers of futures stay within `Ids` needs
`Counted`, that a further future is made only when a write, or the end of
transmission, has told the last one.

*One worker.* `NoLostAwaiter` (`FoundInv`) needs to know what the worker has read:
one that is about to park a generator under a settled future has seen it
settled and chains it itself, or its submitter is still on its way. With two
workers the other one may settle the future in between (`engine_lost`).
`BlawaitWaitsForAll` (`AggregateInv`): the balance is the number of members that
were added and not counted out, and while there is one the aggregate is
Running, so the generator of `blawait()` is in one place, a call, the queue, the
worker or the map, and is not resumed from A. With two workers it may be in two
(`MCAggregate_early.cfg`).

*Exchange.* `ExchangeInv`. While an operation is not `disturbed` the descriptor is
armed, or an event is on its way, or `engif` is completed, never two of them, and
each only while the operation waits for it (`FileExchange`); the event is the one
that it waits for, or says that its pipe hung up, with or without something left
to read (`AsExpected`). An operation that begins finds nothing of one that was not
disturbed, so that `disturbed` goes back to a `cancel()` in the end. A regular file is
never armed, and when its mark is set an operation was begun before (`UsedInv`,
which counts calls and flushes). From these come `FailsForCause`, which gives each
failure a cause of its own, and `FileQuiet`. A connecting socket (`ConnectionInv`) has
a like invariant that speaks of the events it was told, and from it
`ConnectionQuiet`; the part of `CtrlC` comes from `Semaphore`: unless `un()` was called,
the semaphore is above zero only if a signal was heard. `QuietBetweenOperations`
does not cover a listening socket, of which it does not hold: `listen()` arms it
before its generator runs.

*Bytes.* What was received, what is in the read buffer, what the operation has
in hand and what the kernel has not given yet are successive intervals of one
stream. For the reader the ends of the intervals are variables of the model;
for the `Writer` the invariant (`WriterInv`) says that there are positions at which
what was written is cut into flushes. The model checker was given positions up
to `written` to try it. `RepliesAsAsked` needs that a pattern that is not in the
buffer can only be completed by bytes that follow it.

*Operator generators.* `YieldsWhatIsPromised` says nothing of the generators in
between. `IInv` gives each a stream `D[i]` of what it has taken and `W[i]` of what
it has yielded: what its operation makes of `D[i]` is `W[i]` followed by what it
holds (the rest of an explosion or of a future), and `W[i-1]` is `D[i]` followed by
the value it is offered, if it has not taken it yet. That this is so after each
of the steps of the six classes of operators is what the proof consists of;
that a class without M never meets `Nothing` needs the types of the whole
pipeline. Along the pipeline, what a generator has yielded is a prefix of what
is promised; when the source is resumed nothing is held anywhere, which gives
`Lazy`. The promises are recursive functions and folds. An induction over them
is made with a set of numbers: were one missing from it, the numbers below would
contradict the pigeonhole principle (`Induct`). That recursive functions exist is
shown the same way (`Unroll`).

*Model-checked only.* The liveness properties (the prover does not do fairness
or ENABLED): `EveryDemandIsMet`, `EndIsReported` and the like in section 3. All the
invariants and the action properties of the runs that pass are proved. The
inductive invariants were checked by TLC on small instances as well. The runs
that find a violation are not theorems, and show why those of the table have
the hypotheses they have.

## 5. What is not modelled, and the plan

* `OpDirectGeneratorFMM`, for a function behind U? that returns a future, of V or
  of V?: its `resume()` returns `Generesume<V>` (engine.hpp:190), where the one it
  should override returns `Generesume<Maybe<V>>` (agen.hpp:34), so that no client can
  instantiate it. A function that returns `Maybe<Future<V>>` makes an
  `OpDirectGeneratorMM` whose values are futures (`thenMaybe`).
* `AggregateFuture<T>` for a `T` other than void: its `add()` calls `results.add`, which
  `std::vector` does not have (impls.hpp:98), so that it does not compile. `blawait<T>`
  differs from `blawait<void>` in the value only.
* Two reads outstanding on one end of `IOI2Way`, and two operations outstanding
  on one `FileResource`: they share the one future and take each other's events, so
  that nothing can be stated of them.
* Failures of `epoll_ctl`, `sem_init`, `sigaction` and other system calls, except
  those of `read`, `write`, `accept` and `connect` that the code expects; address
  lookup (`getaddrinfo`); `CtrlC::setup()`, which decides which threads take the
  signal.
* The Windows branches, which need another model of completion.
* `result.hpp`, `monoid.hpp`, `variant.hpp`, `util.hpp`, `future.hpp`, `syserr.*`,
  `captrace.*`: values, visitors, messages, stack traces.

Theorems to come: that the pipe of `IOI2Way` with one worker, and the timers,
implement specifications with fewer states, as the engine does.

## 6. Running

    tlc -config ThreadSafeQueue.cfg ThreadSafeQueue
    tlc -config MCYengine_two.cfg MCYengine      (also _lost, _close)
    tlc -config TickTack.cfg TickTack            (also TickTack_stop)
    tlc -config IOI2Way.cfg IOI2Way              (also IOI2Way_lost)
    tlc -config MCAggregate_one.cfg MCAggregate  (also _early)
    tlc -config MCGenerators.cfg MCGenerators    (also _iterating)
    tlc -config MCIOScenarios.cfg MCIOScenarios  (also _regular; the longest, 3 minutes)
    tlapm ThreadSafeQueueProofs.tla
    tlapm YengineProofs.tla
    tlapm EngineStreamsProofs.tla
    tlapm AggregateProofs.tla
    tlapm GeneratorsProofs.tla
    tlapm IOScenariosProofs.tla
    tlapm TickTackProofs.tla
    tlapm IOI2WayProofs.tla
