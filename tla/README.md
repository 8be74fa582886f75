# Formal models of Chaining

Chaining is the beginning of a web server in C++: an event loop in the style of
muduo (`src/src/main`), a few helpers (`src/src/auxiliary`), and HTTP classes
that are not part of the build yet. `main.cpp` makes an `EventLoop`, a
`ListenSocket`, binds it, listens and runs the loop. This directory holds TLA+
models of the parts that carry state, the TLC configurations that check them on
small instances, and TLAPS proofs of what they check for every instance.

Paths below are relative to the repository (`src/`). `PROJECT.json` maps every
definition to the lines it models, and lists the runs, the hazards of the code
with the properties that are about them, and the theorems.

Contents: [Inventory](#inventory) · [Modules and the code](#modules-and-the-code) ·
[Runs](#runs) · [Fairness](#fairness-and-deadlock) · [Proofs](#proofs) ·
[What the checks found](#what-the-checks-found) ·
[Not modelled](#not-modelled-and-why) · [Plan](#plan)

## Inventory

| component | state | operations | hard part | what makes it correct |
|---|---|---|---|---|
| pending tasks and wake-up (`EventLoop`, `BlockQueue`, `WakeUp`) | `tasks_` under a mutex, the counter of the eventfd | `queueInLoopThread`, `push`, `Signal` in any thread; `handleRead`, `empty`, `try_pop` in the loop's | every interleaving of posting threads with the loop; the eventfd full or empty | the loop never sleeps on a task; `handleRead` never spins; every task runs once and in the order of its thread |
| timers (`TimerQueue`, `Timer`, `TimerId`) | ordered multiset `timers_`, the batch `expirationTimers_`, the id counter | `runUntil`, `runAfter`, `runEvery`, `getExpiredTimes`, `run`, `reset`, `addTimer` | callbacks that set timers while the batch is being run, a clock that moves meanwhile | no timer lost or held twice, none early, all in order, every one fires |
| event loop (`EventLoop::loop`) | phase of the round, timeout of the wait | `loop`, `Epoller::wait` | a timeout computed from a moving clock and cut to an `int` | the wait has a timeout unless the round before was slow, and ends when the first timer is due, later only by what the clock went on behind its back; timers fire, tasks are not starved |
| poller and channels (`Epoller`, `Channel`) | `channels_`, what epoll has registered, `event_`, `revent_`, `activatedChannels_`, the size of the event array | `enable*`, `disable*`, constructor, destructor, `update`, `removeChannel`, `wait`, `handleEvent` | raw pointers in the kernel; calls of `epoll_ctl` that fail; callbacks that change and destroy channels while the loop goes through them; more ready descriptors than the array takes | what epoll returns leads to a living, registered channel; kernel and `event_` agree but for what the kernel refused; nobody starves |
| listening socket (`ListenSocket`) | the descriptor in reserve, the queue of connections | `accept` | a table of descriptors shared with all threads and full in the middle of five system calls | only own descriptors are closed; the reserve comes back; no connection stays in the queue |
| life of a server (`main`, constructors, destructors) | which objects of a thread exist, `local_thread_id_`, their descriptors | construction, failure, `bind`, `listen`, `loop`, destruction | several threads, numbers of descriptors that are reused, calls that fail | a thread gets one loop; epoll never leads to an object that is gone; no destructor closes what is another's |
| byte buffer (`Buffer`) | the vector, read and write position | `append`, `readFromFD`, `retrieve…`, `findCRLF` | compaction and enlargement after any history of partial reads | no byte lost, doubled or reordered; positions stay in the vector; bounded growth |
| addresses (`InetAddr`) | a `sockaddr`, `type_` | constructors, `setInetAddr`, `GetSize`, formatting | boundaries of the text, memory that is not initialized, text that is no address | not modelled, see below |
| sockets and connections (`Socket`, `TcpConnection`) | a descriptor that is somebody else's, `isNoblocking_` | constructors, destructor, `setNoblocking` | channels are removed by number, and numbers are reused | epoll leads to living channels; nobody takes another's channel away unless it outlived its number |
| settings, logger set-up (`ReadSetting`, `InitLogger`) | spdlog's thread pool and default logger | sizes with units, `initLogger` | width of integers; `initLogger` called again, by two threads, or failing half way | a size is what its text says; the default logger has a pool that lives |
| HTTP messages (`http/`) | status line, headers, body | setters, `Serialization` | pieces appended to a buffer that moves and grows | a reader of the bytes finds the response that was set |

How they interact:

- Every object of a loop belongs to the thread that made the loop.
  `assertInLoopThread` compares `threadId_` with the thread-local
  `local_thread_id_` in `update`, `removeChannel`, `Epoller::wait` and in every
  method of `ListenSocket`.
- Other threads reach it by `queueInLoopThread` only: the mutex of
  `BlockQueue` and the eventfd are the only things two threads share, besides
  the table of descriptors of the process.
- A round of the loop (`EventLoop.cpp:30-46`) computes the timeout from the first timer,
  waits, calls `handleEvent` of each activated channel, runs the timers that
  have expired, then drains the pending tasks. Callbacks, timers and tasks call
  back into timers and channels from within the round.
- Every other thing that the process shares is static: the overflow array of
  `readFromFD`, the registry of spdlog, the counter of timer ids (which only the
  threads of loops that set timers touch).
- Destruction goes from the last member to the first: `WakeUp` closes its
  descriptor in the body of its destructor, and its channel leaves epoll
  after that.

## Modules and the code

    Executor <---refines--- PendingTasks --+----------> Reactor
                                           |               ^
                                           v               |
    AlarmClock <--refines-- TimerQueue --> EventLoop     Poller
                                           |
                                           v
                                         ClockSteps

    BufferMethods --> Buffer --refines--> ByteStream
                  --> SharedOverflow, HttpResponse

    ListenSocket   Server   Connections   InitLogger

Any other arrow says that a module is part of the one it points to.

`MC<Module>` gives the constants of a module their values for TLC;
`<Module>Proofs` holds its theorems: `ReactorProofs` those of PendingTasks
and Reactor, `EventLoopProofs` those of EventLoop and ClockSteps, `BufferProofs` those of Buffer,
SharedOverflow and HttpResponse, `ProcessProofs` those of Server and InitLogger, the two that are about
what the whole process has once.

**Executor** states what `queueInLoopThread` promises: the tasks of a thread run
once each and in order; nothing about tasks of different threads.

**PendingTasks** is how the promise is kept. Every method of `BlockQueue` holds
its mutex from the first to the last line, so each call is one step; each read
or write of the eventfd is one. A poster pushes (`QueueInLoopThread`), then
writes (`Signal`, only while the counter is not full: the write is retried on
`EAGAIN`). The loop polls (`PollWake`, or `PollOther` for a timeout and other
descriptors), reads the counter (`HandleEvents`), runs timers (`TimersDone`
here), then alternates `CheckPending`, `TryPop` and `RunTask`. `RunInline` is
`queueInLoopThread` called in the loop's own thread, which runs the task at
once. The history variables `asked` and `ran` are those of `Executor`.

**AlarmClock** states what timers promise: none before its time, a one-shot
once, a repeating one with at least its interval between two runs.

**TimerQueue** has the multiset, the batch, the id counter and the clock as
variables. `Request` is any of the three calls, made from outside or from the callback
that runs; `GetExpiredTimes` samples the clock and moves what is due into the
batch; `StartRun` starts the callback of the next one; `FinishRun` returns from
it, resets a repeating timer from the clock as it then is, and puts it back;
`FinishBatch` clears the batch. `Tick` moves the clock at any point in between. Time is
in ticks of the system clock and the interface counts milliseconds of
`TicksPerMs` ticks, so that the cut to milliseconds is a real division.

**EventLoop** instantiates `PendingTasks` and `TimerQueue` over one set of
variables and joins their steps in the order of the loop. It adds the timeout:
`LookAtClock` takes the first timer's time, treats the Epoch as "no timer", cuts
the rest of a millisecond off, narrows the 64-bit number to an int of
`TimeoutBits` bits, and treats a negative one as "no timeout" – each as the code and
`epoll_wait` do. `EnterWait` is the call, from which the timeout counts. The clock may tick
between the two, as between any two steps, and a round takes as long as it likes: callbacks of
channels and timers, tasks and all.

**Poller** has both sides of epoll: `channels_` and `event_` in the program,
`interest` in the kernel. `ADD` or `MOD` is chosen from `channels_`, as in
`update`. `Add` may fail though nothing is wrong with it, for the descriptors of `Refusable`: the channel is in `channels_` by
then, and `refused` remembers it. `Wait` reports any set of ready channels that fits the array, the
full array if there are enough, and doubles the array after a full one. `HandleEvent` and
`CallbacksReturn` are `handleEvent` with its order of callbacks; between them,
callbacks, timers and tasks may construct, enable, disable and destroy
channels: any channel, those of the batch and the one whose callback runs included. The code gives neither a check
nor a way to defer, since `tie()` is never used, so a pointer to one that is `gone` may be followed. The loop is at
`"undefined"` then and the model says no more of it.

**Reactor** extends `PendingTasks` with a `Poller`: the eventfd is ready when its
counter is above 0, the wake channel is one of the channels, `woken` follows
from what epoll reports, and the callback of the wake channel is the step that
reads the counter. Callbacks of the other channels, timers and tasks change
channels and hand over tasks. `ReactorSafeSpec` lets callbacks destroy what they like;
`ReactorSpec`, which the run checks, has the obligation `BatchKept`, that they destroy no channel their batch still
holds, because no promise about tasks survives undefined behaviour. `Refusable` has not the wake channel: the
constructor of `WakeUp` does not find out whether epoll took it, and a loop without it hears nobody. Posters know the loop once the constructor of
`WakeUp` is through. `PendingTasks` takes for granted that epoll
reports the eventfd when the loop waits for it; `TasksSpec`, which is its `Spec` with
the fairness, is the refinement that shows it.

**ClockSteps** adds to `EventLoop` that `system_clock` may be set, forward or back,
between any two steps (`SetClock`). What is left of an epoll timeout does not change with that. `ahead` is a
clock that follows but is never set back. `lag` counts what the clock went on from where the due timers were taken to the look before
the wait, up to a millisecond; `late` what it went on after the look without being counted by the timeout.

**ListenSocket** has the table of descriptors of the process, and one step per
system call of `accept`: accept4, close of the reserve, accept, close, open.
Other threads open and close descriptors between any two of them, or never
during `accept`: `threads` is chosen at the start.

**Server** makes and destroys what `main` makes, in every thread, over one table
of descriptors, with the constructors and destructors in the order of the
members. Calls whose result is looked at end in `std::terminate` when they
fail; those whose result is not looked at (`socket`, the reserve, `epoll_ctl`) go on
without a descriptor or a registration.
`loop` ends when a callback throws, as `stop_` is never set.

**ByteStream** states that bytes leave in the order they entered. **BufferMethods** has the
vector with its cells, the two positions, and `ensureCapacity`, `reformingBuffer`, `append`,
`readFromFD`, `retrieve…`, `findCRLF` and `findCRLFDouble` as operators on it; **Buffer** is one
buffer over its life. Cells outside the vector are
not written: where the C++ code would copy past the end (undefined behaviour),
the model shows the write position behind the end, and `Layout` fails.

**SharedOverflow** gives each thread a buffer of `BufferMethods`, and splits
`readFromFD` in two where it needs the static array: `ReadOver` (readv) and
`AppendOver`. Threads that overlap race for the cells which both write, a data race, so
`AppendOver` may find either's byte in each (`MayFind`). `atRisk` remembers the positions.

**HttpResponse** extends BufferMethods. It has the setters and `Serialization`: `AppendStatusLine`,
`AppendHeader` and `AppendResponse` fold `AppendTo` over the texts in the order of the code, the headers in any
order, as the hash table may have them. Texts are sequences of tokens; a status code, the version and the
separator of a header are one token each. Names, values and messages have no CR and names no separator
(`HttpResponseAssumption`): the code does not look, and HTTP could not tell. Values may have separators, and
bodies anything. The other end is
external: `ReadResponse` looks for the head with `findCRLFDouble`, splits it into
lines, and takes what follows for the body when the connection ends, as
HTTP does for a response without a length.

**Connections** has `TcpConnection` next to listeners in one loop. Whoever has
the descriptor closes it, before or after it destroys the connection; numbers
are reused, lowest first. `RemoveChannel` takes the entry for a number from `channels_`
and from epoll whoever it belongs to, as the destructor of `Channel` does.
The kernel may have no room for a registration (`refused`).

**InitLogger** has `GetUnitConversionValue` with the number of values (`SizeRange`) that `long` and
`size_t` have, and `initLogger` in steps, one for each time it touches what spdlog
shares: the pool of the registry, the logger, the default logger. `Throw` is
any of the calls in it that can throw. spdlog is external: a logger keeps a weak pointer to its
pool, and the registry lets go of the old one when it gets another. `made` and `own` are
history: the pool that a call has made, whichever its logger got. What a unit means (`Bytes`) is stated
apart from the code's table (`unitMap`), from the tests in `testing/convertTest.cpp` and the comment in `InitLogger.cpp:43`.

## Runs

| run | module, cfg | instance | what it shows |
|---|---|---|---|
| `reactor` | MCReactor, Reactor.cfg | 2 posters with 2 tasks each, eventfd full at 2, the wake channel and one other, an array of 1, epoll may refuse the other; 440 k states | no lost wake-up, no spinning read, `try_pop` finds what `empty` saw, order, posters get on; refines `Executor`, and the whole of `PendingTasks`, with their liveness |
| `timers` | MCTimerQueue, TimerQueue.cfg | 3 timers, 2 ticks per ms, clock 2..8; 1.8 M states | no timer lost or doubled, the assertion of `addTimer`, order of callbacks; refines `AlarmClock` |
| `loop` | MCClockSteps, ClockSteps.cfg | 1 poster, 2 timers, rounds of any length, the clock set once by 2 ticks either way; 584 k states | when a wait has a timeout and when it ends, every timer fires unless the timeout was lost, every task runs, intervals are kept |
| `buffer` | MCBuffer, Buffer.cfg | vector of 4, prefix 1, chunks up to 4, 12 bytes; 341 k states | layout, bounded size; refines `ByteStream` |
| `buffer_large_chunk` | MCBuffer, BufferLargeChunk.cfg | a chunk of 9 | **violates** `Layout`: see the finding |
| `poller` | MCPoller, Poller.cfg | 2 channels, one of which epoll may refuse, an array of 1; 512 k states | kernel and program agree but for what was refused, who leaves a dangling pointer, no starvation |
| `listen` | MCListenSocket, ListenSocket.cfg | 4 descriptors, other threads at any time or never during `accept`; 20.5 k states | closes only its own, forgets none; alone, the reserve is kept and connections leave the queue |
| `process` | MCProcess, Process.cfg | Server: 2 threads, 5 descriptors; InitLogger: 2 threads, 2 calls, a `size_t` of 256 values, a kilobyte of 4; thread symmetry; 679 k states | one loop per thread, no stale registration, no stolen number, no leak of eventfds and reserves; when the default logger writes, sizes are as meant |
| `shared_overflow` | MCSharedOverflow, SharedOverflow.cfg | 2 threads, vectors of 3, an array of 2, 6 bytes each, symmetry; 829 k states | counts and layout are right whatever happens; bytes mix only where both wrote |
| `http_response` | MCHttpResponse, HttpResponse.cfg | 2 responses, 2 codes, 2 headers, bodies with empty lines, a vector of 8; 128 k states | what is read is what was set, nothing stays in the buffer |
| `connections` | MCConnections, Connections.cfg | 2 connections, 2 listeners, 3 numbers, symmetry; 20.7 k states | no dangling pointer, who can go deaf |
| `logger_size_g` | MCInitLogger, InitLogger.cfg | InitLogger as in `process` | **violates** `GIsGigabytes`: see the finding |

`process` explores Server and InitLogger each with the other at rest: they have no variable in common.

Each cfg names its bounds. Why they are enough to see the interesting cases:

- *timers*: three timers allow one running, one in the batch and one in the
  queue, with equal times decided by ids; the delays 0 and 1, the past
  timestamp 0 and the interval 1 put new timers before, into and after the
  batch. The clock may pass several due times during one callback.
- *loop*: with two ticks per millisecond, a round of one tick leaves the
  timeout and one of two loses it, both of which happen. Times given by `runUntil` are left out
  here: a time that passed a millisecond ago or longer makes the timeout
  negative whatever the round takes. Timeouts stay within 3 bits. The step of the clock is a millisecond, so it makes a
  timer overdue by as much at once; it can fall into every phase of a round.
  The clock goes from 1 to 5, a timer may repeat until then. The bound keeps
  it from ending a wait past `MaxTime`: between the look and the call it ticks
  only as far as the wait still fits.
- *reactor*: a second poster is needed for the wake-up of one to be eaten with
  that of another; two tasks each for order; four of them fill the eventfd (2)
  while the loop has still to read it and leave a poster to wait for
  room; the array of one lets epoll prefer the other channel for ever.
- *buffer*: chunks as large as the vector force enlargement, smaller ones
  compaction, and the rest of a vector smaller than the chunk sends
  `readFromFD` through its second array. Twelve bytes let the stream pass
  through the vector several times.
- *poller*: an array of one makes epoll choose, and grow once. One channel has
  only a read callback, the other all three. Of one channel every addition may
  fail, of the other none.
- *listen*: the socket, the reserve, and two more descriptors: the table
  fills with one connection and one descriptor of another thread.
- *process*, Server: two servers need eight descriptors, there are five, so numbers are
  reused and every call that takes one fails somewhere. Symmetry of
  threads is sound here: no property is temporal and nothing orders threads.

- *shared_overflow*: arrivals of three bytes do not fit behind the write
  position of a new vector, so both threads go through the array, and the
  second time round an enlarged vector.
- *http_response*: each response is longer than the vector, which is compacted
  and enlarged under it.
- *connections*: four objects for three numbers: each number is reused by
  another kind of object.
- *process*, InitLogger, and *logger_size_g*: 256 values have −128, 127, 128 and 255 within reach of every unit;
  two calls are enough to overlap, to follow one another and for one to fail.

Every property of a passing run has a mutant: a plausible bug, listed in
`PROJECT.json`, under which TLC finds it violated. The variant of a definition
stands before it in the module, under a comment that starts with "Variant".

## Fairness and deadlock

- `PendingTasks`: weak fairness of the loop's own steps and of each poster's
  `Signal` (a thread that has pushed is scheduled again). No obligation to post, and
  none on a timeout or another descriptor to end the wait: the wake-up alone
  has to do it.
- `ClockSteps`, the specification of the whole loop: the same, and the clock
  moves. Between the look and the call the bound holds the clock, so `Tick` is enabled only now and then and
  needs strong fairness; real time does not stop for a loop. A wait with a timeout
  ends by it (`PollTimeout` is a step of the loop). Nothing is assumed of other descriptors, so a wait
  that lost its timeout may last for ever: `TimerFires` excepts it, and `TasksRun` shows that
  the eventfd ends it for a task. Nothing is assumed of the clock being set.
- `Poller`: callbacks, timers and tasks return, and the loop goes on. Which of
  the ready channels epoll reports is left entirely open.
- `ListenSocket`: the loop's thread runs and the poller reports a socket that
  has connections; what `Poller` shows of `ReadServed` justifies it.
- `Reactor`: the loop's thread and `Signal` are scheduled. The wait ends of
  itself only when epoll has something to report (`Wait /\ Poll!Reportable # {}` in
  `ReactorStep`); which descriptor it prefers is open, and so is whether it
  returns for any other reason.
- The remaining specifications are safety only.

Deadlock is checked in every run but these, which do stop: `timers`, when the
clock and the ids have reached their bounds; `buffer` and
`buffer_large_chunk`, when the stream has reached its length;
`shared_overflow`, when both streams have and were taken; `process`, after
`std::terminate` and when all calls of `initLogger` were made; `logger_size_g`, likewise.

## Proofs

All theorems hold for every value of the constants under the named assumptions
in the modules (`PendingTasksAssumption`, …): that bounds are naturals, that
model values differ, that a set of threads or channels is finite where things are counted. The
premises about the constants that the code does not state are `ChunksFit`, `ArrivalsFit`, `TextsFit` and
`Fits`, below; the instances of the passing runs satisfy them. No theorem bounds the number of threads, timers,
channels, descriptors, responses or headers.

- **ReactorProofs**, first part, about PendingTasks. `Waking` is the conjunction of `NoLostWakeup`,
  `WakeReadNeverSpins` and `PopFindsTask`, which is inductive together with
  the type invariant: the loop comes to its wait only when `empty` said yes,
  and whoever pushes after that has still to signal. `OrderInv` adds `Owed` to
  `InOrderOnce`: the tasks of a thread that are still to run – the one in
  `task`, then those in the queue – are its numbers after `ran` up to `asked`,
  in order and each once. `InOrderOnce` is not inductive without it.
  `ImplementsExecutor` maps every step to a step of `Executor` or a stutter.
- **ReactorProofs**, second part, about the loop with its poller. PendingTasks takes for granted that
  epoll reports the eventfd just when its counter is above 0. `Coupled` says what that hangs on: both
  modules wait at the same time; when the loop has left its constructor, the wake channel is in `channels_`, and its
  `event_` asks for reading, whatever users of channels do. It is inductive, and with it each step
  of the reactor is a step of `PendingTasks` or a stutter (`KeepsTasks`), and one of `Poller` or a
  stutter (`KeepsChannels`). So what is proved of either is true of both together
  (`ReactorTasksSafe`, `ReactorChannelsSafe`, `ReactorImplementsExecutor`), also when callbacks destroy channels of
  their batch: the loop goes no further in the model when it follows a pointer to one. `KeepingIsSafe` carries it over to `ReactorSpec`, in which they do not. `WakeHeardHolds` needs the two at
  once: `NoLostWakeup` puts the counter above 0, and `InterestCurrent` of `Poller` puts the eventfd into the kernel's list.
- **TimerQueueProofs.** `TimerInv` adds to `EachHeldOnce` where each timer may
  be (`Placed`), what is known of its next time compared with the alarm's
  (`Promise`), and that the batch precedes the queue as far as it was sampled
  (`BatchFirst`). From it `AddTimerAssertion`, `EarliestFirst` and the
  refinement of `AlarmClock`.
- **BufferProofs.** Under `ChunksFit` – no chunk larger than the vector's first
  size, an assumption the code does not state and needs – `BufferInv` says that the
  unread bytes are those written and not taken. Lemmas give what compaction,
  enlargement, `append`, `readFromFD` and `retrieve` return; the theorems are
  `LayoutHolds`, `BoundedSizeHolds` and `ImplementsByteStream`.
- **BufferProofs**, the static array. The same lemmas, applied to the buffer of each thread, prove
  `BuffersApartHolds`, under `ArrivalsFit`: no arrival is larger than the vector's first size. `OverflowInv`
  says of each thread (`Sound`) that its buffer is well formed and that what it took out, what is unread and what lies in the
  array for it follow one another as its peer sent them (`Agrees`), except for bytes of the first two at positions that were at risk.
  That the bytes in the array keep their places in the stream until `append` has them is what `OnlyOverlapsMix` needs and
  does not say; `Risks` are the positions at which another may be found then.
- **BufferProofs**, responses. `ResponsesGetThroughHolds` has the premise `TextsFit`: no message, name, value or body
  is larger than the vector's first size, nor is a line end. That is `ChunksFit` for each single `append`; a response of
  many texts may be far larger. `ReadAsSent` and `NothingLeft` say nothing of what lies in the buffer between a
  `Serialization` and the `ReadResponse` that takes it, so they are not inductive. `ResponseInv` adds `InTransit`: what is unread is cut into slices,
  one for each response that was sent and not yet read, and each slice is a text of that response (`IsText`): a head, an
  empty line and the body, where a head (`IsHead`) has the status line first and the header lines in any order; and
  `BodyComesLast`: only what was sent last can have a body.
  The argument has four parts. *Folds*: `FoldLeft` runs through all the buffers there are between two
  pieces (`FoldAppendTo`, `FoldAppendHeader`). *Lines*: a line without CR that is added to a text adds that
  line and nothing else to its lines (`AddedLine`), so that the head says what was set (`HeadParses`). *Ends*: in a text without an
  empty line there is no end of a head before the one that follows it, also where a
  line end of the head meets a body that begins with one (`HeadFound`). *Slices*: `Serialization` adds one
  (`TextAppended`, `SliceAdded`), `ReadResponse` takes the first (`FirstHead`).
  Where this needs an induction, over the texts of a response or the headers of a head, the predicate is a set of
  numbers (`SetInduction`, from the well-foundedness of the naturals).
- **PollerProofs.** `PollerInv` is the conjunction of the properties and
  `Between`: outside of the dispatch no channel is left to handle, and between
  callbacks none is current; and `RefusedIsRegistered`: what epoll refused to add is in `channels_` all the same, which is why
  every later change of it is a `MOD` that fails. Nothing is assumed of what callbacks destroy.
- **ListenSocketProofs.** `SocketInv` ties the number in `idlefd_` to the step
  that `accept` is at. `ReserveKeptHolds` needs in addition that, with no
  other thread in between, there is room to open the reserve again.
- **ProcessProofs**, Server. `ServerInv` adds `Claimed`, which relates `local_thread_id_` to
  how far a thread has come, and `EpollsKept`, which says when a thread has an epoll instance that is not of its present loop;
  `OneLoopPerThreadHolds` needs both. The invariant shows among other things that it does no harm that
  `WakeUp` closes its number before its channel removes it from epoll: the kernel
  drops the registration at the close, and should another thread get the
  number, it is not registered with *this* epoll instance when the later
  `EPOLL_CTL_DEL` names it.
- **ProcessProofs**, InitLogger. `LoggerInv` is inductive. `MadeBefore` says that a call whose pool is still the last one has a
  logger with that pool, and so does what it sets: between the two the registry can only have got a later one. `LimitsFollow`
  says that a limit goes with the size it was made from, up to the default logger. `DefaultLoggerWritesHolds` and
  `SizeAsMeantHolds` follow, for any sizes, units and number of calls, in whatever order they overlap, throw or follow one
  another. They assume that 1G fits a `size_t`. `GIsGigabytes` is false, so nothing is proved of it.
- **EventLoopProofs.** `KeepsComponents`: each step of the loop is a step of
  `PendingTasks` or a stutter, and of `TimerQueue` or a stutter, so that what is
  proved of them is true of the loop, type correctness first.
  `LoopImplementsAlarmClock` carries the refinement of the timers over; that of the tasks follows from `KeepsComponents`
  and `ImplementsExecutor`. `KeepsTasksWhenSet` says that none of this, as far as tasks are concerned, depends on the clock.
  `IntervalsKeptHolds` is about clocks that are set by any steps and loops however slow. Its
  invariant `Apart` relates a queued timer to its last run: the expiration lies
  a whole interval behind the run, both read on `ahead`, the clock as it would
  be had it been set forward only.
  `LateByTheStepHolds` has the premise `Fits`: no absolute times are given, the clock is past the Epoch, and delays fit the
  int that `epoll_wait` takes, together with all that the clock may be set back meanwhile
  (`FitsWith`; nothing if it is only set forward). It says nothing of how long a round takes: that the round took less than a
  millisecond is in the property itself, of the wait at hand (`lag < TicksPerMs`). `LoopInv` is inductive: `Fresh` says that
  from the sample of the clock until the look before the wait no timer is overdue by more than `lag`, which the look needs to compute 0
  and not a negative timeout; `TimeoutIsSoon`, that the timeout from then on covers the first timer but for `late`;
  `AllSoon` keeps every timer within the horizon of the int, less the `Room` for steps back that may
  still come. A step of the clock, in either direction and at any point, keeps it. That the ordered set has a first element is
  shown from the well-foundedness of the naturals (`FirstIsFirst`).
- **ConnectionsProofs.** `Entered` says that `channels_` has only channels that
  live and own the number, and that epoll has nothing which `channels_` has
  not; `Owned` that who owns a number has it open. So a number that the kernel
  gives away has neither entry nor registration left (`FreeNumber`), which is
  what `PointersLead` and `HeardUnlessOutlived` hang on.

The type invariants of `TimerQueue`, `EventLoop`, `ListenSocket`, `Server` and
`Connections` are proved and in no run; `InitLogger` has none of its own, `LoggerDomains` is part of its invariant.

Every invariant and every action property of the passing runs is a theorem. Only model-checked is what needs fairness, which is
beyond the prover: `SignalReturns` and the liveness part of `ExecutorSpec` and `TasksSpec` in
`reactor` (their safety part is `ReactorImplementsExecutor` and `KeepsTasks`), `TimerFires` and the liveness part of `TasksRun` in
`loop`, `ReadServed` in `poller`, `ConnectionsTaken` in `listen`.

## What the checks found

`buffer_large_chunk` is a disagreement of the code with its comment. The picture
in `Buffer.hpp:87-90` has the write position before the end of the vector;
`Buffer.cpp:50-54` computes the number of *missing* bytes and resizes the vector to the
maximum of that and twice the size. A chunk much larger than the vector (1985
bytes and more in a new default buffer) is then copied behind its end.

`logger_size_g` is a disagreement about sizes. `InitLogger.cpp:43` calls 1024 · 1024 · 1024
bytes "default 1G", and `settings.json:7` asks for `"1G"`, but `unitMap` knows GB and not G
(`ReadSetting.cpp:27-29`), and a unit that it does not know counts as MB (`ReadSetting.cpp:42-43`): the
log is limited to 1 MB.

Observations that no line of the repository contradicts, so that no run is about them:

- A timer that is due for a millisecond or more when the loop gets to its wait
  gives a negative timeout, which epoll takes for "none": the timer fires only
  when something else wakes the loop. `LateByTheStep` says that this takes a round of a millisecond or more, and `TimeoutLost` is reached in
  the run: one such round is enough.
- A timer at the Epoch (`runUntil(cb, 0)`) is taken for "no timer".
- `setErrorCallback` sets `writecb_`; no channel ever has an error callback.
- A thread that has destroyed its loop cannot make another: `local_thread_id_`
  is never reset. `Server` has this as it is.
- Neither sockets nor epoll instances are closed; `NoDescriptorLeak` says of which
  descriptors this is not true.
- With other threads opening descriptors during `accept`, the reserve can be
  lost for good: `ReserveKept` and `ConnectionsTaken` are about an `accept` without.
- A callback that throws leaves `expirationTimers_` uncleared.
- A clock that is set forward by a millisecond or more between the due timers and the look before the wait is a slow round to
  the code: the timeout may be lost. Set forward after that look, the loop is late by the step (`late`).
- A channel that epoll refused to add stays in `channels_`, and every later `enable…` is a `MOD` that
  fails: it hears nothing until it is destroyed (`refused`). The failure is only logged. If that is the channel of
  `WakeUp`, the loop is never woken.
- A callback that destroys a channel which epoll reported in the same batch leaves the loop with a
  pointer to it (`gone`): nothing in `Channel.cpp:51-55` or `EventLoop.cpp:39-41` would notice.
- Two loops that read more than fits their buffers at the same time may mix
  bytes of the two streams (`atRisk`); the number of bytes and the layout stay right.
- A connection that is destroyed after its descriptor was closed takes the
  channel that has the number by then out of epoll (`outlived`).
- `isNoblocking_` is never initialized when a `Socket` takes a descriptor: `setNoblocking` may do nothing. It
  does no harm to sockets that come from `accept4`; any other descriptor may stay blocking.
- `inited_` is never set, so each call of `initLogger` makes a new pool; calls that
  overlap, or one that throws half way, can leave a default logger that drops what it is given.
- A size with a number of −1 throws; other negative or large ones wrap round.
- `InetAddr.cpp:48` takes `substr(0, lastColon - 1)`: an IPv4 host loses its last
  character when it comes with a port in one text. A text that is no address leaves
  the memory as it was, as `inet_pton` answers 0 and only −1 is looked for (`InetAddr.cpp:27`).
- `InitLogger.cpp` asks for one key and `settings.json` has another for the
  time between flushes (`flush_every_ms`, `flush_every_s`).
- A response has no `Content-Length`: after a body only the end of
  the connection can follow (`closed`).

## Not modelled, and why

- **Connections**: `TcpConnection` declares methods that are nowhere defined,
  and `state_` stays `Connecting`; its constructor and destructor are in `Connections`. What
  `setNoblocking` does is not: its one effect is a flag of the kernel, on which no state that is modelled depends.
- **HTTP requests**: left out of the build (`src/CMakeLists.txt:25-26`);
  `HttpRequest` writes through a pointer to const, so it does not compile, and
  the parsers of its lines answer `Done` without a look.
- **Addresses**: `InetAddr` is a value. Its constructors convert a text or a number
  once, and `bind` hands the result to the kernel; no state of another part depends on it. The
  observations above show on reading.
- **Formatting and files**: `parserSetting` reads a file and keeps nothing.
- **Logging, error text, aliases, tests**: no state.
- Within modelled components: `BlockQueue::pop` (never instantiated, would not
  compile), `TimerQueue::cancel`, `Timer::isExpired` and `tie()` (no caller),
  a callback that throws inside the batch (nothing in the repository calls `loop` again
  after one), the assertion of `retrieveUtil`
  on an empty line (no caller).
- The memory order of C++ and the internals of the kernel: a system call
  is one atomic step with the effect its manual gives.

## Plan

Built, in this order: PendingTasks against Executor; TimerQueue against
AlarmClock; EventLoop composing both; Buffer against ByteStream; Poller;
ListenSocket; Server; the proofs of each; then Reactor, SharedOverflow, ClockSteps,
HttpResponse, InitLogger, Connections; the proofs about EventLoop and Connections.

After those the theorems about Reactor, SharedOverflow and InitLogger, LateByTheStep under a clock that is set back,
and the theorem about HttpResponse; then registrations that fail, callbacks that destroy any channel, rounds of any length.

Left, the most important first:

1. Callbacks that throw in `execExpiredTimesTask`, once something catches them and goes on.
2. HttpRequest and the methods of TcpConnection, once they are written.

The open hazards in `PROJECT.json` (those without a property) each say why
none is about them.
