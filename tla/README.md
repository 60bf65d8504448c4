# Dart: isolates, ports, timers, futures, streams and the old space

A verification project for the Dart repository (`src/dart`). It models the part of
the VM where several threads meet (the thread pool that runs isolates, the event
loop and control messages of an isolate, the table of ports, the locks between
them, the interrupts that reach running Dart code, the event handler, the heap's
concurrent sweeper) and the part of the libraries where callbacks call back
(timers, futures and microtasks, stream controllers). TLC checks the models on
small instances; TLAPS proves the central invariants for every instance.

All paths below are relative to `src/dart/runtime/vm` unless they say otherwise.

## 1. Inventory

| Component | State | Operations | Hard behaviour |
|---|---|---|---|
| Thread pool (`thread_pool.cc`) | lists of all and of idle workers, statistics; per worker `pool_`, `task_` | `Run`, the worker loop, idle timeout, destructor | two kinds of locks, released between choosing a worker and giving it the task; timeouts and the destructor in between |
| Message queue (`message.cc`) | linked list | `Enqueue`, `Dequeue`, `Clear` | control messages are spliced in before events; `Clear` posts to failure ports |
| Event loop (`message_handler.cc`, `isolate.cc`) | two queues, `pool_`, `task_`, pause flags and counter, capabilities, listeners | `Run`, `PostMessage`, `TaskCallback`, `HandleMessages`, ten control messages, shutdown | posts from every thread at any time; messages handled inside Dart code; several ways to end |
| Port map (`port.cc`) | open-addressing table, `used_`, `deleted_` | `CreatePort`, `SetPortState`, `ClosePort`, `ClosePorts`, `PostMessage`, lookups | probes through deleted slots, growth, rehashing in place |
| Native ports (`native_message_handler.cc`, `native_api_impl.cc`) | one handler per port | create, close, call the C callback | owned by the port map |
| Locks | `PortMap::mutex_`, `monitor_` of every handler | all of the above | two lock orders |
| Interrupts (`isolate.cc`, `dart_entry.cc`) | `stack_limit_`, `saved_stack_limit_` | `SetStackLimit`, `ClearStackLimit`, `ScheduleInterrupts`, `GetAndClearInterrupts` | "is an interrupt pending?" is inferred from two words |
| Timers (`runtime/lib/timer_impl.dart`) | heap and zero-timer list of an isolate, `_scheduledWakeupTime`, the port | create, cancel, handle an event, run a batch | callbacks create and cancel timers while a batch runs; notifications are suppressed meanwhile; stale events |
| Event handler (`runtime/bin/eventhandler*.cc`) | pipe, `TimeoutQueue`, one timerfd for all isolates | take a message, expire | the timerfd is disarmed by expiring |
| Futures and microtasks (`sdk/lib/async/future_impl.dart`, `schedule_microtask.dart`) | state and listeners of each future, the microtask queue | complete, chain, listen, `timeout()` | callbacks complete and listen in the middle of propagation; late errors |
| Stream controllers (`sdk/lib/async/stream_controller.dart`, `stream_impl.dart`) | controller state, subscription bits, pending events | add, close, listen, pause, resume, cancel | every operation may be called in every callback |
| Old space and sweeper (`pages.cc`, `gc_sweeper.cc`, `heap.cc`) | pages, free list, mark bits, `tasks_` | allocate, collect, sweep in the background, `ForwardList`, destroy | the mutator allocates while the sweeper frees blocks and pages |
| Store buffer, scavenger (`store_buffer.cc`, `scavenger.cc`) | remembered set, semispaces | remember, promote | a graph algorithm on raw memory |
| Thread interrupter, profiler | table of threads, wait time | register, sleep, shut down | signals, deep sleep |
| VM service and debugger (`service.cc`, `service_isolate.cc`, `debugger.cc`) | event streams, breakpoints | requests, pause events | runs on the isolate's own thread |
| Compilers, snapshots, analyzer, dart:io, tools | | | not concurrent at their core, or pure I/O |

How they interact. A thread calls `PortMap::PostMessage`; under `mutex_` it finds
the handler and, inside, takes its `monitor_`, enqueues the message and, if the
handler has no task, gives one to the thread pool; then it interrupts the isolate
if the message is out of band. A pool thread runs `TaskCallback`, which owns
`monitor_` except while a message or the start callback runs. A stack check in
Dart code finds the interrupt and handles the out-of-band messages there. When
the isolate ends, the same thread notifies the listeners, takes the handler off
the port map, clears its queues and deletes it. Timers ask the event handler, over
a pipe, for one wakeup per isolate and get it as a message to their port; a zero
timer posts that message to itself. Futures and streams run their callbacks in the
messages of their isolate and in the microtasks behind each. Old space is shared
between the isolate's thread and a sweeper task of the thread pool.

What makes it correct. No accepted task or message is lost, none is handled
twice; an isolate is run by one thread at a time; nobody uses a worker, pool or
handler that is deleted; control messages come before events and pauses are
counted exactly; a kill reaches every isolate; the table finds what was put into
it and every probe ends; no lock cycle; no interrupt is forgotten. Timers that are
due run, in order, and no event is left for a timer that is not there; a future
completes once and calls its listeners in order; a listener sees the events of a
stream in order, none while it is paused or after it has canceled, and its source
knows whether it is paused; no object that is reachable is swept, and no operation
on the heap waits for ever.

## 2. Modules

| Module | Models | Notes |
|---|---|---|
| `TaskPool` | what the pool promises | each task is refused, or accepted and executed once |
| `ThreadPool` | `thread_pool.{h,cc}` | one action per critical section; shown to implement `TaskPool` |
| `MessageQueue` | `message.cc` | operators on sequences |
| `IsolateMessageHandler` | `message_handler.cc`, the loop parts of `isolate.cc`, `_startIsolate` in `runtime/lib/isolate_patch.dart`, `Resume` in `service.cc` | one isolate, any threads |
| `PortDirectory` | what the port map promises | a function from ports to handlers |
| `PortMap` | `port.{h,cc}` and the ownership of native handlers | shown to implement `PortDirectory` |
| `MessagePosting` | the port map, handlers and pause events together, at the level of locks | composes the two modules above, with their data reduced to what decides who waits |
| `IsolateInterrupts` | stack limits and interrupt bits | |
| `EventHandler` | the timer side of `runtime/bin/eventhandler.{h,cc}`, `eventhandler_linux.cc` | state and steps, composed by `Timers` |
| `TimerHeap` | `_TimerHeap` | operators on sequences |
| `Timers` | `runtime/lib/timer_impl.dart` | one isolate beside the event handler and the clock |
| `Futures` | `future_impl.dart`, `schedule_microtask.dart` | one isolate, nested calls on a stack |
| `Streams` | `stream_controller.dart`, `stream_impl.dart` | one controller and its subscription |
| `OldSpace` | `pages.cc`, `gc_sweeper.cc`, `AllocateOld` and `CollectGarbage` of `heap.cc` | the mutator beside a sweeper task |
| `...Proofs` | theorems about the modules they extend (`IsolateProofs`: `IsolateMessageHandler` and `IsolateInterrupts`) | |
| `MC...` and `.cfg` | instances for TLC | |

### ThreadPool
`pool[w]` and `task[w]` are the worker's `pool_ != NULL` and `task_`; `loop[w]` is
its place in `Worker::Loop`; `call[t]` is the place of the `Run` call for task
`t`. `Run` is two or three actions, because `mutex_` is released before `SetTask`
and before the thread is started. `Wake` is one turn of the inner loop after
`Wait`, for each of its results. A worker is never allocated twice. The
environment does not destroy the pool while a `Run` call that was accepted is
still inside. The VM never destroys its pool (the `delete` in `Dart::Cleanup` is inside
`#if 0`, `dart.cc:196`); `thread_pool_test.cc` does, when its `Run` calls have returned.

### IsolateMessageHandler
`pc[t]` is the place of a thread in `TaskCallback`, the start callback, an event or
the end callback. Control messages carry a kind, an argument, a priority and
whether their capability is the right one. Handling one is a single action, since
it touches only state of the isolate's own thread and `queue_`. An event is two
actions, with the interrupt's handling in between. `live_ports` is a set; its size
is `live_ports_`. `ready` is the moment when the capabilities leave the isolate:
nobody but the service can send it control messages before. Whether the isolate
is spawned paused is a choice of `StartCallbackBegins`. `replies`, `notices`,
`killed`, `urgent` and `lastEvent` are history variables for properties.
`HandleNextMessage`, for embedders that drive the loop themselves, is not an action.

### PortMap
Every operation holds `mutex_` to its end, so it is one action. A probe is the
first slot, counted from the hash, at which the loop of the code stops; `-1`
stands for a loop that does not end. `Rehashed` is a recursive function over the
old slots. `gone` is the set of deleted handlers. Control ports are not counted in
`live_ports_`, as in `SetPortState`. The constructor of
`NativeMessageHandler` counts one live port: `Init`.

### MessagePosting
The thread that runs handler `h` is called `h`, which `OneThreadRunsIsolate`
justifies. `dst` and `back` are the arguments of the `PostMessage` call that a
thread is in. A lock that is taken and given up with nothing in between that can
wait is one action, enabled when the lock is free. `Holds` says whether the
service holds isolates at start or exit; each is announced once.

### IsolateInterrupts
A stack limit is a real limit or `~0` without the pending bits, so a word is a
record of the limit's upper part and the set of its low bits. `Mask` is
`kInterruptsMask`, `Sources` the bits that are requested: all three, by the embedder or
the service, for a message, and for a full store buffer, the last by the isolate itself
only. `Init` is the state after `Isolate::Init`, when the creating thread's limit is set.

### EventHandler, TimerHeap, Timers
A timer's fields are kept in `timer` while it is queued or its callback runs. The
heap is the sequence of the used entries of `_list`. A loop of the heap's code is
`Rounds` of a function, one round of the loop: `UpStep`, `DownStep`, `PopStep`; as many
rounds as the heap has entries are enough, since a round that finds nothing to do
changes nothing. `LastWord` and `ActedOn` say what the event handler will learn, or has
learned, from the isolate. `phase` is the place of the
isolate's thread: idle, at the head of the loop of `_runTimers`, in a callback, in
its microtasks. Handling a message takes the batch in one action and runs it one
timer at a time, and the program may create and cancel timers at each of the places
where its code can run. The event handler takes one message of the pipe, or one
expiry, per action. `ID_MASK` is small so that identifiers wrap. `Ended` are ports of
isolates that ended with a timeout outstanding (`InitAfterEnd`). If `NonFatal`, a
callback that throws loses the rest of the batch; otherwise the isolate stops.

### Futures
A call of `_propagateToListeners` is an entry of `stack`; a callback of the program
runs in the top one, when `user` is set, and whatever it does happens above it.
`FirstOfSeveral` is the recursive call that serves all listeners but the last, the
loop of the code is `Become`. Microtasks are records of what their closure does.
`priority` is the number of priority callbacks at the front of the queue. The code
that listens for `timeout()` and for a future that a `whenComplete` action returns is
modelled by its effect, `ServeInternal`. `onTimeout()` is a callback of the program in a
stack entry of its own, without a source (0): it runs when the timer is no longer active
and the result not yet complete, it may complete any future, and what it returns, a
future included, or throws completes the result (`TimerFires`, `CallbackReturns`). An
uncaught error ends the isolate (`dead`) or, if errors are not fatal, only the event or
the microtask loop (`stalled`): what is left in the queue runs after the next message
(`NextEvent`). A future of another class, and zones other than the root, are left out.

### Streams
`s` holds the bits of `_state`; `running` is the callback that runs, with the
`wasInputPaused` that its caller keeps on the stack. Every operation may happen in
every callback. `pending` is the queue of events, before there is a listener the
controller's, after that the subscription's. `scheduled` is the state of its
microtask. `added`, `delivered`, `toldPaused` and `over` are history variables; `over`
distinguishes a `cancel()` of the listener (`canceled`), one that it calls in the
`onCancel` of the done event (`canceledWithin`), and the last event (`ended`). The done
future of the controller is left out: no property depends on it.

### OldSpace
A page is a row of slots, an object one slot. The free list is a set, since its order
is of no concern, and a step of the sweeper adds one block to it under the lock.
`TryAllocate` is two steps, because the lock of the free list is given up before the
capacity is looked at. `mutator.at` is the place in `AllocateOld`, a collection,
`ForwardList` or the destructor, `then` where the collection returns to. Marking is
one action: it marks what is live. What the growth policy says is open, and so is
whether the operating system has memory for another page (`Refused`).

## 3. Runs

| Run | Bounds | Distinct states | Shows |
|---|---|---|---|
| `pool` | 3 tasks, 3 workers, timeouts | 26 042 | statistics and lists, no use of a worker or pool that is deleted, refinement of `TaskPool`; every accepted task is executed and the destructor ends every worker |
| `loop` | 2 threads, 3 posts of 17 kinds, held at start and exit or not | 585 716 | one thread runs the isolate, nothing is stranded, pauses are counted, control before events, events in order, an obeyed kill is final; exit listeners are always told, and last; a kill ends the isolate, an isolate without ports goes away |
| `port_table` | 5 colliding ports, 1 isolate, 1 native handler, 4 slots growing to 8 | 6 561 | probes end, counters are exact, lookups are those of `PortDirectory` |
| `posting_locks` | 1 isolate and the service, 2 more threads, 3 calls, redirects, holds | 359 921 | no use after deletion, no lock cycle but the one of pause events, posts return |
| `timers` | 2 timers of 3 kinds, 2 ports, pipe for 1 message, 4 milliseconds; heaps of up to 6 timers | 237 008 | heap operations, the event handler knows the next wakeup, zero timers match their events, batches are due and in order, due timers run |
| `futures` | 2 completers, 4 futures, all kinds of listeners, errors fatal or not | 631 510 | one completion is under way for each future, listeners in order, results are final, an asynchronous completion happens |
| `streams` | 4 events and the end, 2 pauses, synchronous or not | 80 088 | events are kept in order, the controller is told, no event that is not wanted (with one exception), a closed stream ends |
| `sweep` | 3 pages of 2 slots | 1 486 814 | live objects survive, the page list is whole, `tasks_` covers all work, operations end |

Four more instances, `pause_deadlock`, `interrupts`, `timers_after_isolate_end` and
`done_after_cancel`, show what the code does against what it says; they are listed under
Findings.

Why the bounds are enough. Two `Run` calls and a timeout that meet need two tasks
and one worker, a third of each gives a bystander; the safety properties are
proved for any number. Two pool threads are one more than may ever run the isolate.
Three posts allow pause, event and resume, pause, event and kill, and every repetition of
two, in every order and at every place of the loop, and the safety properties are proved
for any number. A behaviour of `loop` has one of two kinds of messages, those of pauses,
pings and kills or those of listeners, errors and holds, with pauses and kills in both. Five ports in four slots give collisions, chains through deleted slots,
reuse of a deleted slot, growth and a flush in place. A timer that becomes first while
another runs, a stale timeout and a zero timer among timers of the heap need two
timers; the heap's branches need six, so its operations are checked apart, on every
heap of up to six timers, and proved for every heap. Four futures are a completer, one that is chained to it and
two listeners, or a listener of a listener. Four events leave some behind in every
place a pause or cancel can interrupt, and two pauses distinguish counting from a
flag. All three interrupt bits exist, so `interrupts` is the whole of it. Three pages are one that is swept, one that is freed and one that is added
behind the last. For the locks two threads that
run handlers and two that post contain every pair of places a cycle may have.

Symmetry is not used: most runs check liveness.
Deadlock is not checked where the system may stop: after the last post, after the
destructor, for an isolate that is gone, at the last millisecond, and when a stream or
the heap is done. `port_table` checks it.

Fairness. `ThreadPool`: a thread that can go on does, tasks return, a notified
waiter wakes up; no timeout and no spurious wakeup is owed, so that the liveness
properties do not lean on them. `IsolateMessageHandler`: a task that the pool
accepted is run (this is `AcceptedTaskIsExecuted`), and a thread in the loop goes
on; Dart code polls interrupts at stack checks, but whether an event handler
returns is not assumed: `KillEndsIsolate` holds without, `PortlessIsolateExits` says
so in its premise `DartReturns`. `MessagePosting`: threads outside Dart code go on.
`Timers`: the isolate's thread goes on and callbacks return, the event handler's thread
goes on, and the clock ticks; no program owes a timer. `Futures` and `Streams`:
callbacks return, microtasks run, and the future that `onCancel` returns completes, as
`StreamEnds` needs it; nobody owes an event or a call. After an error that is not fatal the
microtasks wait for another message, which is not assumed either: `AsyncCompletionHappens`
says so in its premise. `OldSpace`: an operation that was
entered goes on, and the thread pool runs the task it accepted (again
`AcceptedTaskIsExecuted`); the program owes nothing.

## 4. Proofs

All theorems hold for every value of the constants that satisfies the `ASSUME` of
the module. Each is `Spec => []P`, or an action property, by an inductive invariant.

* `ThreadPoolProofs`: `TypeOK`, `WorkerAccounting`, `NoDanglingWorker`,
  `PoolOutlivesWorkers`, `TargetIsFree`, `NoUseAfterFree`, and the refinement of `TaskPool`. The
  invariant ties each worker's place in its loop to the lists it can be in, to
  `pool_` and `task_`, and to the one `Run` call that may own it. Without the last
  part the properties are not inductive: a `Run` call in the gap between its two
  locks looks like one whose worker may have left. A second layer counts the lists.
* `IsolateProofs`, the loop: `OneThreadRunsIsolate`, `PauseCountsCapabilities`,
  `NoMessageStranded`, `IdleIsolateHasPorts`, `ExitIsAnnounced`, `ExitNoticeIsLast`.
  `TaskInv` says that `task_` is set from the request of a task to the end of
  `TaskCallback`, and that past it `pool_` is gone; `PauseInv` needs the history of
  the start: an isolate spawned paused enters its own capability, which counts only
  because nobody can have sent it before.
* `MessagePostingProofs`: `NoUseAfterDelete` and `NoLockCycle`. A handler in the
  hands of a post is in the table, since only the owner of `mutex_` takes it off. A
  thread that waits for `mutex_` while it owns its `monitor_` announces a pause, or
  clears the queue of a handler that is off the table, which no post can find.
* `IsolateProofs`, the interrupts, for all interrupt sources. `LimitIsInForce`, that code
  which nobody interrupts runs under the real limit, holds without a condition.
  `RequestsAreKept` does not hold (see Findings); what is proved is that it holds in every
  behaviour in which not all bits of the mask are asked for while nobody runs the isolate
  (`AllAskedOutside`), so this is the only way in which a request is lost. `LimitInv` says
  that the saved limit is a real one or `~0`, the latter only outside, and that the two
  words differ only when an interrupt is pending, whose bits were asked for.
* `StreamsProofs`: `EventsKept`, `ControllerIsTold` and the action property
  `EventsOnlyWhenWanted`, for any number of events and pauses. `ControllerIsTold` is not
  inductive: while a callback runs the source may know less than the flags say. `Told`
  adds that the `wasInputPaused` that the callback's caller remembers is what the source
  was told last, so the loop of `_checkState` finds the difference. `Queued` says that
  events that wait are known to wait, without which a synchronous controller would
  overtake them; `Wanted` that a microtask which will deliver belongs to a listener that
  is neither paused nor canceled. `EventsOnlyWhenWanted` makes the exception that
  `done_after_cancel` shows, and no other: a `cancel()` after that one, before the event,
  is respected.
* `OldSpaceProofs`: `LiveObjectsSurvive`, `TasksCoverWork` and `PageListIsWhole`, for any
  number of pages and slots and any allocations beside the sweeper. `TaskInv` gives each
  unit of `tasks_` to the collector, the sweeper or a `ForwardList`. `SweepInv` lays the
  linked list out as a sequence and says that the sweeper still has to do the pages from
  one position to another of it (`SweeperPosition`), that in what it has not looked at the
  mark bits tell exactly what is live and nothing is free, and that behind it no mark is
  left (`MarksAreRight`). The properties alone are not inductive: nothing in them says
  that the page a sweeper unlinks follows the page it remembers as the one before, nor
  that an object which is allocated during the sweep lies behind the sweeper.
* `PortMapProofs`: `ProbesEnd`, `LivePortsAreCounted` and the refinement of
  `PortDirectory`, for any port numbers, however they collide, and any history of growth
  and of rehashing in place. `Table` says that no free slot is between the hash of a port
  and its slot; `SpaceInv` what `MaintainInvariants()` maintains, from which a free slot
  exists and every probe ends; `HandlersInv` counts the live ports and keeps handlers that
  are gone off the table. Each operation is first shown to change the content of the table
  (a set of entries, wherever they are) as it should; the refinement follows step by step.
* `IsolateProofs`, the queues: `ControlBeforeEvents`, `EventsInOrder` and
  `KillIsFinal`. `OrderInv` says that only delayed pings and kills get into `queue_`, that
  none of them that is urgent has an event before it, that events stand in the order of
  posting, all later than the last one that began, and that what waits out of band is
  not yet urgent and not in `queue_` as well. `KillIsFinal` speaks of a kill that is obeyed while errors are
  fatal and the service does not hold the isolate at its exit, as the history variable
  `killed` records it; otherwise it does not hold, see the deviations under Findings.
  `KillInv` says that from then on the thread is on its way out, and that no other follows
  once it has given up `pool_`.
* `TimersProofs`: `HeapStaysOrdered`, `ZeroEventsMatch`, `BatchIsDueInOrder` and
  `NextWakeupIsKnown`, for any number of timers, ports and pending messages. The lemmas
  `BubbleUpRight`, `BubbleDownRight`, `HeapAddRight`, `HeapRemoveRight` and `PoppedRight` say
  what the operations of the heap compute for a heap of any size, so `HeapOperationsCorrect`
  is an instance. `TimersInv` adds to the types that no timer is in two queues and that
  zero events and zero timers match. `NextWakeupIsKnown` is not inductive: it speaks of the
  heap between messages only, while the promise is made with `_scheduledWakeupTime`.
  `WakeInv` says that the time asked for last is known to the event handler at every moment
  (`AskedInv`), that between messages it is that of the first timer (`FirstInv`), and what
  is left in the pipe of the isolate's earlier ports: it comes first and ends with
  `NO_TIMER` (`PipeInv`), for otherwise a timeout of a closed port could be taken for the
  one of the port that is open. It is proved for isolates whose errors are fatal
  (`~NonFatal`); with errors that are not, TLC finds it violated (see Findings), while the
  other three properties are proved for both.
* `FuturesProofs`: `OneCompletionEach`, `ListenersInOrder` and the action property
  `ResultIsFinal`, for any number of futures, listeners and nested propagations. The
  invariant `FuturesInv` has three parts. The counts (`Balanced`): a future that is complete,
  or left to its completer, has nobody in charge of it, every other one exactly one
  listener, microtask or timer. The data (`Data`): what propagates comes from a future
  that is complete, and a listener belongs to the future it was added to. The order:
  `ListsInOrder` says that the lists of `_addListener` are the newest first, `LineInOrder`
  that whoever waits for the same result does so from the innermost call outwards and
  then in the microtasks, each subscribed before the next. The properties alone are not
  inductive. `OneCompletionEach` does not say that the source of a propagation is complete,
  so the listeners of one that is not could be served; `ListenersInOrder` speaks only of
  the moments at which a callback is on top of the stack, and not of the lists which are
  not yet reversed or the calls below. Every step is proved through an intermediate state
  (`Released`): the one in charge of a future is taken away, and then the future is
  completed, chained or handed to a microtask, or a listener is put back. The lemmas on
  `Places` say how the cardinalities change when a list grows, shrinks, is reversed or
  moves, for lists of any length. `ResultIsFinal` follows, since nobody who is in charge of
  a future that is complete exists: a timer of `timeout()` or a late result finds that it
  is not. While `onTimeout()` runs, its stack entry is in charge: the source of such an
  entry is 0, and the lemmas on calls and on the order of listeners treat it as a case of
  its own. The assumptions are that the completers are finitely many and are the futures
  numbered first, and that values and errors are not numbers of futures.

Induction. The provers cannot instantiate a theorem with an operator parameter, so the
proofs that need an induction use sets: `LeastNat` (every set of naturals that is not empty
has a least element) follows from the well-foundedness of `<` in the library, and
`SetInduction` (a set with 0 and all successors holds every natural) from that.
`RoundsExist` and `RehashRounds` show with it that a recursive function on an interval
exists and has its equations; `LoopRule` is the rule for loops with an invariant and a
measure, both as functions on states. Every inductive invariant was checked by TLC on an
instance before it was proved.

Model-checked only: the liveness properties, which need fairness and `ENABLED`
(`AcceptedTaskIsExecuted`, `KillEndsIsolate`, `PortlessIsolateExits`, `DueTimersRun`, `StreamEnds`,
`AsyncCompletionHappens` and the others of section 3). Every safety property of a passing
run is stated by a theorem.

## 5. Findings

| Run | The code | What it says |
|---|---|---|
| `pause_deadlock` | pause events are posted under `monitor_`, against the lock order of `PostMessage` (`message_handler.cc:240`) | `port.h:44` "Enqueues the message in the port with id. Returns false if ..." |
| `interrupts` | three pending requests on top of `~0` without the mask are `~0`, which is also the limit of an isolate that nobody runs: the next `SetStackLimit` drops them (`isolate.cc:831`) | `isolate.cc:832` "No interrupt pending, set stack_limit_ too."; `runtime/include/dart_api.h:1038` "the isolate interrupt callback will be invoked" |
| `done_after_cancel` | the done event is delivered although the listener has called `cancel()` in the `onCancel` that it causes (`sdk/lib/async/stream_impl.dart:395`) | `sdk/lib/async/stream.dart:1294` "Cancels this subscription. It will no longer receive events." |
| `timers_after_isolate_end` | when the timerfd expires, it is not set for the timeouts that remain (`runtime/bin/eventhandler_linux.cc:332`); if the isolate that was woken has ended, nobody sends the message that would | `sdk/lib/async/timer.dart:43` "The [callback] function is invoked after the given [duration]" |

Deviations that the models show and that no run of its own states:

* A kill that is obeyed inside an event travels as an error and is ignored if errors are
  not fatal; the next event is handled (`isolate.cc:527`, against `isolate.cc:148`).
* An isolate that failed and is held at exit forgets that it failed; when it is
  released, it handles its queued events (`message_handler.cc:264`, against
  `service.cc:2079` "we will be exiting").
* The live port that the constructor of `NativeMessageHandler` counts is never counted
  down, so the handler of a closed native port is not deleted (`port.cc:210`, against
  `native_message_handler.h:31`).
* `live_ports_` does not count control ports (`SetPortState`, `port.cc:112`, as
  `port_test.cc:126` expects), against the comment at `message_handler.h:204`, "The number
  of open ports, including control ports". `LivePortsAreCounted` states what the code does.
* The microtasks that an error which is not fatal leaves behind run only after the next
  message, if there is one: `_handleMessage` does not come to them when its handler throws,
  as its TODO says (`runtime/lib/isolate_patch.dart:145`), against "as part of the current
  system event" (`schedule_microtask.dart:67`).
* A timer callback that throws in an isolate with non-fatal errors loses the rest of
  its batch, and the event handler is not notified (`timer_impl.dart:398`); `timers`
  therefore has fatal errors.

Places that hold by an argument outside the models: `Run` is not inside the pool when it
is deleted (`thread_pool.cc:30`; the VM does not delete its pool); a service
message that arrives while the notify callback is swapped (`isolate.cc:1707`);
`oob_message_handling_allowed_` is set without `monitor_`, by the isolate's own thread
(`message_handler.cc:355`); the result of `Run` is ignored for the sweeper task
(`gc_sweeper.cc:168`): a pool that is shut down would leave `tasks_` up, so the fairness
of `OldSpace` assumes that it is not; the sweeper leaves the isolate after it took
`tasks_` down (`gc_sweeper.cc:146`).

## 6. Not modelled, and the plan

Not modelled: compilers, snapshots, analyzer, dart2js and tools (pure program or
data transformations, out of TLC's reach), the bodies of service requests, platform
code, sockets of the event handler, and the C callback of native ports. They are most
of the repository's lines. `PROJECT.json` lists each part with its reason.

The plan, in order:

1. Broadcast controllers and `addStream`: listeners that come and go while an event
   is delivered.
2. Thread interrupter: registration, deep sleep and shutdown without a lost wakeup.
3. VM shutdown: `Dart::Cleanup` with isolates that start and end; it discharges the
   environment condition of `ThreadPool`.
4. The socket side of the event handler: masks, tokens and the return of tokens.
