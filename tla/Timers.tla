------------------------------- MODULE Timers -------------------------------
(***************************************************************************)
(* The timers of an isolate, runtime/lib/timer_impl.dart, together with the *)
(* event handler that wakes it.  The isolate's thread runs one message at a *)
(* time: a batch of timers is taken from the queues when the message is     *)
(* handled and then run one by one, and the code of each callback and of    *)
(* the microtasks behind it creates and cancels timers as it likes.  The    *)
(* event handler's thread and the clock go on between any two of these      *)
(* steps.  The event handler may still hold timeouts of isolates that have   *)
(* ended.                                                                   *)
(***************************************************************************)
EXTENDS EventHandler, TimerHeap, FiniteSets

CONSTANTS
  Timers,       \* the _Timer objects
  Ports,        \* port numbers for _receivePort
  Ended,        \* timer ports of isolates that have ended
  Requests,     \* what programs ask for: <<milliseconds, repeating>>
  None,         \* null
  ID_MASK,      \* _ID_MASK: 2^29 - 1 in the code
  NonFatal,     \* isolates survive uncaught errors (setErrorsFatal(false))
  MaxTime       \* bound: the last millisecond of the clock

ASSUME TimersAssumption ==
  /\ None \notin Timers \cup Ports
  /\ Ports \cap Ended = {}
  /\ Requests \subseteq Int \X BOOLEAN
  /\ ID_MASK \in Nat /\ MaxTime \in Nat /\ PipeCapacity \in Nat \ {0}
  /\ NonFatal \in BOOLEAN
  /\ NoTime \notin Int

VARIABLES
  timer,          \* the fields of each _Timer that is queued or repeats
  heap,          \* _TimerHeap: the first _used entries of _list
  zeroTimers,         \* the list from _firstZeroTimer to _lastZeroTimer
  idCount,
  port,          \* _receivePort and _sendPort
  scheduledWakeupTime,
  pendingTimers,  \* what _runTimers() has not come to yet
  running,        \* the repeating timer whose callback runs
  phase,          \* where the isolate's thread is
  queue,          \* the isolate's messages: <<port, event>>
  now             \* DateTime.now()

timerVars == <<timer, heap, zeroTimers, idCount, port, scheduledWakeupTime,
               pendingTimers, running, phase>>
vars == <<timerVars, queue, now, eventVars>>

IsolateInit ==
  /\ timer = <<>>
  /\ heap = <<>> /\ zeroTimers = <<>> /\ idCount = 0
  /\ port = None /\ scheduledWakeupTime = NoTime
  /\ pendingTimers = <<>> /\ running = None /\ phase = "idle"
  /\ queue = <<>> /\ now = 0

Init == IsolateInit /\ EventInit

\* Another isolate has ended before, by an error for example: no one has told the event
\* handler, which still waits for its timeout.
InitAfterEnd ==
  /\ IsolateInit
  /\ pipe = <<>>
  /\ \E p \in Ended, time \in 1..MaxTime : timeouts_ = <<<<p, time>>>> /\ timer_fd_ = time

\* What _runTimers() sets around its loop.
handlingCallbacks == phase \in {"next", "callback", "microtasks"}

-----------------------------------------------------------------------------
(* Talking to the event handler                                            *)

PortsInUse ==
  {port} \cup {queue[i][1] : i \in DOMAIN queue} \cup {pipe[i][1] : i \in DOMAIN pipe}
         \cup {timeouts_[i][1] : i \in DOMAIN timeouts_}

\* The port after _createTimerHandler(), if there was none: a new number.
\* Numbers are interchangeable, so one that is not in use will do.
HasPort == port # None \/ Ports \ PortsInUse # {}
OpenPort == IF port # None THEN port ELSE CHOOSE p \in Ports \ PortsInUse : TRUE

\* The isolate's queue after a post to p: a post to a closed port is dropped.
Posted(p, event) == IF p = port THEN Append(queue, <<p, event>>) ELSE queue

\* _notifyEventHandler() outside _runTimers(), for the heap h, the zero timers z
\* and the value of _scheduledWakeupTime at that moment.
NotifyEventHandler(f, h, z, scheduled) ==
  LET Keep   == scheduledWakeupTime' = scheduled /\ UNCHANGED <<port, pipe>>
      Cancel == SendData(port, NO_TIMER) /\ scheduledWakeupTime' = NoTime
  IN
  \/ h = <<>> /\ z = <<>> /\ port = None /\ Keep
  \/ h = <<>> /\ z = <<>> /\ port # None /\ Cancel /\ port' = None
  \/ h = <<>> /\ z # <<>> /\ Cancel /\ UNCHANGED port
  \/ h # <<>> /\ scheduled = f[h[1]].wakeup /\ Keep
  \/ /\ h # <<>> /\ scheduled # f[h[1]].wakeup
     /\ HasPort /\ port' = OpenPort /\ SendData(OpenPort, f[h[1]].wakeup)
     /\ scheduledWakeupTime' = f[h[1]].wakeup

\* _enqueue() of t with the fields f; first and last of the list and the heap.
Enqueue(f, t) ==
  IF f[t].ms = 0
  THEN /\ HasPort /\ port' = OpenPort
       /\ scheduledWakeupTime' = IF port = None THEN NoTime ELSE scheduledWakeupTime
       /\ zeroTimers' = Append(zeroTimers, t)
       /\ queue' = Append(queue, <<OpenPort, "ZERO_EVENT">>)
       /\ UNCHANGED <<heap, pipe>>
  ELSE /\ heap' = HeapAdd(f, heap, t)
       /\ IF heap'[1] = t /\ ~handlingCallbacks
          THEN NotifyEventHandler(f, heap', zeroTimers, scheduledWakeupTime)
          ELSE UNCHANGED <<port, scheduledWakeupTime, pipe>>
       /\ UNCHANGED <<zeroTimers, queue>>

\* _nextId()
NextId == (idCount + 1) % (ID_MASK + 1)

-----------------------------------------------------------------------------
(* What a program does: in a callback, in a microtask, or while it handles   *)
(* a message that has nothing to do with timers                              *)

ProgramRuns == phase \in {"idle", "callback", "microtasks"}

\* The fields of the timers when no one needs those of t anymore.
Without(t) == [u \in DOMAIN timer \ {t} |-> timer[u]]

NewTimers == Timers \ (DOMAIN timer \cup {running})

\* new _Timer(), new _Timer.periodic(): _createTimer().
CreateTimer(duration, repeating) ==
  LET t  == CHOOSE u \in NewTimers : TRUE
      ms == IF duration < 0 THEN 0 ELSE duration
      new == [active |-> TRUE, ms |-> ms, repeating |-> repeating, id |-> idCount,
              wakeup |-> IF ms = 0 THEN now ELSE now + 1 + ms]
      f  == [u \in DOMAIN timer \cup {t} |-> IF u = t THEN new ELSE timer[u]]
  IN
  /\ ProgramRuns /\ NewTimers # {}
  /\ f[t].wakeup <= MaxTime
  /\ timer' = f /\ idCount' = NextId
  /\ Enqueue(f, t)
  /\ UNCHANGED <<pendingTimers, running, phase, now, timeouts_, timer_fd_>>

\* Mutant: a zero timer is taken off its list, too.
CancelTimerEverywhere(t) ==
  LET h == HeapRemove(timer, heap, t) IN
  /\ ProgramRuns /\ t \in DOMAIN timer /\ timer[t].active
  /\ timer' = Without(t)
  /\ \/ ~Contains(heap, t) /\ UNCHANGED <<heap, port, scheduledWakeupTime, pipe>>
     \/ /\ Contains(heap, t) /\ heap' = h
        /\ IF heap[1] = t /\ ~handlingCallbacks
           THEN NotifyEventHandler(timer', h, zeroTimers, scheduledWakeupTime)
           ELSE UNCHANGED <<port, scheduledWakeupTime, pipe>>
  /\ zeroTimers' = SelectSeq(zeroTimers, LAMBDA u : u # t)
  /\ pendingTimers' = SelectSeq(pendingTimers, LAMBDA u : u # t)
  /\ UNCHANGED <<idCount, running, phase, queue, now, timeouts_, timer_fd_>>

\* cancel(); a zero timer stays in its list and consumes its event.
CancelTimer(t) ==
  LET h == HeapRemove(timer, heap, t) IN
  /\ ProgramRuns /\ t \in DOMAIN timer /\ timer[t].active
  /\ timer' = IF Contains(zeroTimers \o pendingTimers, t) THEN [timer EXCEPT ![t].active = FALSE] ELSE Without(t)
  /\ \/ ~Contains(heap, t) /\ UNCHANGED <<heap, port, scheduledWakeupTime, pipe>>
     \/ /\ Contains(heap, t) /\ heap' = h
        /\ IF heap[1] = t /\ ~handlingCallbacks
           THEN NotifyEventHandler(timer', h, zeroTimers, scheduledWakeupTime)
           ELSE UNCHANGED <<port, scheduledWakeupTime, pipe>>
  /\ UNCHANGED <<zeroTimers, idCount, pendingTimers, running, phase, queue, now, timeouts_, timer_fd_>>

-----------------------------------------------------------------------------
(* The isolate handles a message of its timer port                          *)

\* _runTimers() up to its loop, for what the queues hold then; without a pending
\* timer it returns at once, to _notifyEventHandler().
RunTimers(h, z, batch, scheduled) ==
  /\ heap' = h /\ zeroTimers' = z /\ pendingTimers' = batch
  /\ idCount' = IF h = <<>> /\ z = <<>> THEN 0 ELSE idCount
  /\ \/ batch = <<>> /\ NotifyEventHandler(timer, h, z, scheduled) /\ UNCHANGED phase
     \/ /\ batch # <<>> /\ phase' = "next"
        /\ scheduledWakeupTime' = scheduled /\ UNCHANGED <<port, pipe>>

NextMessage(event) == phase = "idle" /\ queue # <<>> /\ queue[1] = <<port, event>>

\* _handleMessage() of a zero event: _queueFromZeroEvent().
HandleZeroEvent ==
  LET p == Popped(timer, heap, {t \in DOMAIN timer : Before(timer, t, zeroTimers[1])}) IN
  /\ NextMessage("ZERO_EVENT") /\ queue' = Tail(queue)
  /\ RunTimers(p.heap, Tail(zeroTimers), Append(p.batch, zeroTimers[1]), scheduledWakeupTime)
  /\ UNCHANGED <<timer, running, now, timeouts_, timer_fd_>>

\* Mutant: the event is taken to be about the timer that is first now.
HandleTimeoutEventFirst ==
  LET due == IF zeroTimers # <<>> THEN {t \in DOMAIN timer : Before(timer, t, zeroTimers[1])}
             ELSE {t \in DOMAIN timer : timer[t].wakeup <= timer[heap[1]].wakeup}
      p   == Popped(timer, heap, due)
  IN
  /\ NextMessage("TIMEOUT_EVENT") /\ queue' = Tail(queue)
  /\ RunTimers(p.heap, zeroTimers, p.batch, NoTime)
  /\ UNCHANGED <<timer, running, now, timeouts_, timer_fd_>>

\* _handleMessage() of a timeout event: _queueFromTimeoutEvent().
HandleTimeoutEvent ==
  LET due == IF zeroTimers # <<>> THEN {t \in DOMAIN timer : Before(timer, t, zeroTimers[1])}
             ELSE {t \in DOMAIN timer : timer[t].wakeup <= now}
      p   == Popped(timer, heap, due)
  IN
  /\ NextMessage("TIMEOUT_EVENT") /\ queue' = Tail(queue)
  /\ RunTimers(p.heap, zeroTimers, p.batch, NoTime)
  /\ UNCHANGED <<timer, running, now, timeouts_, timer_fd_>>

\* The message is for a port that was closed since: no handler is found.
DropMessage ==
  /\ phase = "idle" /\ queue # <<>> /\ queue[1][1] # port
  /\ queue' = Tail(queue)
  /\ UNCHANGED <<timerVars, now, eventVars>>

\* The next turn of the loop, when the microtasks of the last callback are done: a
\* timer that was canceled is passed over, and one that does not repeat is inactive
\* when its callback starts.
NextPending ==
  LET t == pendingTimers[1]
      again == timer[t].active /\ timer[t].repeating
  IN
  /\ phase \in {"next", "microtasks"} /\ pendingTimers # <<>>
  /\ pendingTimers' = Tail(pendingTimers)
  /\ timer' = IF again THEN timer ELSE Without(t)
  /\ running' = IF again THEN t ELSE None
  /\ phase' = IF timer[t].active THEN "callback" ELSE "next"
  /\ UNCHANGED <<heap, zeroTimers, idCount, port, scheduledWakeupTime, queue, now, eventVars>>

\* The callback returns: a repeating timer that was not canceled is put back with
\* _advanceWakeupTime(); then the pending microtasks run.
CallbackReturns ==
  LET t == running
      f == [timer EXCEPT ![t].id = idCount,
                         ![t].wakeup = IF timer[t].ms > 0 THEN @ + timer[t].ms ELSE now]
  IN
  /\ phase = "callback" /\ phase' = "microtasks" /\ running' = None
  /\ IF t \in DOMAIN timer
     THEN timer' = f /\ idCount' = NextId /\ Enqueue(f, t)
     ELSE UNCHANGED <<timer, heap, zeroTimers, idCount, port, scheduledWakeupTime, queue, pipe>>
  /\ UNCHANGED <<pendingTimers, now, timeouts_, timer_fd_>>

\* The callback or a microtask throws: _runTimers() and _handleMessage() are left.
\* By default the error ends the isolate, and nothing is left of it.
Throw ==
  /\ phase \in {"callback", "microtasks"}
  /\ pendingTimers' = <<>> /\ running' = None
  /\ IF NonFatal
     THEN phase' = "idle" /\ UNCHANGED <<timer, heap, zeroTimers, idCount, port, scheduledWakeupTime, queue>>
     ELSE /\ phase' = "dead" /\ timer' = <<>> /\ heap' = <<>> /\ zeroTimers' = <<>> /\ idCount' = 0
          /\ port' = None /\ scheduledWakeupTime' = NoTime /\ queue' = <<>>
  /\ UNCHANGED <<now, eventVars>>

\* Mutant: the event handler is only notified by _enqueue() and cancel().
TimersRunSilently ==
  /\ phase \in {"next", "microtasks"} /\ pendingTimers = <<>> /\ phase' = "idle"
  /\ UNCHANGED <<timer, heap, zeroTimers, idCount, port, scheduledWakeupTime, pendingTimers, running,
                 queue, now, eventVars>>

\* The end of the loop and of _handleMessage().
TimersRun ==
  /\ phase \in {"next", "microtasks"} /\ pendingTimers = <<>> /\ phase' = "idle"
  /\ NotifyEventHandler(timer, heap, zeroTimers, scheduledWakeupTime)
  /\ UNCHANGED <<timer, heap, zeroTimers, idCount, pendingTimers, running, queue, now, timeouts_, timer_fd_>>

IsolateStep ==
  HandleZeroEvent \/ HandleTimeoutEvent \/ DropMessage \/ NextPending
    \/ CallbackReturns \/ TimersRun

-----------------------------------------------------------------------------
(* The event handler and the clock                                          *)

HandleInterrupt == HandleInterruptFd /\ UNCHANGED <<timerVars, queue, now>>

\* The timerfd branch of HandleEvents().
HandleTimerFd ==
  /\ TimerFdExpired(now) /\ timeouts_ # <<>>
  /\ queue' = Posted(CurrentPort, "TIMEOUT_EVENT")
  /\ RemoveCurrent
  /\ UNCHANGED <<timerVars, now>>

Tick ==
  /\ now < MaxTime /\ now' = now + 1
  /\ UNCHANGED <<timerVars, queue, eventVars>>

Next ==
  \/ \E r \in Requests : CreateTimer(r[1], r[2])
  \/ \E t \in Timers : CancelTimer(t)
  \/ IsolateStep
  \/ Throw
  \/ HandleInterrupt
  \/ HandleTimerFd
  \/ Tick

Fairness ==
  WF_vars(IsolateStep) /\ WF_vars(HandleInterrupt) /\ WF_vars(HandleTimerFd) /\ WF_vars(Tick)

Spec == Init /\ [][Next]_vars /\ Fairness

SpecAfterEnd == InitAfterEnd /\ [][Next]_vars /\ Fairness

-----------------------------------------------------------------------------
(* Properties                                                              *)

\* The heap of the isolate is one at every step, and so is every heap of up to six
\* timers after an add(), remove() or removeFirst() anywhere in it: the entry that
\* fills a gap may have to move up as well as down.
HeapStaysOrdered == IsHeap(timer, heap) /\ HeapOperationsCorrect

\* The last message of port p in the pipe asks for this time.
LastWord(p, time) ==
  \E i \in DOMAIN pipe : pipe[i] = <<p, time>> /\ \A j \in i + 1..Len(pipe) : pipe[j][1] # p

\* The event handler has read all messages of p and will wake it at this time or before.
ActedOn(p, time) ==
  /\ \A i \in DOMAIN pipe : pipe[i][1] # p
  /\ Contains(timeouts_, <<p, time>>) /\ timer_fd_ # NoTime /\ timer_fd_ <= time

\* The earliest timer of the heap is never forgotten: outside _runTimers(), either
\* the last word of the isolate to the event handler asks for that timer's time and
\* has been acted on, or is on its way, or a timeout event is in the queue.
NextWakeupIsKnown ==
  LET time == timer[heap[1]].wakeup IN
  phase = "idle" /\ heap # <<>> =>
    Contains(queue, <<port, "TIMEOUT_EVENT">>) \/ LastWord(port, time) \/ ActedOn(port, time)

\* Each zero timer, canceled or not, has exactly one event under way on the port
\* that is open: no event finds the list empty and no port closes before its events.
ZeroEventsMatch ==
  phase # "dead" =>
    Cardinality({i \in DOMAIN queue : queue[i][2] = "ZERO_EVENT" /\ queue[i][1] = port}) = Len(zeroTimers)
      /\ \A i \in DOMAIN queue : queue[i][2] = "ZERO_EVENT" => queue[i][1] = port

\* A batch holds only timers whose time has come, also those that a zero event takes
\* along because they are less than the zero timer; it runs in the order of wakeup times
\* and ids, and no timer that is left in the heap precedes one of the batch.
BatchIsDueInOrder ==
  [][phase = "idle" /\ phase' = "next" =>
       \A i \in DOMAIN pendingTimers' :
         /\ timer[pendingTimers'[i]].wakeup <= now
         /\ \A j \in 1..i - 1 : ~Before(timer, pendingTimers'[i], pendingTimers'[j])
         /\ \A k \in DOMAIN heap' : ~Before(timer, heap'[k], pendingTimers'[i])]_vars

\* The clock has moved past the timer's millisecond: in the same millisecond zero
\* timers may still go before it.
Overdue(t) == t \in DOMAIN timer /\ timer[t].active /\ timer[t].wakeup < now

\* Every timer whose time has come is run or canceled, as long as the isolate lives.
DueTimersRun ==
  \A t \in Timers : Overdue(t) /\ phase # "dead" ~> running = t \/ ~Overdue(t) \/ phase = "dead"
=============================================================================
