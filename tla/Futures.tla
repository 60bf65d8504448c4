------------------------------- MODULE Futures -------------------------------
(***************************************************************************)
(* Futures and completers, sdk/lib/async/future_impl.dart, on the microtask  *)
(* queue of sdk/lib/async/schedule_microtask.dart.                           *)
(*                                                                         *)
(* One isolate runs one piece of code at a time, but callbacks are called    *)
(* from the middle of _propagateToListeners() and may complete and listen to *)
(* any future, so the calls nest: stack holds those that have not returned.  *)
(* Futures are numbered in the order of their creation.  A listener is known *)
(* by the future that it completes.  All code runs in the root zone.         *)
(***************************************************************************)
EXTENDS Integers, Sequences, SequencesExt, FiniteSets

CONSTANTS
  SyncCompleters, AsyncCompleters,  \* the futures of the program's completers
  MaxFutures,    \* bound: futures that are ever created
  Kinds,         \* how a program listens to futures
  Values,        \* what futures complete with
  Errors         \* and what they fail with

Completers == SyncCompleters \cup AsyncCompleters

ASSUME FuturesAssumption ==
  /\ MaxFutures \in Nat
  /\ IsFiniteSet(Completers) /\ Completers = 1..Cardinality(Completers)
  /\ Cardinality(Completers) <= MaxFutures
  /\ SyncCompleters \cap AsyncCompleters = {}
  /\ Kinds \subseteq {"then", "thenOnError", "catchError", "catchErrorTest", "whenComplete", "timeout"}
  /\ Values \cap Errors = {} /\ (Values \cup Errors) \cap 0..MaxFutures = {}

VARIABLES
  state,       \* _state of each future that was created
  result,      \* _resultOrListeners of a future that is complete; 0 before
  listeners,   \* _resultOrListeners of one that is not: the newest listener is first
  queue,       \* the microtasks
  priority,    \* how many at the front of the queue the running microtask put there
  stack,       \* the calls of _propagateToListeners(), the innermost is last
  timers,      \* the results of timeout() whose timer is active
  phase        \* "event": code of an event runs; "loop": the microtask loop; "stalled": an
               \* error that is not fatal has ended the event; "dead": a fatal one the isolate

vars == <<state, result, listeners, queue, priority, stack, timers, phase>>

Futures == 1..Len(state)

Init ==
  /\ state = [f \in Completers |-> "INCOMPLETE"]
  /\ result = [f \in Completers |-> 0]
  /\ listeners = [f \in Completers |-> <<>>]
  /\ queue = <<>> /\ priority = 0 /\ stack = <<>> /\ timers = {} /\ phase = "event"

IsComplete(f) == state[f] \in {"VALUE", "ERROR"}
HasError(f) == state[f] = "ERROR"
MayComplete(f) == state[f] = "INCOMPLETE"
StateFor(x) == IF x \in Errors THEN "ERROR" ELSE "VALUE"

-----------------------------------------------------------------------------
(* Listeners, calls and microtasks                                          *)

\* _FutureListener; origin is the future that a whenComplete action held up.
Listener(kind, f) == [kind |-> kind, result |-> f, origin |-> 0]

\* A call of _propagateToListeners(); user: a callback of the program runs in it.
Call(source, ls) == [source |-> source, listeners |-> ls, user |-> FALSE]

\* The closures that are scheduled.
Complete(f, x) == [op |-> "complete", future |-> f, with |-> x]
ChainCore(source, f) == [op |-> "chain", future |-> f, with |-> source]
Propagate(source, l) == [op |-> "propagate", future |-> source, with |-> l]
Rethrow == [op |-> "throw", future |-> 0, with |-> 0]

Top == Last(stack)
Push(call) == stack' = Append(stack, call)
Pop == stack' = Front(stack)
Become(call) == stack' = Append(Front(stack), call)

\* _scheduleAsyncCallback()
ScheduleMicrotask(m) == queue' = Append(queue, m) /\ UNCHANGED priority

\* Mutant: the first priority entry is not linked to those that wait.
SchedulePriorityUnlinked(m) ==
  /\ queue' = SubSeq(queue, 1, priority) \o <<m>>
  /\ priority' = priority + 1

\* _schedulePriorityAsyncCallback(), behind the priority callbacks that the running
\* microtask scheduled before.
SchedulePriority(m) ==
  /\ queue' = SubSeq(queue, 1, priority) \o <<m>> \o SubSeq(queue, priority + 1, Len(queue))
  /\ priority' = priority + 1

\* _addListener() to f: late listeners are called by a microtask.
AddListener(f, l) ==
  IF IsComplete(f)
  THEN ScheduleMicrotask(Propagate(f, l)) /\ UNCHANGED listeners
  ELSE listeners' = [listeners EXCEPT ![f] = <<l>> \o @] /\ UNCHANGED <<queue, priority>>

\* _setValue() or _setErrorObject(), after _removeListeners().
SetResult(f, x) ==
  /\ state' = [state EXCEPT ![f] = StateFor(x)]
  /\ result' = [result EXCEPT ![f] = x]
  /\ listeners' = [listeners EXCEPT ![f] = <<>>]

\* Mutant: the list is returned as it is linked.
ListenersAsLinked(f) == listeners[f]

\* The listeners that _removeListeners() returns, in the order of subscription.
RemoveListeners(f) == Reverse(listeners[f])

-----------------------------------------------------------------------------
(* What a program does: in the code of an event, or in a callback           *)

ProgramRuns ==
  \/ stack = <<>> /\ phase = "event"
  \/ stack # <<>> /\ Top.user

New == Len(state) + 1

Create(st) ==
  /\ New <= MaxFutures
  /\ state' = Append(state, st) /\ result' = Append(result, 0)

\* then(), catchError(), whenComplete(): the listener of a new future.
Listen(f, kind) ==
  /\ ProgramRuns /\ f \in Futures /\ kind # "timeout"
  /\ Create("INCOMPLETE")
  /\ IF IsComplete(f)
     THEN ScheduleMicrotask(Propagate(f, Listener(kind, New))) /\ listeners' = Append(listeners, <<>>)
     ELSE /\ listeners' = Append([listeners EXCEPT ![f] = <<Listener(kind, New)>> \o @], <<>>)
          /\ UNCHANGED <<queue, priority>>
  /\ UNCHANGED <<stack, timers, phase>>

\* timeout().  Of a future that is not complete: a timer and a listener compete.  Of one
\* that is: a new future that _asyncComplete() completes with it.
Timeout(f) ==
  /\ ProgramRuns /\ f \in Futures /\ "timeout" \in Kinds
  /\ \/ /\ ~IsComplete(f) /\ Create("INCOMPLETE")
        /\ listeners' = Append([listeners EXCEPT ![f] = <<Listener("timeout", New)>> \o @], <<>>)
        /\ timers' = timers \cup {New}
        /\ UNCHANGED <<queue, priority, stack>>
     \/ /\ HasError(f) /\ Create("PENDING_COMPLETE")
        /\ listeners' = Append(listeners, <<>>)
        /\ ScheduleMicrotask(ChainCore(f, New))
        /\ UNCHANGED <<stack, timers>>
     \/ /\ IsComplete(f) /\ ~HasError(f) /\ Create("CHAINED")
        /\ listeners' = Append(listeners, <<>>)
        /\ Push(Call(f, <<Listener("chain", New)>>))
        /\ UNCHANGED <<queue, priority, timers>>
  /\ UNCHANGED phase

\* _chainCoreFuture(): target takes the result of source.
ChainCoreFuture(source, target) ==
  /\ state' = [state EXCEPT ![target] = "CHAINED"]
  /\ IF IsComplete(source)
     THEN Push(Call(source, <<Listener("chain", target)>>)) /\ UNCHANGED <<listeners, queue, priority>>
     ELSE AddListener(source, Listener("chain", target)) /\ UNCHANGED stack
  /\ UNCHANGED result

\* _SyncCompleter.complete() and completeError().
CompleteSync(f, x) ==
  /\ ProgramRuns /\ f \in SyncCompleters /\ MayComplete(f)
  /\ IF x \in Futures THEN ChainCoreFuture(x, f)
     ELSE SetResult(f, x) /\ Push(Call(f, RemoveListeners(f))) /\ UNCHANGED <<queue, priority>>
  /\ UNCHANGED <<timers, phase>>

\* _AsyncCompleter.complete() and completeError(): _asyncComplete().  A future that
\* has failed already is chained later, so that handlers can be installed.
CompleteAsync(f, x) ==
  /\ ProgramRuns /\ f \in AsyncCompleters /\ MayComplete(f)
  /\ IF x \in Futures /\ ~HasError(x) THEN ChainCoreFuture(x, f)
     ELSE /\ state' = [state EXCEPT ![f] = "PENDING_COMPLETE"]
          /\ ScheduleMicrotask(IF x \in Futures THEN ChainCore(x, f) ELSE Complete(f, x))
          /\ UNCHANGED <<result, listeners, stack>>
  /\ UNCHANGED <<timers, phase>>

-----------------------------------------------------------------------------
(* _propagateToListeners()                                                  *)

Running == stack # <<>> /\ ~Top.user /\ phase # "dead"

\* No one listens: an error goes to Zone.handleUncaughtError().
NoListeners ==
  /\ Running /\ Top.listeners = <<>> /\ Pop
  /\ IF HasError(Top.source) THEN SchedulePriority(Rethrow) ELSE UNCHANGED <<queue, priority>>
  /\ UNCHANGED <<state, result, listeners, timers, phase>>

\* All listeners but the last are served by recursive calls.
FirstOfSeveral ==
  LET ls == Top.listeners IN
  /\ Running /\ Len(ls) > 1
  /\ stack' = Front(stack) \o <<[Top EXCEPT !.listeners = Tail(ls)], Call(Top.source, <<ls[1]>>)>>
  /\ UNCHANGED <<state, result, listeners, queue, priority, timers, phase>>

Single == Running /\ Len(Top.listeners) = 1

\* Does the program have a callback for this result?
HasCallback(kind) ==
  IF HasError(Top.source)
  THEN kind \in {"thenOnError", "catchError", "catchErrorTest", "whenComplete"}
  ELSE kind \in {"then", "thenOnError", "whenComplete"}

BeginCallback ==
  /\ Single /\ HasCallback(Top.listeners[1].kind)
  /\ Become([Top EXCEPT !.user = TRUE])
  /\ UNCHANGED <<state, result, listeners, queue, priority, timers, phase>>

\* The listener's future gets the result, and the loop goes on with its listeners.
Finish(f, x) ==
  /\ SetResult(f, x) /\ Become(Call(f, RemoveListeners(f)))

\* Nothing to call: the result is passed on.
PassOn ==
  LET l == Top.listeners[1] IN
  /\ Single /\ ~HasCallback(l.kind) /\ l.kind \notin {"timeout", "resume"}
  /\ Finish(l.result, result[Top.source])
  /\ UNCHANGED <<queue, priority, timers, phase>>

\* Mutant: the callback of timeout() asks whether the result is complete, not whether
\* the timer is active.
ServeInternalUnlessComplete ==
  LET l == Top.listeners[1] IN
  /\ Single
  /\ \/ /\ l.kind = "timeout" /\ ~IsComplete(l.result)
        /\ timers' = timers \ {l.result}
        /\ Finish(l.result, result[Top.source])
     \/ /\ l.kind = "timeout" /\ IsComplete(l.result)
        /\ Pop /\ UNCHANGED <<state, result, listeners, timers>>
     \/ /\ l.kind = "resume"
        /\ Become(Call(IF HasError(Top.source) THEN Top.source ELSE l.origin, <<Listener("chain", l.result)>>))
        /\ UNCHANGED <<state, result, listeners, timers>>
  /\ UNCHANGED <<queue, priority, phase>>

\* The callback that timeout() registered, and that of a whenComplete action that
\* returned a future; what their then() returns is of no interest to anyone.
ServeInternal ==
  LET l == Top.listeners[1] IN
  /\ Single
  /\ \/ /\ l.kind = "timeout" /\ l.result \in timers
        /\ timers' = timers \ {l.result}
        /\ Finish(l.result, result[Top.source])
     \/ /\ l.kind = "timeout" /\ l.result \notin timers
        /\ Pop /\ UNCHANGED <<state, result, listeners, timers>>
     \/ /\ l.kind = "resume"
        /\ Become(Call(IF HasError(Top.source) THEN Top.source ELSE l.origin, <<Listener("chain", l.result)>>))
        /\ UNCHANGED <<state, result, listeners, timers>>
  /\ UNCHANGED <<queue, priority, phase>>

\* A future that a callback returned: a complete one continues the loop.
ChainReturned(source, f) ==
  /\ state' = [state EXCEPT ![f] = "CHAINED"]
  /\ IF IsComplete(source)
     THEN Become(Call(source, <<Listener("chain", f)>>)) /\ UNCHANGED <<listeners, queue, priority>>
     ELSE Pop /\ AddListener(source, Listener("chain", f))
  /\ UNCHANGED result

\* Mutant: the future of the action is awaited, but propagation is not aborted.
HoldUpAndPassOn(awaited, l) ==
  /\ state' = [state EXCEPT ![l.result] = StateFor(result[Top.source])]
  /\ result' = [result EXCEPT ![l.result] = result[Top.source]]
  /\ AddListener(awaited, [kind |-> "resume", result |-> l.result, origin |-> Top.source])
  /\ Become(Call(l.result, <<>>))

\* The whenComplete action returned a future: its result waits for that future.
HoldUp(awaited, l) ==
  /\ state' = [state EXCEPT ![l.result] = "CHAINED"]
  /\ AddListener(awaited, [kind |-> "resume", result |-> l.result, origin |-> Top.source])
  /\ Pop /\ UNCHANGED result

\* A callback returns the value or the future x.
CallbackReturns(x) ==
  LET l == Top.listeners[1] IN
  /\ stack # <<>> /\ Top.user
  /\ CASE l.kind = "whenComplete" /\ x \in Futures -> HoldUp(x, l)
       [] l.kind = "whenComplete" /\ x \in Values  -> Finish(l.result, result[Top.source]) /\ UNCHANGED <<queue, priority>>
       [] l.kind # "whenComplete" /\ x \in Futures -> ChainReturned(x, l.result)
       [] OTHER                                    -> Finish(l.result, x) /\ UNCHANGED <<queue, priority>>
  /\ UNCHANGED <<timers, phase>>

\* A callback throws, or the test of catchError() refuses the error.
CallbackThrows(e) ==
  LET l == Top.listeners[1] IN
  /\ stack # <<>> /\ Top.user
  /\ Finish(l.result, e)
  /\ UNCHANGED <<queue, priority, timers, phase>>

TestRefuses ==
  LET l == Top.listeners[1] IN
  /\ stack # <<>> /\ Top.user /\ l.kind = "catchErrorTest"
  /\ Finish(l.result, result[Top.source])
  /\ UNCHANGED <<queue, priority, timers, phase>>

-----------------------------------------------------------------------------
(* The event loop                                                          *)

\* The code of the event returns: its microtasks run.
EventReturns ==
  /\ phase = "event" /\ stack = <<>> /\ queue # <<>>
  /\ phase' = "loop" /\ priority' = 0
  /\ UNCHANGED <<state, result, listeners, queue, stack, timers>>

\* It throws: _handleMessage() does not come to the microtasks.
EventThrows ==
  /\ phase = "event" /\ stack = <<>> /\ phase' \in {"stalled", "dead"}
  /\ UNCHANGED <<state, result, listeners, queue, priority, stack, timers>>

\* _microtaskLoop(): the next entry.
RunMicrotask ==
  LET m == queue[1] IN
  /\ phase = "loop" /\ stack = <<>> /\ queue # <<>>
  /\ queue' = Tail(queue) /\ priority' = 0
  /\ \/ /\ m.op = "complete"
        /\ SetResult(m.future, m.with) /\ Push(Call(m.future, RemoveListeners(m.future)))
        /\ UNCHANGED phase
     \/ /\ m.op = "chain"
        /\ state' = [state EXCEPT ![m.future] = "CHAINED"]
        /\ Push(Call(m.with, <<Listener("chain", m.future)>>))
        /\ UNCHANGED <<result, listeners, phase>>
     \/ /\ m.op = "propagate"
        /\ Push(Call(m.future, <<m.with>>))
        /\ UNCHANGED <<state, result, listeners, phase>>
     \* An uncaught error ends the isolate, or only the loop: _microtaskLoopEntry()
     \* schedules the rest of the queue again.
     \/ /\ m.op = "throw" /\ phase' \in {"stalled", "dead"}
        /\ UNCHANGED <<state, result, listeners, stack>>
  /\ UNCHANGED timers

\* The loop ends, or an error has ended it; the next message of the isolate, if there is
\* one, begins an event.  What is scheduled still runs at its end.
NextEvent ==
  /\ stack = <<>> /\ phase' = "event"
  /\ phase = "stalled" \/ (phase = "loop" /\ queue = <<>>)
  /\ UNCHANGED <<state, result, listeners, queue, priority, stack, timers>>

\* An event of the timer of timeout(): the future fails, or onTimeout() is called, which
\* is a callback of the program like others; it has no source.
TimerFires(f) ==
  /\ stack = <<>> /\ f \in timers
  /\ phase = "stalled" \/ (phase = "event" /\ queue = <<>>)
  /\ timers' = timers \ {f} /\ phase' = "loop"
  /\ \/ /\ \E e \in Errors : SetResult(f, e)
        /\ Push(Call(f, RemoveListeners(f)))
     \/ /\ Push([source |-> 0, listeners |-> <<Listener("onTimeout", f)>>, user |-> TRUE])
        /\ UNCHANGED <<state, result, listeners>>
  /\ UNCHANGED <<queue, priority>>

Outcome == Values \cup Errors
Answer == Outcome \cup Futures

LoopStep ==
  NoListeners \/ FirstOfSeveral \/ BeginCallback \/ PassOn \/ ServeInternal
    \/ EventReturns \/ RunMicrotask

Return == (\E x \in Values \cup Futures : CallbackReturns(x)) \/ (\E e \in Errors : CallbackThrows(e)) \/ TestRefuses

Next ==
  \/ \E f \in Futures, kind \in Kinds : Listen(f, kind)
  \/ \E f \in Futures : Timeout(f)
  \/ \E f \in Completers, x \in Answer : CompleteSync(f, x)
  \/ \E f \in Completers, x \in Answer : CompleteAsync(f, x)
  \/ \E f \in timers : TimerFires(f)
  \/ EventThrows
  \/ NextEvent
  \/ LoopStep
  \/ Return

\* Callbacks and events return, and the isolate goes on with what it has begun; whether
\* another message comes is not assumed.
Spec == Init /\ [][Next]_vars /\ WF_vars(LoopStep \/ Return)

-----------------------------------------------------------------------------
(* Properties                                                              *)

\* The listener completes f; that of timeout() does so only together with the timer.
InCharge(l, f) == l.result = f /\ l.kind # "timeout"

\* The listeners that are called from a microtask; one that completes a future counts as
\* a listener.
Serves(m) ==
  CASE m.op = "propagate"              -> <<m.with>>
    [] m.op \in {"complete", "chain"} -> <<Listener("chain", m.future)>>
    [] OTHER                           -> <<>>

\* Where, in a sequence of lists of listeners, those are that complete f.
Places(lists, f) ==
  {p \in UNION {{i} \X DOMAIN lists[i] : i \in DOMAIN lists} : InCharge(lists[p[1]][p[2]], f)}

\* The number of ways in which f is about to be completed.
Completions(f) ==
  Cardinality(Places(listeners, f))
    + Cardinality(Places([k \in DOMAIN stack |-> stack[k].listeners], f))
    + Cardinality(Places([i \in DOMAIN queue |-> Serves(queue[i])], f))
    + Cardinality(timers \cap {f})

\* Whatever callbacks do while results propagate, exactly one listener, microtask or
\* timer is responsible for each future that no completer can complete anymore, and
\* none for one that is complete: no future is forgotten and no assert(!_isComplete)
\* fails.
OneCompletionEach ==
  \A f \in Futures :
    Completions(f) = IF IsComplete(f) \/ (f \in Completers /\ MayComplete(f)) THEN 0 ELSE 1

IsUser(l) == l.kind \notin {"chain", "resume", "onTimeout"}

\* Who still waits for the result of f, which is complete.
WaitingFor(f) ==
  (UNION {ToSet(stack[i].listeners) : i \in {j \in DOMAIN stack : stack[j].source = f /\ ~stack[j].user}})
    \cup {queue[i].with : i \in {j \in DOMAIN queue : queue[j].op = "propagate" /\ queue[j].future = f}}

\* The listeners of a future are called in the order in which they subscribed, also
\* when callbacks subscribe to a future that is being propagated.
ListenersInOrder ==
  stack # <<>> /\ Top.user =>
    \A l \in WaitingFor(Top.source) : IsUser(l) => l.result > Top.listeners[1].result

\* A future that is complete never changes again.
ResultIsFinal ==
  [][\A f \in Futures : IsComplete(f) => state'[f] = state[f] /\ result'[f] = result[f]]_vars

\* What was completed asynchronously is complete in the end, also if an uncaught error
\* that is not fatal cuts the microtask loop or the event short, provided that there is
\* a last such error and some message follows it (_schedulePriorityAsyncCallback(), the
\* finally branch of _microtaskLoopEntry()).
AsyncCompletionHappens ==
  <>[](phase # "stalled") =>
    \A f \in AsyncCompleters : state[f] = "PENDING_COMPLETE" ~> IsComplete(f) \/ phase = "dead"
=============================================================================
