------------------------------- MODULE Streams -------------------------------
(***************************************************************************)
(* A stream controller and the subscription of its stream:                   *)
(* sdk/lib/async/stream_controller.dart and _BufferingStreamSubscription of  *)
(* sdk/lib/async/stream_impl.dart.                                           *)
(*                                                                         *)
(* The listener and the code behind the controller run in callbacks and in   *)
(* events of their own, and may call any operation in either.  Events are    *)
(* numbered as they are added.                                               *)
(***************************************************************************)
EXTENDS Integers, Sequences

CONSTANTS
  MaxEvents,   \* bound: data and error events that are added
  MaxPauses    \* bound: the count of pauses

ASSUME StreamsAssumption == MaxEvents \in Nat /\ MaxPauses \in Nat

VARIABLES
  sync,          \* is it a _SyncStreamController?
  controller,    \* the subscription state of the controller
  isClosed,      \* _STATE_CLOSED of the controller
  s,             \* the bits of the subscription's _state
  pending,       \* _pending, or the _PendingEvents of a controller without listener
  scheduled,     \* the _state of _pending
  running,       \* the callback that runs: _STATE_IN_CALLBACK
  cancelFuture,  \* the _cancelFuture that a callback of the subscription waits for
  added,         \* how many events were added
  delivered,     \* the number of the last event that the listener was given
  toldPaused,    \* the last of onPause() and onResume() that was called
  over           \* "ended": the listener was given the last event; "canceled": it has called
                 \* cancel(); "canceledWithin": in the onCancel() that its done event caused

vars == <<sync, controller, isClosed, s, pending, scheduled, running, cancelFuture,
          added, delivered, toldPaused, over>>

Idle == [kind |-> "none", was |-> FALSE]

Init ==
  /\ sync \in BOOLEAN
  /\ controller = "INITIAL" /\ isClosed = FALSE
  /\ s = [cancelOnError |-> FALSE, inputPaused |-> FALSE, canceled |-> FALSE,
          waitForCancel |-> FALSE, hasPending |-> FALSE, pauses |-> 0]
  /\ pending = <<>> /\ scheduled = "UNSCHEDULED"
  /\ running = Idle /\ cancelFuture = "none"
  /\ added = 0 /\ delivered = 0 /\ toldPaused = FALSE /\ over = "no"

InCallback == running.kind # "none"
IsPaused(t) == t.pauses > 0
\* Mutant: events that wait are not looked at.
CanFireAnyway == ~InCallback /\ ~IsPaused(s)

CanFire == ~InCallback /\ ~s.hasPending /\ ~IsPaused(s)

\* The callback kind starts; was is the wasInputPaused of its caller.
Begin(kind, was) == running' = [kind |-> kind, was |-> was]

\* Mutant: a canceled microtask is taken for one that will run.
ScheduleUnlessUnderWay ==
  scheduled' = IF scheduled = "UNSCHEDULED" THEN "SCHEDULED" ELSE scheduled

\* _PendingEvents.schedule()
Schedule == scheduled' = "SCHEDULED"

-----------------------------------------------------------------------------
(* Notifying the controller and the listener                                *)

\* _guardCallback(_onPause) and _guardCallback(_onResume), for the flags t.
Guarded(kind, t) ==
  /\ Begin(kind, t.inputPaused) /\ toldPaused' = (kind = "onPause")

\* Mutant: what a callback of the loop changed is not looked at again.
CheckStateOnce(t, was) ==
  LET seen == t.inputPaused = was \/ running.kind \in {"loopPause", "loopResume"} IN
  \/ /\ t.canceled /\ pending' = <<>> /\ running' = Idle
     /\ UNCHANGED <<scheduled, toldPaused>>
  \/ /\ ~t.canceled /\ ~seen
     /\ Begin(IF t.inputPaused THEN "loopPause" ELSE "loopResume", t.inputPaused)
     /\ toldPaused' = t.inputPaused
     /\ UNCHANGED <<pending, scheduled>>
  \/ /\ ~t.canceled /\ seen /\ running' = Idle
     /\ IF t.hasPending /\ ~IsPaused(t) THEN Schedule ELSE UNCHANGED scheduled
     /\ UNCHANGED <<pending, toldPaused>>

\* The loop of _checkState() from its head, for the flags t that it finds.
CheckStateLoop(t, was) ==
  \/ /\ t.canceled /\ pending' = <<>> /\ running' = Idle
     /\ UNCHANGED <<scheduled, toldPaused>>
  \/ /\ ~t.canceled /\ t.inputPaused # was
     /\ Begin(IF t.inputPaused THEN "loopPause" ELSE "loopResume", t.inputPaused)
     /\ toldPaused' = t.inputPaused
     /\ UNCHANGED <<pending, scheduled>>
  \/ /\ ~t.canceled /\ t.inputPaused = was /\ running' = Idle
     /\ IF t.hasPending /\ ~IsPaused(t) THEN Schedule ELSE UNCHANGED scheduled
     /\ UNCHANGED <<pending, toldPaused>>

\* _checkState()
CheckState(was) ==
  LET drained == s.hasPending /\ pending = <<>>
      t == [s EXCEPT !.hasPending = ~drained /\ @,
                     !.inputPaused = @ /\ ~(drained /\ ~IsPaused(s))]
  IN  s' = t /\ CheckStateLoop(t, was)

\* _cancel() of a subscription with the flags t, whose _pending has the state sch, and
\* _recordCancel(): future says whether the controller's onCancel() returns a future,
\* and next what the subscription does when that completes.  The done future of the
\* controller, which is completed after onCancel(), is left out.
Cancel(t, sch, future, next) ==
  /\ scheduled' = IF t.hasPending /\ sch = "SCHEDULED" THEN "CANCELED" ELSE sch
  /\ pending' = IF InCallback THEN pending ELSE <<>>
  /\ controller' = "CANCELED"
  /\ cancelFuture' = IF future THEN next ELSE "none"

\* _sendData() and, unless it cancels, _sendError() of the event that is due.
SendEvent(t) ==
  /\ s' = t /\ Begin("onEvent", t.inputPaused)
  /\ delivered' = delivered + 1
  /\ UNCHANGED <<controller, cancelFuture, over>>

\* _sendError() with cancelOnError; again: onCancel() calls cancel(), too, which
\* discards the error.
SendLastError(t, sch) ==
  \E future, again \in BOOLEAN :
    /\ s' = [t EXCEPT !.canceled = TRUE, !.waitForCancel = ~again]
    /\ Cancel(t, sch, future, "onLastError")
    /\ IF future \/ again THEN UNCHANGED <<running, delivered>>
       ELSE Begin("onLastError", FALSE) /\ delivered' = delivered + 1
    /\ over' = IF again THEN "canceled" ELSE IF future THEN over ELSE "ended"

\* _sendDone(): the wish to be told is noted when _cancel() has returned, so that a
\* cancel() that onCancel() calls (again) is forgotten and the event is delivered.
SendDone(t, sch) ==
  \E future, again \in BOOLEAN :
    /\ s' = [t EXCEPT !.canceled = TRUE, !.waitForCancel = TRUE]
    /\ Cancel(t, sch, future, "onDone")
    /\ IF future THEN UNCHANGED running ELSE Begin("onDone", FALSE)
    /\ over' = IF again THEN "canceledWithin" ELSE IF future THEN over ELSE "ended"
    /\ UNCHANGED delivered

\* _DelayedEvent.perform(): pending and scheduled are as the caller leaves them,
\* unless the event cancels the subscription.
Send(event, t, p, sch) ==
  \/ /\ event.kind = "data" \/ (event.kind = "error" /\ ~t.cancelOnError)
     /\ SendEvent(t) /\ pending' = p /\ scheduled' = sch
  \/ event.kind = "error" /\ t.cancelOnError /\ SendLastError(t, sch)
  \/ event.kind = "done" /\ SendDone(t, sch)

\* _addPending()
AddPending(event) ==
  /\ pending' = Append(pending, event)
  /\ s' = [s EXCEPT !.hasPending = TRUE]
  /\ IF ~s.hasPending /\ ~IsPaused(s) THEN Schedule ELSE UNCHANGED scheduled
  /\ UNCHANGED <<controller, running, cancelFuture, delivered, over>>

-----------------------------------------------------------------------------
(* The controller's side                                                    *)

\* What add(), addError() and close() do with the event.
Dispatch(event) ==
  \/ /\ controller = "SUBSCRIBED"
     /\ IF sync /\ CanFire THEN Send(event, s, pending, scheduled) ELSE AddPending(event)
  \/ /\ controller = "INITIAL" /\ pending' = Append(pending, event)
     /\ UNCHANGED <<controller, s, scheduled, running, cancelFuture, delivered, over>>
  \/ /\ controller = "CANCELED"
     /\ UNCHANGED <<controller, s, pending, scheduled, running, cancelFuture, delivered, over>>

Add(kind) ==
  /\ ~isClosed /\ added < MaxEvents /\ added' = added + 1
  /\ Dispatch([kind |-> kind, number |-> added + 1])
  /\ UNCHANGED <<sync, isClosed, toldPaused>>

Close ==
  /\ ~isClosed /\ isClosed' = TRUE
  /\ Dispatch([kind |-> "done", number |-> added + 1])
  /\ UNCHANGED <<sync, added, toldPaused>>

\* The future of onCancel() completes.  The listener may have called cancel() since.
CancelCompletes ==
  /\ ~InCallback /\ cancelFuture # "none" /\ cancelFuture' = "none"
  /\ IF s.waitForCancel
     THEN /\ Begin(cancelFuture, FALSE) /\ over' = "ended"
          /\ delivered' = IF cancelFuture = "onLastError" THEN delivered + 1 ELSE delivered
     ELSE UNCHANGED <<running, delivered, over>>
  /\ UNCHANGED <<sync, controller, isClosed, s, pending, scheduled, added, toldPaused>>

-----------------------------------------------------------------------------
(* The listener's side                                                      *)

\* listen(): _subscribe() hands over the events that were added before.
Listen(cancelOnError) ==
  /\ controller = "INITIAL" /\ controller' = "SUBSCRIBED"
  /\ s' = [s EXCEPT !.cancelOnError = cancelOnError, !.hasPending = pending # <<>>]
  /\ IF pending # <<>> THEN Schedule ELSE UNCHANGED scheduled
  /\ Begin("onListen", FALSE)
  /\ UNCHANGED <<sync, isClosed, pending, cancelFuture, added, delivered, toldPaused, over>>

\* listen() has returned the subscription.
HasSubscription == controller # "INITIAL" /\ running.kind # "onListen"

\* Mutant: the microtask that is under way is not taken back.
PauseKeepsSchedule ==
  LET t == [s EXCEPT !.pauses = @ + 1, !.inputPaused = TRUE] IN
  /\ HasSubscription /\ ~s.canceled /\ s.pauses < MaxPauses
  /\ s' = t
  /\ IF ~s.inputPaused /\ ~InCallback THEN Guarded("onPause", t) ELSE UNCHANGED <<running, toldPaused>>
  /\ UNCHANGED <<sync, controller, isClosed, pending, scheduled, cancelFuture, added, delivered, over>>

Pause ==
  LET t == [s EXCEPT !.pauses = @ + 1, !.inputPaused = TRUE] IN
  /\ HasSubscription /\ ~s.canceled /\ s.pauses < MaxPauses
  /\ s' = t
  /\ scheduled' = IF ~IsPaused(s) /\ scheduled = "SCHEDULED" THEN "CANCELED" ELSE scheduled
  /\ IF ~s.inputPaused /\ ~InCallback THEN Guarded("onPause", t) ELSE UNCHANGED <<running, toldPaused>>
  /\ UNCHANGED <<sync, controller, isClosed, pending, cancelFuture, added, delivered, over>>

Resume ==
  LET t == [s EXCEPT !.pauses = @ - 1]
      u == [t EXCEPT !.inputPaused = FALSE]
  IN
  /\ HasSubscription /\ ~s.canceled /\ IsPaused(s)
  /\ \/ /\ IsPaused(t) /\ s' = t /\ UNCHANGED <<scheduled, running, toldPaused>>
     \/ /\ ~IsPaused(t) /\ s.hasPending /\ pending # <<>>
        /\ s' = t /\ Schedule /\ UNCHANGED <<running, toldPaused>>
     \/ /\ ~IsPaused(t) /\ ~(s.hasPending /\ pending # <<>>)
        /\ s' = u /\ UNCHANGED scheduled
        /\ IF InCallback THEN UNCHANGED <<running, toldPaused>> ELSE Guarded("onResume", u)
  /\ UNCHANGED <<sync, controller, isClosed, pending, cancelFuture, added, delivered, over>>

\* cancel(); an event that waits for the end of a cancel is discarded.
CancelByListener ==
  /\ HasSubscription /\ over' = "canceled"
  /\ s' = [s EXCEPT !.waitForCancel = FALSE, !.canceled = TRUE]
  /\ IF s.canceled THEN UNCHANGED <<controller, pending, scheduled, cancelFuture>>
     ELSE \E future \in BOOLEAN : Cancel(s, scheduled, future, "nothing")
  /\ UNCHANGED <<sync, isClosed, running, added, delivered, toldPaused>>

\* A callback returns.
Return ==
  /\ InCallback
  /\ \/ running.kind \in {"onEvent", "onListen", "onPause", "onResume"} /\ CheckState(running.was)
     \/ running.kind \in {"loopPause", "loopResume"} /\ CheckStateLoop(s, running.was) /\ UNCHANGED s
     \/ /\ running.kind \in {"onLastError", "onDone"} /\ running' = Idle
        /\ UNCHANGED <<s, pending, scheduled, toldPaused>>
  /\ UNCHANGED <<sync, controller, isClosed, cancelFuture, added, delivered, over>>

\* The microtask of _PendingEvents.schedule(): handleNext(), unless it was canceled.
HandleNext ==
  /\ ~InCallback /\ scheduled # "UNSCHEDULED"
  /\ \/ /\ scheduled = "CANCELED" /\ scheduled' = "UNSCHEDULED"
        /\ UNCHANGED <<controller, s, pending, running, cancelFuture, delivered, over>>
     \/ /\ scheduled = "SCHEDULED" /\ pending # <<>>
        /\ Send(pending[1], s, Tail(pending), "UNSCHEDULED")
  /\ UNCHANGED <<sync, isClosed, added, toldPaused>>

-----------------------------------------------------------------------------

Next ==
  \/ \E kind \in {"data", "error"} : Add(kind)
  \/ Close
  \/ \E cancelOnError \in BOOLEAN : Listen(cancelOnError)
  \/ Pause \/ Resume \/ CancelByListener
  \/ CancelCompletes
  \/ Return
  \/ HandleNext

\* Callbacks return, microtasks run and the future that onCancel() returns completes.
Spec == Init /\ [][Next]_vars /\ WF_vars(Return) /\ WF_vars(HandleNext) /\ WF_vars(CancelCompletes)

-----------------------------------------------------------------------------
(* Properties                                                               *)

\* Until the subscription is canceled no event is lost, doubled or overtaken: what waits
\* in _pending is what was added after the last event delivered, the done event last,
\* and a microtask that will call handleNext() has an event to take (_addPending(),
\* _setPendingEvents(), handleNext(), the assertion !isEmpty of schedule()).
EventsKept ==
  ~s.canceled =>
    /\ \A i \in DOMAIN pending : pending[i].number = delivered + i
    /\ delivered + Len(pending) = added + (IF isClosed THEN 1 ELSE 0)
    /\ scheduled = "SCHEDULED" => pending # <<>> /\ s.hasPending

\* When no callback runs, the source has last been told what the subscription wants of
\* it, however pause() and resume() were called within callbacks and although the input
\* stays paused while old events are delivered (_checkState(), _onPause(), _onResume()).
ControllerIsTold ==
  ~InCallback /\ ~s.canceled => toldPaused = s.inputPaused

\* The listener is given an event.
EventBegins == running'.kind \in {"onEvent", "onLastError", "onDone"} /\ running' # running

\* The listener is given an event only while it has not paused, and no event follows the
\* done event, an error that cancels, or its call of cancel() (pause() against the
\* microtask that is under way, cancel() while the done event waits for onCancel()).
\* The one exception is the done event whose own onCancel() calls cancel(): _sendDone()
\* forgets that call; but a cancel() after that, before the event, is respected.
EventsOnlyWhenWanted ==
  [][EventBegins =>
       /\ \/ over = "no"
          \/ over = "canceledWithin" /\ cancelFuture = "onDone" /\ running'.kind = "onDone"
       /\ over' # "canceled"
       /\ s.canceled \/ ~IsPaused(s)]_vars

\* "Cancels this subscription.  It will no longer receive events" (cancel() in
\* stream.dart): once the listener has called cancel() it is given no event.  _sendDone()
\* breaks this for a cancel() in the onCancel() that the done event itself causes.
NothingAfterCancel ==
  [][EventBegins => {over, over'} \intersect {"canceled", "canceledWithin"} = {}]_vars

\* A listener that does not stay paused sees a closed stream end: every microtask that a
\* cancelSchedule() took back is scheduled again (resume(), _checkState(), sendDone()).
StreamEnds ==
  (isClosed /\ controller # "INITIAL") ~> (over # "no" \/ IsPaused(s))
=============================================================================
