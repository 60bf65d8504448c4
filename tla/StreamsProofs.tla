---------------------------- MODULE StreamsProofs ----------------------------
(***************************************************************************)
(* Theorems about Streams: the properties of a subscription hold for any     *)
(* number of events and pauses.                                              *)
(***************************************************************************)
EXTENDS Streams, SequenceTheorems, TLAPS

Events == [kind : {"data", "error", "done"}, number : Nat]
Flags == [cancelOnError : BOOLEAN, inputPaused : BOOLEAN, canceled : BOOLEAN,
          waitForCancel : BOOLEAN, hasPending : BOOLEAN, pauses : Nat]
LastCallbacks == {"onLastError", "onDone"}
Loops == {"loopPause", "loopResume"}
Callbacks == {"none", "onListen", "onEvent", "onPause", "onResume"} \cup Loops \cup LastCallbacks

\* The variables have the types that the fields of the two classes have.
TypeOK ==
  /\ sync \in BOOLEAN /\ isClosed \in BOOLEAN
  /\ controller \in {"INITIAL", "SUBSCRIBED", "CANCELED"}
  /\ s \in Flags
  /\ pending \in Seq(Events)
  /\ scheduled \in {"UNSCHEDULED", "SCHEDULED", "CANCELED"}
  /\ running \in [kind : Callbacks, was : BOOLEAN]
  /\ cancelFuture \in {"none", "nothing"} \cup LastCallbacks
  /\ added \in Nat /\ delivered \in Nat
  /\ toldPaused \in BOOLEAN /\ over \in {"no", "ended", "canceled", "canceledWithin"}

-----------------------------------------------------------------------------
(* The inductive invariant                                                  *)

\* Nothing has happened to a subscription that is not there, and a controller is
\* told of the end of its subscription when that ends.
Subscribed ==
  /\ controller = "INITIAL" =>
       /\ ~InCallback /\ ~toldPaused /\ scheduled = "UNSCHEDULED"
       /\ ~s.inputPaused /\ ~s.hasPending /\ s.pauses = 0
  /\ s.canceled <=> controller = "CANCELED"
  /\ cancelFuture # "none" \/ running.kind \in LastCallbacks \/ over # "no" => s.canceled

\* While a callback runs, its caller remembers what the source was told last.
Told ==
  ~s.canceled => IF InCallback THEN running.was = toldPaused ELSE toldPaused = s.inputPaused

\* Events that wait are known to wait, and the loop of _checkState() is entered with
\* the flag set right.
Queued ==
  /\ EventsKept
  /\ controller = "SUBSCRIBED" /\ pending # <<>> => s.hasPending
  /\ running.kind \in Loops /\ s.hasPending /\ ~s.canceled => pending # <<>>

\* A microtask that will deliver belongs to a listener that is neither paused nor
\* canceled, and a last event that waits for onCancel() to one that has not canceled,
\* except within the onCancel() of its done event.
Wanted ==
  /\ scheduled = "SCHEDULED" => ~s.canceled /\ ~IsPaused(s)
  /\ cancelFuture # "none" /\ s.waitForCancel =>
       /\ cancelFuture \in LastCallbacks
       /\ over = "no" \/ (over = "canceledWithin" /\ cancelFuture = "onDone")

StreamInv == TypeOK /\ Subscribed /\ Told /\ Queued /\ Wanted

-----------------------------------------------------------------------------
(* Delivering an event                                                      *)

\* The callback that starts is one of those that the subscription calls.
LEMMA CallbackType ==
  ASSUME NEW kind \in Callbacks, NEW was \in BOOLEAN, Begin(kind, was)
  PROVE  running' \in [kind : Callbacks, was : BOOLEAN] /\ running'.kind = kind /\ running'.was = was
BY DEF Begin

\* An event that is sent to a listener that wants it, with the events p behind it,
\* keeps the invariant (_sendData(), _sendError(), _sendDone()).
LEMMA SendKeeps ==
  ASSUME StreamInv, controller = "SUBSCRIBED", ~InCallback, ~IsPaused(s),
         NEW event \in Events, event.number = delivered + 1,
         NEW p \in Seq(Events), p # <<>> => s.hasPending,
         \A i \in DOMAIN p : p[i].number = delivered + 1 + i,
         NEW sch \in {"UNSCHEDULED", "CANCELED"},
         Send(event, s, p, sch),
         added' \in Nat, isClosed' \in BOOLEAN, UNCHANGED <<sync, toldPaused>>,
         event.kind # "done" =>
           delivered + 1 + Len(p) = added' + (IF isClosed' THEN 1 ELSE 0)
  PROVE  StreamInv'
<1>1. s \in Flags /\ running \in [kind : Callbacks, was : BOOLEAN] /\ delivered \in Nat
  BY DEF StreamInv, TypeOK
<1>2. ~s.canceled /\ over = "no" /\ s.canceled \in BOOLEAN /\ cancelFuture = "none"
  BY <1>1 DEF StreamInv, Subscribed, Flags
<1>3. CASE event.kind # "done" /\ SendEvent(s) /\ pending' = p /\ scheduled' = sch
  <2>1. TypeOK'
    BY <1>1, <1>3 DEF SendEvent, Begin, StreamInv, TypeOK, Callbacks, Loops, LastCallbacks, Flags
  <2>2. Subscribed'
    BY <1>1, <1>2, <1>3 DEF SendEvent, Begin, StreamInv, Subscribed, InCallback, LastCallbacks
  <2>3. Told'
    BY <1>1, <1>2, <1>3 DEF SendEvent, Begin, StreamInv, Told, InCallback
  <2>4. Queued'
    BY <1>1, <1>2, <1>3 DEF SendEvent, Begin, Queued, EventsKept, Loops
  <2>5. Wanted'
    BY <1>1, <1>2, <1>3 DEF SendEvent, Wanted, LastCallbacks
  <2> QED
    BY <2>1, <2>2, <2>3, <2>4, <2>5 DEF StreamInv
<1>4. CASE SendLastError(s, sch)
  <2> PICK future \in BOOLEAN, again \in BOOLEAN :
        /\ s' = [s EXCEPT !.canceled = TRUE, !.waitForCancel = ~again]
        /\ Cancel(s, sch, future, "onLastError")
        /\ IF future \/ again THEN UNCHANGED <<running, delivered>>
           ELSE Begin("onLastError", FALSE) /\ delivered' = delivered + 1
        /\ over' = IF again THEN "canceled" ELSE IF future THEN over ELSE "ended"
    BY <1>4 DEF SendLastError
  <2>0. s' \in Flags /\ s'.canceled /\ s'.waitForCancel = ~again
    BY <1>1 DEF Flags
  <2>00. /\ controller' = "CANCELED" /\ pending' = <<>> /\ scheduled' \in {"UNSCHEDULED", "CANCELED"}
         /\ cancelFuture' = IF future THEN "onLastError" ELSE "none"
    BY <1>1 DEF Cancel
  <2>01. running' \in [kind : Callbacks, was : BOOLEAN] /\ delivered' \in Nat
    <3>1. "onLastError" \in Callbacks /\ "onDone" \in Callbacks
      BY DEF Callbacks, LastCallbacks
    <3>2. CASE future \/ again
      BY <1>1, <3>2
    <3>3. CASE ~(future \/ again)
      <4>1. Begin("onLastError", FALSE) /\ delivered' = delivered + 1
        BY <3>3
      <4>2. running' \in [kind : Callbacks, was : BOOLEAN]
        BY <3>1, <4>1, CallbackType
      <4> QED
        BY <1>1, <4>1, <4>2
    <3> QED
      BY <3>2, <3>3
  <2>02. over' \in {"no", "ended", "canceled", "canceledWithin"}
    BY <1>2
  <2>1. TypeOK'
    BY <2>0, <2>00, <2>01, <2>02 DEF StreamInv, TypeOK, LastCallbacks
  <2>2. Subscribed' /\ Told' /\ Queued'
    BY <1>1, <2>0, <2>00 DEF Subscribed, Told, Queued, EventsKept
  <2>3. Wanted'
    BY <1>1, <1>2, <2>0, <2>00 DEF Wanted, LastCallbacks
  <2> QED
    BY <2>1, <2>2, <2>3 DEF StreamInv
<1>5. CASE SendDone(s, sch)
  <2> PICK future \in BOOLEAN, again \in BOOLEAN :
        /\ s' = [s EXCEPT !.canceled = TRUE, !.waitForCancel = TRUE]
        /\ Cancel(s, sch, future, "onDone")
        /\ IF future THEN UNCHANGED running ELSE Begin("onDone", FALSE)
        /\ over' = IF again THEN "canceledWithin" ELSE IF future THEN over ELSE "ended"
        /\ UNCHANGED delivered
    BY <1>5 DEF SendDone
  <2>0. s' \in Flags /\ s'.canceled /\ s'.waitForCancel
    BY <1>1 DEF Flags
  <2>00. /\ controller' = "CANCELED" /\ pending' = <<>> /\ scheduled' \in {"UNSCHEDULED", "CANCELED"}
         /\ cancelFuture' = IF future THEN "onDone" ELSE "none"
    BY <1>1 DEF Cancel
  <2>01. running' \in [kind : Callbacks, was : BOOLEAN] /\ delivered' \in Nat
    <3>1. "onLastError" \in Callbacks /\ "onDone" \in Callbacks
      BY DEF Callbacks, LastCallbacks
    <3> QED
      BY <1>1, <3>1, CallbackType
  <2>02. over' \in {"no", "ended", "canceled", "canceledWithin"}
    BY <1>2
  <2>1. TypeOK'
    BY <2>0, <2>00, <2>01, <2>02 DEF StreamInv, TypeOK, LastCallbacks
  <2>2. Subscribed' /\ Told' /\ Queued'
    BY <1>1, <2>0, <2>00 DEF Subscribed, Told, Queued, EventsKept
  <2>3. Wanted'
    BY <1>1, <1>2, <2>0, <2>00 DEF Wanted, LastCallbacks
  <2> QED
    BY <2>1, <2>2, <2>3 DEF StreamInv
<1> QED
  BY <1>3, <1>4, <1>5 DEF Send

-----------------------------------------------------------------------------
(* The actions                                                              *)

\* An event with the next number can be put behind events that are numbered from d + 1.
LEMMA AppendNumbered ==
  ASSUME NEW d \in Nat, NEW q \in Seq(Events), NEW event \in Events,
         event.number = d + Len(q) + 1, \A i \in DOMAIN q : q[i].number = d + i
  PROVE  /\ Append(q, event) \in Seq(Events) /\ Append(q, event) # <<>>
         /\ Len(Append(q, event)) = Len(q) + 1
         /\ \A i \in DOMAIN Append(q, event) : Append(q, event)[i].number = d + i
<1>1. Append(q, event) \in Seq(Events) /\ Append(q, event) # <<>> /\ Len(Append(q, event)) = Len(q) + 1
  BY AppendProperties
<1>2. ASSUME NEW i \in 1 .. Len(q) + 1  PROVE Append(q, event)[i].number = d + i
  <2>1. CASE i \in 1 .. Len(q)
    BY <2>1, AppendProperties
  <2>2. CASE i = Len(q) + 1
    BY <2>2, AppendProperties
  <2> QED
    BY <2>1, <2>2
<1> QED
  BY <1>1, <1>2

\* add(), addError() and close() keep the invariant.
LEMMA DispatchKeeps ==
  ASSUME StreamInv, ~isClosed, NEW event \in Events, event.number = added + 1, Dispatch(event),
         added' \in Nat, isClosed' \in BOOLEAN, UNCHANGED <<sync, toldPaused>>,
         added' + (IF isClosed' THEN 1 ELSE 0) = added + 1
  PROVE  StreamInv'
<1> DEFINE all == added' + (IF isClosed' THEN 1 ELSE 0)
<1>all. all = added + 1
  OBVIOUS
<1> HIDE DEF all
<1>1. /\ s \in Flags /\ pending \in Seq(Events) /\ added \in Nat /\ delivered \in Nat
      /\ s.canceled \in BOOLEAN /\ s.hasPending \in BOOLEAN
  BY DEF StreamInv, TypeOK, Flags
<1>0. ~s.canceled =>
        delivered + Len(pending) = added /\ \A i \in DOMAIN pending : pending[i].number = delivered + i
  BY <1>1 DEF StreamInv, Queued, EventsKept
<1>2. CASE controller = "SUBSCRIBED" /\ sync /\ CanFire /\ Send(event, s, pending, scheduled)
  <2>1. pending = <<>> /\ ~s.canceled /\ ~InCallback /\ ~IsPaused(s)
    BY <1>1, <1>2 DEF StreamInv, Queued, Subscribed, CanFire
  <2>2. scheduled \in {"UNSCHEDULED", "CANCELED"}
    BY <2>1, <1>1 DEF StreamInv, Queued, EventsKept, TypeOK
  <2>3. delivered = added
    BY <2>1, <1>1 DEF StreamInv, Queued, EventsKept
  <2>4. event.number = delivered + 1 /\ \A i \in DOMAIN pending : pending[i].number = delivered + 1 + i
    BY <1>1, <2>1, <2>3
  <2>5. delivered + 1 + Len(pending) = all
    BY <1>1, <1>all, <2>1, <2>3
  <2> QED
    BY <1>1, <1>2, <2>1, <2>2, <2>4, <2>5, SendKeeps DEF all
<1>3. CASE controller = "SUBSCRIBED" /\ AddPending(event)
  <2>1. ~s.canceled
    BY <1>3 DEF StreamInv, Subscribed
  <2>2. s' \in Flags /\ s' = [s EXCEPT !.hasPending = TRUE] /\ s'.hasPending
    BY <1>1, <1>3 DEF AddPending, Flags
  <2>3. pending' = Append(pending, event) /\ pending' \in Seq(Events) /\ pending' # <<>>
        /\ UNCHANGED <<controller, running, cancelFuture, delivered, over>>
    BY <1>1, <1>3 DEF AddPending
  <2>4. /\ s'.canceled = s.canceled /\ s'.inputPaused = s.inputPaused /\ s'.pauses = s.pauses
        /\ s'.waitForCancel = s.waitForCancel
    BY <1>1, <2>2 DEF Flags
  <2>5. /\ scheduled' \in {"UNSCHEDULED", "SCHEDULED", "CANCELED"}
        /\ scheduled' = "SCHEDULED" => scheduled = "SCHEDULED" \/ ~IsPaused(s)
    BY <1>3 DEF AddPending, Schedule, StreamInv, TypeOK
  <2>6. TypeOK'
    BY <2>2, <2>3, <2>5 DEF StreamInv, TypeOK
  <2>7. Subscribed' /\ Told'
    BY <1>3, <2>3, <2>4 DEF StreamInv, Subscribed, Told, InCallback
  <2>8. EventsKept'
    <3>1. event.number = delivered + Len(pending) + 1
      BY <1>1, <1>0, <2>1
    <3>2. Len(pending') = Len(pending) + 1 /\ \A i \in DOMAIN pending' : pending'[i].number = delivered + i
      BY <1>1, <1>0, <2>1, <2>3, <3>1, AppendNumbered
    <3>3. delivered' = delivered
      BY <2>3
    <3>4. delivered + Len(pending') = all
      <4>1. Len(pending) \in Nat /\ delivered + Len(pending) = added
        BY <1>1, <1>0, <2>1
      <4> QED
        BY <1>1, <1>all, <3>2, <4>1
    <3> QED
      BY <2>2, <2>3, <3>2, <3>3, <3>4 DEF EventsKept, all
  <2>9. Queued' /\ Wanted'
    BY <2>1, <2>2, <2>3, <2>4, <2>5, <2>8 DEF StreamInv, Queued, Wanted, IsPaused
  <2> QED
    BY <2>6, <2>7, <2>9 DEF StreamInv
<1>4. CASE /\ controller = "INITIAL" /\ pending' = Append(pending, event)
           /\ UNCHANGED <<controller, s, scheduled, running, cancelFuture, delivered, over>>
  <2>1. ~s.canceled /\ scheduled = "UNSCHEDULED" /\ running.kind = "none"
    BY <1>4 DEF StreamInv, Subscribed, InCallback
  <2>2. TypeOK' /\ pending' \in Seq(Events)
    BY <1>1, <1>4 DEF StreamInv, TypeOK
  <2>3. Subscribed' /\ Told' /\ Wanted'
    BY <1>4 DEF StreamInv, Subscribed, Told, InCallback, Wanted, IsPaused
  <2>4. EventsKept'
    <3>1. event.number = delivered + Len(pending) + 1
      BY <1>1, <1>0, <2>1
    <3>2. pending' = Append(pending, event) /\ delivered' = delivered /\ scheduled' = "UNSCHEDULED"
      BY <1>4, <2>1
    <3>3. Len(pending') = Len(pending) + 1 /\ \A i \in DOMAIN pending' : pending'[i].number = delivered + i
      BY <1>1, <1>0, <2>1, <3>1, <3>2, AppendNumbered
    <3>4. delivered + Len(pending') = all
      <4>1. Len(pending) \in Nat /\ delivered + Len(pending) = added
        BY <1>1, <1>0, <2>1
      <4> QED
        BY <1>1, <1>all, <3>3, <4>1
    <3> QED
      BY <3>2, <3>3, <3>4 DEF EventsKept, all
  <2>5. running'.kind = "none" /\ controller' = "INITIAL"
    BY <1>4, <2>1
  <2>6. Queued'
    BY <2>4, <2>5 DEF Queued, Loops
  <2> QED
    BY <2>2, <2>3, <2>6 DEF StreamInv
<1>5. CASE /\ controller = "CANCELED"
           /\ UNCHANGED <<controller, s, pending, scheduled, running, cancelFuture, delivered, over>>
  <2>1. s.canceled
    BY <1>5 DEF StreamInv, Subscribed
  <2>2. TypeOK'
    BY <1>5 DEF StreamInv, TypeOK
  <2>3. Subscribed' /\ Told' /\ Wanted' /\ Queued'
    BY <1>5, <2>1 DEF StreamInv, Subscribed, Told, InCallback, Wanted, IsPaused, Queued, EventsKept
  <2> QED
    BY <2>2, <2>3 DEF StreamInv
<1> QED
  BY <1>2, <1>3, <1>4, <1>5 DEF Dispatch

\* listen() keeps the invariant.
LEMMA ListenKeeps ==
  ASSUME StreamInv, NEW cancelOnError \in BOOLEAN, Listen(cancelOnError)
  PROVE  StreamInv'
<1> USE DEF Listen
<1>1. s \in Flags /\ pending \in Seq(Events)
  BY DEF StreamInv, TypeOK
<1>2. s' \in Flags /\ s'.hasPending = (pending # <<>>)
  BY <1>1 DEF Flags
<1>3. /\ s'.canceled = s.canceled /\ s'.inputPaused = s.inputPaused /\ s'.pauses = s.pauses
      /\ s'.waitForCancel = s.waitForCancel
  BY <1>1 DEF Flags
<1>4. /\ running' \in [kind : Callbacks, was : BOOLEAN]
      /\ running'.kind = "onListen" /\ running'.was = FALSE
  BY CallbackType DEF Callbacks
<1>5. ~s.canceled /\ ~toldPaused /\ over = "no" /\ cancelFuture = "none" /\ s.pauses = 0 /\ scheduled = "UNSCHEDULED"
  BY DEF StreamInv, Subscribed
<1>6. /\ scheduled' \in {"UNSCHEDULED", "SCHEDULED", "CANCELED"}
      /\ scheduled' = "SCHEDULED" => pending # <<>>
  BY <1>5 DEF Schedule
<1>7. TypeOK'
  BY <1>1, <1>2, <1>4, <1>6 DEF StreamInv, TypeOK
<1>8. Subscribed' /\ Told'
  BY <1>3, <1>4, <1>5 DEF StreamInv, Subscribed, Told, InCallback, LastCallbacks, TypeOK
<1>9. Queued'
  BY <1>2, <1>3, <1>4, <1>5, <1>6 DEF StreamInv, Queued, EventsKept, Loops
<1>10. Wanted'
  BY <1>3, <1>5 DEF Wanted, IsPaused
<1> QED
  BY <1>7, <1>8, <1>9, <1>10 DEF StreamInv

\* pause() keeps the invariant.
LEMMA PauseKeeps ==
  ASSUME StreamInv, Pause
  PROVE  StreamInv'
<1> USE DEF Pause
<1>1. s \in Flags /\ running \in [kind : Callbacks, was : BOOLEAN]
  BY DEF StreamInv, TypeOK
<1>2. s' \in Flags /\ s'.inputPaused
  <2>1. s.pauses + 1 \in Nat
    BY <1>1 DEF Flags
  <2> QED
    BY <1>1, <2>1 DEF Flags
<1>3. /\ s'.canceled = s.canceled /\ s'.hasPending = s.hasPending
      /\ s'.waitForCancel = s.waitForCancel /\ ~s.canceled /\ controller # "INITIAL"
  BY <1>1 DEF Flags, HasSubscription
<1>4. \/ /\ s.inputPaused \/ InCallback
         /\ UNCHANGED <<running, toldPaused>>
      \/ /\ ~s.inputPaused /\ ~InCallback /\ toldPaused' = TRUE
         /\ running' \in [kind : Callbacks, was : BOOLEAN]
         /\ running'.kind = "onPause" /\ running'.was = TRUE
  <2>1. CASE ~s.inputPaused /\ ~InCallback
    <3> DEFINE t == [s EXCEPT !.pauses = @ + 1, !.inputPaused = TRUE]
    <3>1. Guarded("onPause", t) /\ t.inputPaused = TRUE
      BY <2>1, <1>1 DEF Flags
    <3>2. Begin("onPause", TRUE) /\ toldPaused' = TRUE
      BY <3>1 DEF Guarded
    <3>3. "onPause" \in Callbacks
      BY DEF Callbacks
    <3> QED
      BY <2>1, <3>2, <3>3, CallbackType
  <2>2. CASE ~(~s.inputPaused /\ ~InCallback)
    BY <2>2
  <2> QED
    BY <2>1, <2>2
<1>5. scheduled' \in {"UNSCHEDULED", "CANCELED"}
  BY DEF StreamInv, TypeOK, Wanted
<1>6. TypeOK'
  BY <1>1, <1>2, <1>4, <1>5 DEF StreamInv, TypeOK
<1>7. Subscribed'
  BY <1>3, <1>4 DEF StreamInv, Subscribed, LastCallbacks
<1>8. Told'
  BY <1>2, <1>3, <1>4 DEF StreamInv, Told, InCallback
<1>9. Queued'
  BY <1>3, <1>4, <1>5 DEF StreamInv, Queued, EventsKept, Loops
<1>10. Wanted'
  BY <1>3, <1>5 DEF StreamInv, Wanted
<1> QED
  BY <1>6, <1>7, <1>8, <1>9, <1>10 DEF StreamInv

\* resume() keeps the invariant.
LEMMA ResumeKeeps ==
  ASSUME StreamInv, Resume
  PROVE  StreamInv'
<1> DEFINE t == [s EXCEPT !.pauses = @ - 1]
           u == [t EXCEPT !.inputPaused = FALSE]
<1>1. s \in Flags /\ running \in [kind : Callbacks, was : BOOLEAN] /\ s.pauses > 0 /\ ~s.canceled
  BY DEF StreamInv, TypeOK, Resume, IsPaused
<1>2. /\ HasSubscription
      /\ UNCHANGED <<sync, controller, isClosed, pending, cancelFuture, added, delivered, over>>
  BY DEF Resume
<1>3. /\ t \in Flags /\ u \in Flags /\ t.pauses = s.pauses - 1 /\ u.pauses = s.pauses - 1
      /\ t.inputPaused = s.inputPaused /\ u.inputPaused = FALSE
  <2>1. s.pauses - 1 \in Nat
    BY <1>1 DEF Flags
  <2>2. t \in Flags /\ t.pauses = s.pauses - 1 /\ t.inputPaused = s.inputPaused
    BY <1>1, <2>1 DEF Flags
  <2>3. u \in Flags /\ u.pauses = t.pauses /\ u.inputPaused = FALSE
    BY <2>2 DEF Flags
  <2> QED
    BY <2>2, <2>3
<1>4. /\ t.canceled = s.canceled /\ t.hasPending = s.hasPending /\ t.waitForCancel = s.waitForCancel
      /\ u.canceled = s.canceled /\ u.hasPending = s.hasPending /\ u.waitForCancel = s.waitForCancel
  BY <1>1 DEF Flags
<1>5. /\ \/ IsPaused(t) /\ s' = t /\ UNCHANGED <<scheduled, running, toldPaused>>
         \/ /\ ~IsPaused(t) /\ s.hasPending /\ pending # <<>>
            /\ s' = t /\ scheduled' = "SCHEDULED" /\ UNCHANGED <<running, toldPaused>>
         \/ /\ ~IsPaused(t) /\ s' = u /\ UNCHANGED scheduled /\ InCallback
            /\ UNCHANGED <<running, toldPaused>>
         \/ /\ ~IsPaused(t) /\ s' = u /\ UNCHANGED scheduled /\ ~InCallback
            /\ Guarded("onResume", u)
  BY DEF Resume, Schedule
<1> HIDE DEF t, u
<1>6. ASSUME ~InCallback, s' = u, Guarded("onResume", u)
      PROVE  /\ running' \in [kind : Callbacks, was : BOOLEAN] /\ toldPaused' = FALSE
             /\ running'.kind = "onResume" /\ running'.was = FALSE
  <2>1. Begin("onResume", FALSE) /\ toldPaused' = FALSE
    BY <1>3, <1>6 DEF Guarded
  <2>2. "onResume" \in Callbacks
    BY DEF Callbacks
  <2> QED
    BY <2>1, <2>2, CallbackType
<1>7. s' \in Flags /\ s'.canceled = s.canceled /\ s'.hasPending = s.hasPending /\ s'.waitForCancel = s.waitForCancel
  BY <1>3, <1>4, <1>5
<1>8. scheduled # "SCHEDULED"
  BY <1>1 DEF StreamInv, Wanted, IsPaused
<1>9. TypeOK'
  <2>1. running' \in [kind : Callbacks, was : BOOLEAN] /\ toldPaused' \in BOOLEAN
    BY <1>1, <1>5, <1>6 DEF StreamInv, TypeOK
  <2>2. scheduled' = scheduled \/ scheduled' = "SCHEDULED"
    BY <1>5
  <2> QED
    BY <1>2, <1>7, <2>1, <2>2 DEF StreamInv, TypeOK
<1>10. Subscribed'
  BY <1>1, <1>2, <1>5, <1>6, <1>7 DEF StreamInv, Subscribed, LastCallbacks, HasSubscription
<1>11. Told'
  BY <1>1, <1>3, <1>5, <1>6, <1>7 DEF StreamInv, Told, InCallback
<1>12. EventsKept'
  BY <1>1, <1>2, <1>5, <1>7, <1>8 DEF StreamInv, Queued, EventsKept
<1>13. Queued'
  BY <1>1, <1>2, <1>5, <1>6, <1>7, <1>12 DEF StreamInv, Queued, Loops
<1>14. Wanted'
  BY <1>1, <1>2, <1>3, <1>5, <1>7, <1>8 DEF StreamInv, Wanted, IsPaused
<1> QED
  BY <1>9, <1>10, <1>11, <1>13, <1>14 DEF StreamInv

\* cancel() keeps the invariant.
LEMMA CancelByListenerKeeps ==
  ASSUME StreamInv, CancelByListener
  PROVE  StreamInv'
<1>1. s \in Flags /\ pending \in Seq(Events)
  BY DEF StreamInv, TypeOK
<1>2. /\ s' = [s EXCEPT !.waitForCancel = FALSE, !.canceled = TRUE] /\ over' = "canceled"
      /\ UNCHANGED <<sync, isClosed, running, added, delivered, toldPaused>>
  BY DEF CancelByListener
<1>3. s' \in Flags /\ s'.canceled /\ ~s'.waitForCancel
  BY <1>1, <1>2 DEF Flags
<1>4. CASE s.canceled /\ UNCHANGED <<controller, pending, scheduled, cancelFuture>>
  <2>1. TypeOK'
    BY <1>2, <1>3, <1>4 DEF StreamInv, TypeOK
  <2>2. Subscribed' /\ Told' /\ Queued' /\ Wanted'
    BY <1>2, <1>3, <1>4 DEF StreamInv, Subscribed, Told, Queued, EventsKept, Wanted
  <2> QED
    BY <2>1, <2>2 DEF StreamInv
<1>5. CASE ~s.canceled /\ \E future \in BOOLEAN : Cancel(s, scheduled, future, "nothing")
  <2>1. /\ controller' = "CANCELED" /\ pending' \in Seq(Events)
        /\ cancelFuture' \in {"none", "nothing"}
        /\ scheduled' \in {"UNSCHEDULED", "CANCELED"}
    BY <1>1, <1>5 DEF Cancel, StreamInv, TypeOK, Queued, EventsKept
  <2>2. TypeOK'
    BY <1>2, <1>3, <2>1 DEF StreamInv, TypeOK
  <2>3. Subscribed' /\ Told' /\ Queued' /\ Wanted'
    BY <1>2, <1>3, <2>1 DEF Subscribed, Told, Queued, EventsKept, Wanted
  <2> QED
    BY <2>2, <2>3 DEF StreamInv
<1> QED
  BY <1>4, <1>5 DEF CancelByListener

\* The completion of the future of onCancel() keeps the invariant.
LEMMA CancelCompletesKeeps ==
  ASSUME StreamInv, CancelCompletes
  PROVE  StreamInv'
<1>1. s \in Flags /\ s.canceled /\ running \in [kind : Callbacks, was : BOOLEAN] /\ delivered \in Nat
  BY DEF StreamInv, TypeOK, CancelCompletes, Subscribed
<1>2. /\ cancelFuture' = "none"
      /\ UNCHANGED <<sync, controller, isClosed, s, pending, scheduled, added, toldPaused>>
  BY DEF CancelCompletes
<1>3. /\ running' \in [kind : Callbacks, was : BOOLEAN] /\ delivered' \in Nat
      /\ over' \in {"no", "ended", "canceled", "canceledWithin"}
  <2>1. CASE s.waitForCancel
    <3>1. cancelFuture \in Callbacks /\ Begin(cancelFuture, FALSE) /\ over' = "ended"
      BY <2>1 DEF CancelCompletes, StreamInv, Wanted, Callbacks
    <3>2. running' \in [kind : Callbacks, was : BOOLEAN]
      BY <3>1, CallbackType
    <3>3. delivered' \in Nat
      BY <1>1, <2>1 DEF CancelCompletes
    <3> QED
      BY <3>1, <3>2, <3>3
  <2>2. CASE ~s.waitForCancel
    BY <1>1, <2>2 DEF CancelCompletes, StreamInv, TypeOK
  <2> QED
    BY <2>1, <2>2
<1>4. TypeOK'
  BY <1>2, <1>3 DEF StreamInv, TypeOK
<1>5. controller = "CANCELED" /\ scheduled # "SCHEDULED"
  BY <1>1 DEF StreamInv, Subscribed, Wanted
<1>6. Subscribed' /\ Told' /\ Queued' /\ Wanted'
  BY <1>1, <1>2, <1>5 DEF Subscribed, Told, Queued, EventsKept, Wanted
<1> QED
  BY <1>4, <1>6 DEF StreamInv

\* _checkState() from the head of its loop, with the flags t in _state, keeps the
\* invariant.
LEMMA CheckStateLoopKeeps ==
  ASSUME StreamInv, InCallback, running.kind \notin LastCallbacks, NEW t \in Flags, s' = t,
         t.canceled = s.canceled, t.pauses = s.pauses, t.waitForCancel = s.waitForCancel,
         ~s.canceled => (t.hasPending => pending # <<>>),
         pending # <<>> => (s.hasPending => t.hasPending),
         CheckStateLoop(t, running.was),
         UNCHANGED <<sync, controller, isClosed, cancelFuture, added, delivered, over>>
  PROVE  StreamInv'
<1>1. pending \in Seq(Events) /\ controller # "INITIAL" /\ s \in Flags
      /\ running \in [kind : Callbacks, was : BOOLEAN]
  BY DEF StreamInv, TypeOK, Subscribed
<1>2. Idle \in [kind : Callbacks, was : BOOLEAN] /\ Idle.kind = "none"
  BY DEF Idle, Callbacks
<1>3. CASE t.canceled /\ pending' = <<>> /\ running' = Idle /\ UNCHANGED <<scheduled, toldPaused>>
  <2>1. TypeOK'
    BY <1>2, <1>3 DEF StreamInv, TypeOK
  <2>2. Subscribed' /\ Told' /\ Queued' /\ Wanted'
    BY <1>1, <1>3 DEF StreamInv, Subscribed, Told, Queued, EventsKept, Wanted, IsPaused
  <2> QED
    BY <2>1, <2>2 DEF StreamInv
<1>4. CASE /\ ~t.canceled /\ t.inputPaused # running.was
           /\ Begin(IF t.inputPaused THEN "loopPause" ELSE "loopResume", t.inputPaused)
           /\ toldPaused' = t.inputPaused
           /\ UNCHANGED <<pending, scheduled>>
  <2> DEFINE k == IF t.inputPaused THEN "loopPause" ELSE "loopResume"
  <2>1. k \in Loops /\ k \in Callbacks /\ k \notin LastCallbacks /\ t.inputPaused \in BOOLEAN
    BY DEF Loops, Callbacks, Flags, LastCallbacks
  <2>2. Begin(k, t.inputPaused)
    BY <1>4
  <2> HIDE DEF k
  <2>3. /\ running' \in [kind : Callbacks, was : BOOLEAN] /\ running'.kind = k
        /\ running'.was = t.inputPaused
    BY <2>1, <2>2, CallbackType
  <2>4. TypeOK'
    BY <1>4, <2>1, <2>3 DEF StreamInv, TypeOK
  <2>5. Subscribed' /\ Wanted'
    BY <1>1, <1>4, <2>1, <2>3 DEF StreamInv, Subscribed, Wanted, IsPaused
  <2>6. Told'
    BY <1>4, <2>1, <2>3 DEF Told, InCallback, Loops
  <2>7. Queued'
    BY <1>1, <1>4 DEF StreamInv, Queued, EventsKept
  <2> QED
    BY <2>4, <2>5, <2>6, <2>7 DEF StreamInv
<1>5. CASE /\ ~t.canceled /\ t.inputPaused = running.was /\ running' = Idle
           /\ IF t.hasPending /\ ~IsPaused(t) THEN Schedule ELSE UNCHANGED scheduled
           /\ UNCHANGED <<pending, toldPaused>>
  <2>1. /\ scheduled' \in {"UNSCHEDULED", "SCHEDULED", "CANCELED"}
        /\ scheduled' = "SCHEDULED" => scheduled = "SCHEDULED" \/ (t.hasPending /\ ~IsPaused(t))
    BY <1>5 DEF Schedule, StreamInv, TypeOK
  <2>2. TypeOK'
    BY <1>2, <1>5, <2>1 DEF StreamInv, TypeOK
  <2>3. Subscribed' /\ Wanted'
    BY <1>1, <1>2, <1>5, <2>1 DEF StreamInv, Subscribed, Wanted, IsPaused, LastCallbacks
  <2>4. Told'
    BY <1>2, <1>5 DEF StreamInv, Told, InCallback
  <2>5. Queued'
    BY <1>1, <1>2, <1>5, <2>1 DEF StreamInv, Queued, EventsKept, Loops
  <2> QED
    BY <2>2, <2>3, <2>4, <2>5 DEF StreamInv
<1> QED
  BY <1>3, <1>4, <1>5 DEF CheckStateLoop

\* The return of a callback keeps the invariant.
LEMMA ReturnKeeps ==
  ASSUME StreamInv, Return
  PROVE  StreamInv'
<1>1. /\ s \in Flags /\ InCallback
      /\ UNCHANGED <<sync, controller, isClosed, cancelFuture, added, delivered, over>>
  BY DEF StreamInv, TypeOK, Return
<1>2. CASE running.kind \in {"onEvent", "onListen", "onPause", "onResume"} /\ CheckState(running.was)
  <2> DEFINE drained == s.hasPending /\ pending = <<>>
             t == [s EXCEPT !.hasPending = ~drained /\ @,
                            !.inputPaused = @ /\ ~(drained /\ ~IsPaused(s))]
  <2>1. s' = t /\ CheckStateLoop(t, running.was)
    BY <1>2 DEF CheckState
  <2>2. t \in Flags /\ t.hasPending = (~drained /\ s.hasPending)
    BY <1>1 DEF Flags
  <2>3. t.canceled = s.canceled /\ t.pauses = s.pauses /\ t.waitForCancel = s.waitForCancel
    BY <1>1 DEF Flags
  <2>4. /\ t.hasPending => pending # <<>>
        /\ pending # <<>> => (s.hasPending => t.hasPending)
    BY <2>2
  <2>5. running.kind \notin LastCallbacks
    BY <1>2 DEF LastCallbacks
  <2> HIDE DEF t
  <2> QED
    BY <1>1, <2>1, <2>2, <2>3, <2>4, <2>5, CheckStateLoopKeeps
<1>3. CASE running.kind \in Loops /\ CheckStateLoop(s, running.was) /\ UNCHANGED s
  <2>1. running.kind \notin LastCallbacks /\ (~s.canceled => (s.hasPending => pending # <<>>))
    BY <1>3 DEF LastCallbacks, Loops, StreamInv, Queued
  <2> QED
    BY <1>1, <1>3, <2>1, CheckStateLoopKeeps
<1>4. CASE running.kind \in LastCallbacks /\ running' = Idle /\ UNCHANGED <<s, pending, scheduled, toldPaused>>
  <2>1. s.canceled /\ controller = "CANCELED"
    BY <1>4 DEF StreamInv, Subscribed
  <2>2. Idle \in [kind : Callbacks, was : BOOLEAN] /\ Idle.kind = "none"
    BY DEF Idle, Callbacks
  <2>3. TypeOK'
    BY <1>1, <1>4, <2>2 DEF StreamInv, TypeOK
  <2>4. Subscribed' /\ Told' /\ Queued' /\ Wanted'
    BY <1>1, <1>4, <2>1, <2>2 DEF StreamInv, Subscribed, Told, Queued, EventsKept, Wanted, IsPaused
  <2> QED
    BY <2>3, <2>4 DEF StreamInv
<1> QED
  BY <1>2, <1>3, <1>4 DEF Return, Loops, LastCallbacks

\* The events behind the first are numbered from the next number on.
LEMMA TailNumbered ==
  ASSUME NEW d \in Nat, NEW q \in Seq(Events), q # <<>>, \A i \in DOMAIN q : q[i].number = d + i
  PROVE  /\ q[1] \in Events /\ q[1].number = d + 1
         /\ Tail(q) \in Seq(Events) /\ Len(Tail(q)) = Len(q) - 1
         /\ \A i \in DOMAIN Tail(q) : Tail(q)[i].number = d + 1 + i
OBVIOUS

\* The microtask keeps the invariant.
LEMMA HandleNextKeeps ==
  ASSUME StreamInv, HandleNext
  PROVE  StreamInv'
<1>1. /\ s \in Flags /\ pending \in Seq(Events) /\ ~InCallback /\ delivered \in Nat /\ added \in Nat
      /\ isClosed \in BOOLEAN /\ UNCHANGED <<sync, isClosed, added, toldPaused>>
  BY DEF StreamInv, TypeOK, HandleNext
<1>2. CASE /\ scheduled = "CANCELED" /\ scheduled' = "UNSCHEDULED"
           /\ UNCHANGED <<controller, s, pending, running, cancelFuture, delivered, over>>
  <2>1. TypeOK'
    BY <1>1, <1>2 DEF StreamInv, TypeOK
  <2>2. Subscribed' /\ Told' /\ Queued' /\ Wanted'
    BY <1>1, <1>2 DEF StreamInv, Subscribed, Told, Queued, EventsKept, Wanted, InCallback
  <2> QED
    BY <2>1, <2>2 DEF StreamInv
<1>3. CASE scheduled = "SCHEDULED" /\ pending # <<>> /\ Send(pending[1], s, Tail(pending), "UNSCHEDULED")
  <2>1. ~s.canceled /\ ~IsPaused(s) /\ controller = "SUBSCRIBED" /\ s.hasPending
    BY <1>3 DEF StreamInv, Wanted, Queued, EventsKept, Subscribed, TypeOK
  <2>2. \A i \in DOMAIN pending : pending[i].number = delivered + i
    BY <2>1 DEF StreamInv, Queued, EventsKept
  <2> DEFINE all == added + (IF isClosed THEN 1 ELSE 0)
  <2>3. delivered + Len(pending) = all
    BY <2>1 DEF StreamInv, Queued, EventsKept
  <2> HIDE DEF all
  <2>4. /\ pending[1] \in Events /\ pending[1].number = delivered + 1
        /\ Tail(pending) \in Seq(Events) /\ Len(Tail(pending)) = Len(pending) - 1
        /\ \A i \in DOMAIN Tail(pending) : Tail(pending)[i].number = delivered + 1 + i
    BY <1>1, <1>3, <2>2, TailNumbered
  <2>5. Len(pending) \in Nat /\ delivered + 1 + Len(Tail(pending)) = all
    BY <1>1, <2>3, <2>4
  <2>6. delivered + 1 + Len(Tail(pending)) = added' + (IF isClosed' THEN 1 ELSE 0)
    BY <1>1, <2>5 DEF all
  <2>7. added' \in Nat /\ isClosed' \in BOOLEAN /\ UNCHANGED <<sync, toldPaused>>
    BY <1>1
  <2> QED
    BY <1>1, <1>3, <2>1, <2>4, <2>6, <2>7, SendKeeps
<1> QED
  BY <1>2, <1>3 DEF HandleNext

-----------------------------------------------------------------------------
(* The theorems                                                             *)

\* A controller without listener satisfies the invariant.
LEMMA InitEstablishes == Init => StreamInv
<1> SUFFICES ASSUME Init PROVE StreamInv
  OBVIOUS
<1> USE DEF Init
<1>1. TypeOK
  <2>1. s \in Flags
    BY DEF Flags
  <2>2. running \in [kind : Callbacks, was : BOOLEAN]
    BY DEF Idle, Callbacks
  <2>3. pending \in Seq(Events)
    OBVIOUS
  <2> QED
    BY <2>1, <2>2, <2>3 DEF TypeOK
<1>2. Subscribed /\ Told /\ Wanted
  BY DEF Subscribed, Told, Wanted, InCallback, Idle, LastCallbacks
<1>3. Queued
  BY DEF Queued, EventsKept
<1> QED
  BY <1>1, <1>2, <1>3 DEF StreamInv

\* Every step keeps the invariant.
LEMMA NextKeeps == StreamInv /\ [Next]_vars => StreamInv'
<1> SUFFICES ASSUME StreamInv, [Next]_vars PROVE StreamInv'
  OBVIOUS
<1>1. ASSUME NEW kind \in {"data", "error"}, Add(kind)  PROVE StreamInv'
  <2>1. added \in Nat /\ isClosed \in BOOLEAN
    BY DEF StreamInv, TypeOK
  <2> DEFINE event == [kind |-> kind, number |-> added + 1]
  <2>2. event \in Events /\ event.number = added + 1
    BY <2>1 DEF Events
  <2>3. /\ ~isClosed /\ added' = added + 1 /\ Dispatch(event)
        /\ UNCHANGED <<sync, isClosed, toldPaused>>
    BY <1>1 DEF Add
  <2>4. added' \in Nat /\ isClosed' = FALSE
    BY <2>1, <2>3
  <2>5. added' + (IF isClosed' THEN 1 ELSE 0) = added + 1
    BY <2>1, <2>3, <2>4
  <2> HIDE DEF event
  <2> QED
    BY <2>2, <2>3, <2>4, <2>5, DispatchKeeps
<1>2. ASSUME Close  PROVE StreamInv'
  <2>1. added \in Nat
    BY DEF StreamInv, TypeOK
  <2> DEFINE event == [kind |-> "done", number |-> added + 1]
  <2>2. event \in Events /\ event.number = added + 1
    BY <2>1 DEF Events
  <2>3. ~isClosed /\ isClosed' = TRUE /\ Dispatch(event) /\ UNCHANGED <<sync, added, toldPaused>>
    BY <1>2 DEF Close
  <2>4. added' \in Nat /\ added' + (IF isClosed' THEN 1 ELSE 0) = added + 1
    BY <2>1, <2>3
  <2> HIDE DEF event
  <2> QED
    BY <2>2, <2>3, <2>4, DispatchKeeps
<1>3. CASE UNCHANGED vars
  <2>1. TypeOK' /\ Subscribed' /\ Told'
    BY <1>3 DEF vars, StreamInv, TypeOK, Subscribed, Told, InCallback
  <2>2. Queued' /\ Wanted'
    BY <1>3 DEF vars, StreamInv, Queued, EventsKept, Wanted, IsPaused
  <2> QED
    BY <2>1, <2>2 DEF StreamInv
<1> QED
  BY <1>1, <1>2, <1>3, ListenKeeps, PauseKeeps, ResumeKeeps, CancelByListenerKeeps,
     CancelCompletesKeeps, ReturnKeeps, HandleNextKeeps DEF Next

\* The invariant holds in every state of every controller, whatever the number of events
\* and pauses.
THEOREM StreamInvHolds == Spec => []StreamInv
BY InitEstablishes, NextKeeps, PTL DEF Spec

\* No event is lost, doubled or overtaken between add() and the listener.
THEOREM EventsKeptHolds == Spec => []EventsKept
<1>1. StreamInv => EventsKept
  BY DEF StreamInv, Queued
<1> QED
  BY <1>1, StreamInvHolds, PTL

\* Outside callbacks the source knows whether its subscription is paused.
THEOREM ControllerIsToldHolds == Spec => []ControllerIsTold
<1>1. StreamInv => ControllerIsTold
  BY DEF StreamInv, Told, ControllerIsTold
<1> QED
  BY <1>1, StreamInvHolds, PTL

\* An event that is discarded because the listener has canceled is not given to it.
LEMMA SendRespectsCancel ==
  ASSUME NEW event, NEW t, NEW p, NEW sch, Send(event, t, p, sch), over = "no", running' # running
  PROVE  over' # "canceled"
<1>1. CASE SendEvent(t)
  BY <1>1 DEF SendEvent
<1>2. CASE SendLastError(t, sch)
  BY <1>2 DEF SendLastError
<1>3. CASE SendDone(t, sch)
  BY <1>3 DEF SendDone
<1> QED
  BY <1>1, <1>2, <1>3 DEF Send

\* Sending an event is the only way to start a callback of the listener's own, and it is
\* only sent to a listener that wants it.
LEMMA SendWhenWanted ==
  ASSUME StreamInv, Next, running'.kind \in {"onEvent"} \cup LastCallbacks, running' # running
  PROVE  /\ \/ over = "no"
            \/ over = "canceledWithin" /\ cancelFuture = "onDone" /\ running'.kind = "onDone"
         /\ over' # "canceled"
         /\ s.canceled \/ ~IsPaused(s)
<1>1. ASSUME NEW event, Dispatch(event)  PROVE over = "no" /\ over' # "canceled" /\ ~IsPaused(s)
  <2>1. controller = "SUBSCRIBED" /\ CanFire /\ Send(event, s, pending, scheduled)
    BY <1>1 DEF Dispatch, AddPending
  <2>2. over = "no" /\ ~IsPaused(s)
    BY <2>1 DEF CanFire, StreamInv, Subscribed
  <2> QED
    BY <2>1, <2>2, SendRespectsCancel
<1>2. ASSUME NEW kind \in {"data", "error"}, Add(kind)  PROVE over = "no" /\ over' # "canceled" /\ ~IsPaused(s)
  BY <1>1, <1>2 DEF Add
<1>3. ASSUME Close  PROVE over = "no" /\ over' # "canceled" /\ ~IsPaused(s)
  BY <1>1, <1>3 DEF Close
<1>4. ASSUME NEW c \in BOOLEAN, Listen(c)  PROVE FALSE
  BY <1>4 DEF Listen, Begin, LastCallbacks
<1>5. ASSUME Pause  PROVE FALSE
  BY <1>5 DEF Pause, Guarded, Begin, LastCallbacks
<1>6. ASSUME Resume  PROVE FALSE
  BY <1>6 DEF Resume, Guarded, Begin, LastCallbacks
<1>7. ASSUME CancelByListener  PROVE FALSE
  BY <1>7 DEF CancelByListener
<1>8. ASSUME CancelCompletes
      PROVE  /\ over = "no" \/ (over = "canceledWithin" /\ cancelFuture = "onDone" /\ running'.kind = "onDone")
             /\ over' # "canceled" /\ s.canceled
  <2>1. s.waitForCancel /\ cancelFuture # "none" /\ running' = [kind |-> cancelFuture, was |-> FALSE]
        /\ over' = "ended"
    BY <1>8 DEF CancelCompletes, Begin
  <2> QED
    BY <2>1 DEF StreamInv, Wanted, Subscribed
<1>9. ASSUME Return  PROVE FALSE
  <2>1. ASSUME NEW t, NEW was, CheckStateLoop(t, was)  PROVE FALSE
    BY <2>1 DEF CheckStateLoop, Begin, Idle, LastCallbacks
  <2> QED
    BY <1>9, <2>1 DEF Return, CheckState, Idle, LastCallbacks
<1>10. ASSUME HandleNext  PROVE over = "no" /\ over' # "canceled" /\ ~IsPaused(s)
  <2>1. over = "no" /\ ~IsPaused(s) /\ Send(pending[1], s, Tail(pending), "UNSCHEDULED")
    BY <1>10 DEF HandleNext, StreamInv, Wanted, Subscribed
  <2> QED
    BY <2>1, SendRespectsCancel
<1> QED
  BY <1>2, <1>3, <1>4, <1>5, <1>6, <1>7, <1>8, <1>9, <1>10 DEF Next

\* The listener is given events only while it wants them: not while it is paused, and
\* none after the last or after cancel(); only a cancel() in the onCancel() that the done
\* event causes does not keep that done event away.
THEOREM EventsOnlyWhenWantedHolds == Spec => EventsOnlyWhenWanted
<1> DEFINE Given == EventBegins =>
      /\ \/ over = "no"
         \/ over = "canceledWithin" /\ cancelFuture = "onDone" /\ running'.kind = "onDone"
      /\ over' # "canceled"
      /\ s.canceled \/ ~IsPaused(s)
<1>1. StreamInv /\ [Next]_vars => [Given]_vars
  <2> SUFFICES ASSUME StreamInv, Next  PROVE Given
    OBVIOUS
  <2> QED
    BY SendWhenWanted DEF EventBegins, LastCallbacks
<1> QED
  BY <1>1, StreamInvHolds, PTL DEF Spec, EventsOnlyWhenWanted
=============================================================================
