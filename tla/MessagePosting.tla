--------------------------- MODULE MessagePosting ---------------------------
(***************************************************************************)
(* The port map and the message handlers together, at the level of their    *)
(* locks: PortMap::mutex_, which PostMessage(), ClosePort() and             *)
(* ClosePorts() hold, and monitor_ of each MessageHandler, which they take  *)
(* inside it and which TaskCallback() holds except while a message is       *)
(* handled.  IsolateMessageHandler shows that one pool thread at a time     *)
(* runs a handler, so the thread that runs handler h is called h here.      *)
(* A lock that is taken and released with nothing that waits in between is  *)
(* one action, which needs the lock to be free.                             *)
(***************************************************************************)
EXTENDS Naturals

CONSTANTS
  Handlers,   \* message handlers of isolates
  Service,    \* the one of the service isolate
  Posters,    \* other threads that post
  None,       \* nobody
  Holds,      \* where the service holds isolates: a subset of {"start", "exit"}
  Redirects,  \* may messages name a delivery failure port?
  MaxCalls    \* bound: calls of PostMessage() and ClosePort() by running code

ASSUME PostingAssumption ==
  /\ Service \in Handlers
  /\ Handlers \intersect Posters = {} /\ None \notin Handlers \union Posters
  /\ Holds \subseteq {"start", "exit"} /\ Redirects \in BOOLEAN /\ MaxCalls \in Nat

VARIABLES
  pc,         \* where each thread is
  dst, back,  \* PostMessage() in progress: destination, and where it returns to
  mutex,      \* the owner of PortMap::mutex_
  monitor,    \* the owner of each handler's monitor_
  queue,      \* how many messages, or the task of Run(), each handler has waiting
  registered, \* does the port map lead to the handler?
  deleted,    \* is the handler deleted?
  announced,  \* which pauses the handler has told the service about
  calls       \* calls made so far

vars == <<pc, dst, back, mutex, monitor, queue, registered, deleted, announced, calls>>

Threads == Handlers \union Posters

Init ==
  /\ pc = [t \in Threads |-> "idle"]
  /\ dst = [t \in Threads |-> None] /\ back = [t \in Threads |-> "idle"]
  /\ mutex = None /\ monitor = [h \in Handlers |-> None]
  /\ queue = [h \in Handlers |-> 1]
  /\ registered = [h \in Handlers |-> TRUE] /\ deleted = [h \in Handlers |-> FALSE]
  /\ announced = [h \in Handlers |-> {}]
  /\ calls = 0

Goto(t, label) == pc' = [pc EXCEPT ![t] = label]

-----------------------------------------------------------------------------
(* PortMap::PostMessage()                                                  *)

\* Thread t begins to post to h and will go on at label.
BeginPost(t, h, label) ==
  /\ Goto(t, "want_mutex")
  /\ dst' = [dst EXCEPT ![t] = h]
  /\ back' = [back EXCEPT ![t] = label]

\* Native code, or Dart code of an isolate, posts.
Post(t, h) ==
  /\ \/ t \in Posters /\ pc[t] = "idle"
     \/ t \in Handlers /\ pc[t] = "handling"
  /\ calls < MaxCalls /\ calls' = calls + 1
  /\ BeginPost(t, h, pc[t])
  /\ UNCHANGED <<mutex, monitor, queue, registered, deleted, announced>>

\* Mutant: mutex_ is released before the handler is called.
PostLooksUpOnly(t) ==
  /\ pc[t] = "want_mutex" /\ mutex = None
  /\ \/ registered[dst[t]] /\ Goto(t, "want_monitor")
     \/ ~registered[dst[t]] /\ Goto(t, back[t])
  /\ UNCHANGED <<dst, back, mutex, monitor, queue, registered, deleted, announced, calls>>

\* mutex_ is taken and the port looked up; an unknown port ends the call.
PostLooksUp(t) ==
  /\ pc[t] = "want_mutex" /\ mutex = None
  /\ \/ registered[dst[t]] /\ mutex' = t /\ Goto(t, "want_monitor")
     \/ ~registered[dst[t]] /\ Goto(t, back[t]) /\ UNCHANGED mutex
  /\ UNCHANGED <<dst, back, monitor, queue, registered, deleted, announced, calls>>

\* MessageHandler::PostMessage(): under monitor_, the message and a task...
PostEnqueues(t) ==
  /\ pc[t] = "want_monitor" /\ monitor[dst[t]] = None
  /\ queue' = [queue EXCEPT ![dst[t]] = @ + 1]
  /\ Goto(t, "notify")
  /\ UNCHANGED <<dst, back, mutex, monitor, registered, deleted, announced, calls>>

\* Mutant: mutex_ is not released.
PostNotifiesLocked(t) ==
  /\ pc[t] = "notify"
  /\ Goto(t, back[t])
  /\ UNCHANGED <<dst, back, mutex, monitor, queue, registered, deleted, announced, calls>>

\* ...then MessageNotify(), which uses the isolate, and the end of the call.
PostNotifies(t) ==
  /\ pc[t] = "notify"
  /\ mutex' = None
  /\ Goto(t, back[t])
  /\ UNCHANGED <<dst, back, monitor, queue, registered, deleted, announced, calls>>

-----------------------------------------------------------------------------
(* MessageHandler::TaskCallback()                                          *)

TaskBegins(h) ==
  /\ pc[h] = "idle" /\ queue[h] > 0 /\ monitor[h] = None
  /\ monitor' = [monitor EXCEPT ![h] = h]
  /\ Goto(h, "loop")
  /\ UNCHANGED <<dst, back, mutex, queue, registered, deleted, announced, calls>>

\* NotifyPauseOnStart() and NotifyPauseOnExit() post to the service, still
\* under monitor_; the service isolate itself sends no events.
NotifyPause(h) ==
  /\ pc[h] = "loop" /\ h # Service
  /\ \E k \in Holds \ announced[h] :
       /\ k = "start" => announced[h] = {}
       /\ k = "exit" => queue[h] = 0 /\ ("start" \in Holds => "start" \in announced[h])
       /\ announced' = [announced EXCEPT ![h] = @ \union {k}]
  /\ BeginPost(h, Service, "announced")
  /\ UNCHANGED <<mutex, monitor, queue, registered, deleted, calls>>

\* The isolate is held: TaskCallback() returns until a message arrives.
PauseReturns(h) ==
  /\ pc[h] = "announced"
  /\ monitor' = [monitor EXCEPT ![h] = None]
  /\ Goto(h, "idle")
  /\ UNCHANGED <<dst, back, mutex, queue, registered, deleted, announced, calls>>

MayHandle(h) == h # Service /\ "start" \in Holds => "start" \in announced[h]

\* monitor_ is given up while a message is handled.
HandleMessage(h) ==
  /\ pc[h] = "loop" /\ queue[h] > 0 /\ MayHandle(h)
  /\ queue' = [queue EXCEPT ![h] = @ - 1]
  /\ monitor' = [monitor EXCEPT ![h] = None]
  /\ Goto(h, "handling")
  /\ UNCHANGED <<dst, back, mutex, registered, deleted, announced, calls>>

MessageHandled(h) ==
  /\ pc[h] = "handling" /\ monitor[h] = None
  /\ monitor' = [monitor EXCEPT ![h] = h]
  /\ Goto(h, "loop")
  /\ UNCHANGED <<dst, back, mutex, queue, registered, deleted, announced, calls>>

\* No message is left; the isolate waits for more, or exits.
LoopEnds(h) ==
  /\ pc[h] = "loop" /\ queue[h] = 0
  /\ monitor' = [monitor EXCEPT ![h] = None]
  /\ \/ Goto(h, "idle")
     \/ (h # Service /\ "exit" \in Holds => "exit" \in announced[h]) /\ Goto(h, "ending")
  /\ UNCHANGED <<dst, back, mutex, queue, registered, deleted, announced, calls>>

-----------------------------------------------------------------------------
(* PortMap::ClosePort() by the isolate's own Dart code                     *)

ClosePort(h) ==
  /\ pc[h] = "handling" /\ calls < MaxCalls
  /\ calls' = calls + 1
  /\ Goto(h, "close_mutex")
  /\ UNCHANGED <<dst, back, mutex, monitor, queue, registered, deleted, announced>>

ClosePortLocks(h) ==
  /\ pc[h] = "close_mutex" /\ mutex = None
  /\ mutex' = h
  /\ Goto(h, "close_monitor")
  /\ UNCHANGED <<dst, back, monitor, queue, registered, deleted, announced, calls>>

\* decrement_live_ports() takes monitor_.
ClosePortReturns(h) ==
  /\ pc[h] = "close_monitor" /\ monitor[h] = None
  /\ mutex' = None
  /\ Goto(h, "handling")
  /\ UNCHANGED <<dst, back, monitor, queue, registered, deleted, announced, calls>>

-----------------------------------------------------------------------------
(* PortMap::ClosePorts() and the deletion of the handler                   *)

ShutdownLocks(h) ==
  /\ pc[h] = "ending" /\ mutex = None
  /\ mutex' = h
  /\ Goto(h, "unregister")
  /\ UNCHANGED <<dst, back, monitor, queue, registered, deleted, announced, calls>>

\* Mutant: the handler stays in the table.
UnregisterNothing(h) ==
  /\ pc[h] = "unregister" /\ monitor[h] = None
  /\ mutex' = None
  /\ Goto(h, "clear")
  /\ UNCHANGED <<dst, back, monitor, queue, registered, deleted, announced, calls>>

Unregister(h) ==
  /\ pc[h] = "unregister" /\ monitor[h] = None
  /\ registered' = [registered EXCEPT ![h] = FALSE]
  /\ mutex' = None
  /\ Goto(h, "clear")
  /\ UNCHANGED <<dst, back, monitor, queue, deleted, announced, calls>>

\* MessageHandler::CloseAllPorts() holds monitor_ while it clears the queues.
ClearLocks(h) ==
  /\ pc[h] = "clear" /\ monitor[h] = None
  /\ monitor' = [monitor EXCEPT ![h] = h]
  /\ Goto(h, "clearing")
  /\ UNCHANGED <<dst, back, mutex, queue, registered, deleted, announced, calls>>

\* MessageQueue::Clear() frees a message or posts it to its failure port.
ClearMessage(h) ==
  /\ pc[h] = "clearing" /\ queue[h] > 0
  /\ queue' = [queue EXCEPT ![h] = @ - 1]
  /\ \/ UNCHANGED <<pc, dst, back>>
     \/ Redirects /\ \E d \in Handlers : BeginPost(h, d, "clearing")
  /\ UNCHANGED <<mutex, monitor, registered, deleted, announced, calls>>

DeleteHandler(h) ==
  /\ pc[h] = "clearing" /\ queue[h] = 0
  /\ monitor' = [monitor EXCEPT ![h] = None]
  /\ deleted' = [deleted EXCEPT ![h] = TRUE]
  /\ Goto(h, "done")
  /\ UNCHANGED <<dst, back, mutex, queue, registered, announced, calls>>

-----------------------------------------------------------------------------

PostStep(t) == PostLooksUp(t) \/ PostEnqueues(t) \/ PostNotifies(t)

RunStep(h) ==
  \/ TaskBegins(h) \/ NotifyPause(h) \/ PauseReturns(h) \/ HandleMessage(h)
  \/ MessageHandled(h) \/ LoopEnds(h) \/ ClosePort(h) \/ ClosePortLocks(h)
  \/ ClosePortReturns(h) \/ ShutdownLocks(h) \/ Unregister(h) \/ ClearLocks(h)
  \/ ClearMessage(h) \/ DeleteHandler(h)

Next ==
  \/ \E t \in Threads, h \in Handlers : Post(t, h)
  \/ \E t \in Threads : PostStep(t)
  \/ \E h \in Handlers : RunStep(h)

Spec == Init /\ [][Next]_vars

\* Threads that can go on do; each call is short, so a lock is not kept from a
\* thread for ever by others that keep taking it.
LiveSpec ==
  /\ Spec
  /\ \A t \in Threads : WF_vars(PostStep(t))
  /\ \A h \in Handlers : WF_vars(RunStep(h))

-----------------------------------------------------------------------------

\* Has PostMessage() of thread t found handler h?
Uses(t, h) == pc[t] \in {"want_monitor", "notify"} /\ dst[t] = h

\* No message is posted to a handler that is deleted, and no notification
\* reaches its isolate: ClosePorts() waits for the posts that have found it.
NoUseAfterDelete == \A h \in Handlers : deleted[h] => \A t \in Threads : ~Uses(t, h)

\* Does thread t need a lock that u holds?
WaitsFor(t, u) ==
  \/ pc[t] \in {"want_mutex", "close_mutex", "ending"} /\ mutex = u
  \/ pc[t] = "want_monitor" /\ monitor[dst[t]] = u
  \/ t \in Handlers /\ pc[t] \in {"close_monitor", "unregister", "clear", "handling"}
       /\ monitor[t] = u

Posting == {"want_mutex", "want_monitor", "notify"}

\* Is thread t inside NotifyPauseOnStart() or NotifyPauseOnExit()?
Announces(t) == pc[t] \in Posting /\ back[t] = "announced"

\* No two threads wait for each other's locks, and none for its own, although
\* CloseAllPorts() posts under monitor_, against the order of PostMessage();
\* the one exception is a thread that announces a pause under monitor_.  (A
\* longer cycle would contain a pair: only the owner of mutex_ waits for the
\* monitor_ of another thread.)
NoLockCycle ==
  \A t, u \in Threads : WaitsFor(t, u) /\ WaitsFor(u, t) => Announces(t) \/ Announces(u)

\* PostMessage() "enqueues the message in the port with id [or] returns false"
\* (port.h): every call comes back.
PostReturns == \A t \in Threads : pc[t] \in Posting ~> pc[t] \notin Posting

\* Every call comes back if the announcements of pauses do.
PostReturnsUnlessPauseHangs == (\A h \in Handlers : []<>~Announces(h)) => PostReturns

=============================================================================
