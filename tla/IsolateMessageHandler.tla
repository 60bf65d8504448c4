------------------------ MODULE IsolateMessageHandler ------------------------
(***************************************************************************)
(* The event loop of one isolate that runs on the thread pool:             *)
(* MessageHandler (runtime/vm/message_handler.cc) with the isolate's       *)
(* HandleMessage() and control messages (runtime/vm/isolate.cc), from      *)
(* MessageHandler::Run() to the deletion of the handler.                   *)
(*                                                                         *)
(* Threads.  Any thread may post while the port map still knows the        *)
(* isolate.  TaskCallback() runs on a pool thread and gives monitor_ up    *)
(* only while it runs the start callback or a message, so a stretch        *)
(* between two such points is one action.  A control message touches only  *)
(* state of the isolate's own thread and its own queue: taking it off the  *)
(* queue and handling it is one action.  An event runs Dart code: its      *)
(* begin and its end are two actions, and in between an interrupt makes    *)
(* the thread handle out-of-band messages.                                 *)
(*                                                                         *)
(* Environment.  Capabilities reach other isolates in the ready message    *)
(* that the start callback sends, so nobody can control the isolate before.*)
(***************************************************************************)
EXTENDS Integers, FiniteSets, MessageQueue

CONSTANTS
  Threads,      \* threads of the pool
  Ports,        \* the ports that Dart code may open
  StartPort,    \* the port that _startIsolate opens for itself
  Caps,         \* resume capabilities
  PauseCap,     \* the isolate's own pause capability
  Listeners,    \* ports of exit and error listeners
  Contents,     \* the messages that others may post (without seq)
  MaxPosts,     \* bound: how many messages are posted
  PauseOnStart, \* the values of FLAG_pause_isolates_on_start
  PauseOnExit   \* the values of FLAG_pause_isolates_on_exit

Priorities == {"immediate", "before_next_event", "as_event"}
ControlKinds == {"pause", "resume", "ping", "kill", "add_exit", "del_exit",
                 "add_error", "del_error", "errors_fatal", "service_resume"}
Args == Ports \union {StartPort} \union Caps \union {PauseCap} \union Listeners \union {"true", "false", "none"}
Content == [kind : ControlKinds \union {"event"}, arg : Args, prio : Priorities, auth : BOOLEAN]
Message == [kind : ControlKinds \union {"event"}, arg : Args, prio : Priorities, auth : BOOLEAN,
            seq : Nat]

ASSUME MessageHandlerAssumption ==
  /\ StartPort \notin Ports
  /\ PauseCap \notin Caps
  /\ Contents \subseteq Content
  /\ MaxPosts \in Nat
  /\ PauseOnStart \subseteq BOOLEAN /\ PauseOnExit \subseteq BOOLEAN

VARIABLES
  queue, oob_queue,               \* MessageHandler::queue_ and oob_queue_
  pool, task,                     \* pool_ # NULL, task_ # NULL
  pending,                        \* tasks given to the pool and not yet begun
  pc,                             \* where each thread is
  current,                        \* the event that the thread handles
  in_oob,                         \* is it inside HandleOOBMessages()?
  start_callback,                 \* start_callback_ # NULL
  pause_on_start, paused_on_start, pause_on_exit, paused_on_exit,
  paused,                         \* paused_
  resume_capabilities,            \* ObjectStore::resume_capabilities, a set
  listeners,                      \* exit_listeners and error_listeners
  errors_fatal,                   \* Isolate::errors_fatal_
  interrupt,                      \* is kMessageInterrupt set?
  live_ports,                     \* the open ports in state kLivePort
  registered,                     \* does the port map know the isolate?
  deleted,                        \* is the handler deleted?
  ready,                          \* has the ready message been sent?
  posts,                          \* messages posted by others
  replies,                        \* history: pings answered
  notices,                        \* history: what the listeners were sent
  killed,                         \* history: has a kill been obeyed, with errors fatal
                                  \* and no hold at exit?
  urgent,                         \* history: messages to act on before the next event
  lastEvent                       \* history: seq of the last event begun

queueVars  == <<queue, oob_queue>>
taskVars   == <<pool, task, pending>>
threadVars == <<pc, current, in_oob>>
pauseVars  == <<pause_on_start, paused_on_start, pause_on_exit, paused_on_exit>>
libVars    == <<paused, resume_capabilities, listeners, errors_fatal, replies, killed, urgent>>
portVars   == <<live_ports, registered, deleted>>
vars == <<queueVars, taskVars, threadVars, start_callback, pauseVars, libVars,
          interrupt, portVars, ready, posts, notices, lastEvent>>

PcStates == {"idle", "pausing", "pause_over", "starting", "start_callback",
             "loop", "event", "failed", "ending", "closing", "clearing"}

NoEvent == [kind |-> "event", arg |-> "none", prio |-> "immediate", auth |-> FALSE, seq |-> 0]

Init ==
  /\ queue = <<>> /\ oob_queue = <<>>
  /\ pool = FALSE /\ task = FALSE /\ pending = 0
  /\ pc = [t \in Threads |-> "idle"]
  /\ current = [t \in Threads |-> NoEvent]
  /\ in_oob = [t \in Threads |-> FALSE]
  /\ start_callback = TRUE
  /\ pause_on_start \in PauseOnStart /\ paused_on_start = FALSE
  /\ pause_on_exit \in PauseOnExit /\ paused_on_exit = FALSE
  /\ paused = 0 /\ resume_capabilities = {}
  /\ listeners = [k \in {"exit", "error"} |-> {}]
  /\ errors_fatal = TRUE
  /\ interrupt = FALSE
  /\ live_ports = {} /\ registered = TRUE /\ deleted = FALSE
  /\ ready = FALSE /\ posts = 0
  /\ replies = {} /\ notices = {} /\ killed = FALSE /\ urgent = {} /\ lastEvent = 0

Goto(t, label) == pc' = [pc EXCEPT ![t] = label]

-----------------------------------------------------------------------------
(* Posting                                                                 *)

\* Mutant: the new task is not remembered in task_.
EnsureTaskForgotten ==
  /\ pending' = pending + (IF pool /\ ~task THEN 1 ELSE 0)
  /\ UNCHANGED <<pool, task>>

\* Mutant: only Run() hands a task to the pool.
EnsureTaskNever == UNCHANGED taskVars

\* The end of MessageHandler::PostMessage(): a task for the pool if there is none.
EnsureTask ==
  /\ task' = (task \/ pool)
  /\ pending' = pending + (IF pool /\ ~task THEN 1 ELSE 0)
  /\ UNCHANGED pool

\* MessageHandler::Run(), called once by Isolate::MakeRunnable().
Run ==
  /\ ~pool /\ start_callback /\ \A t \in Threads : pc[t] = "idle"
  /\ pool' = TRUE /\ task' = TRUE /\ pending' = pending + 1
  /\ UNCHANGED <<queueVars, threadVars, start_callback, pauseVars, libVars, interrupt,
                 portVars, ready, posts, notices, lastEvent>>

\* PortMap::PostMessage() and MessageHandler::PostMessage() by another thread,
\* under PortMap::mutex_ to the end: MessageNotify() is part of it.
PostMessage(c) ==
  LET msg == [kind |-> c.kind, arg |-> c.arg, prio |-> c.prio, auth |-> c.auth,
              seq |-> posts + 1]
  IN
  /\ registered /\ posts < MaxPosts
  /\ \/ /\ c.kind = "event" /\ c.arg \in live_ports
        /\ queue' = Enqueue(queue, msg, FALSE)
        /\ UNCHANGED <<oob_queue, interrupt>>
     \/ /\ c.kind # "event" /\ (ready \/ c.kind = "service_resume")
        /\ oob_queue' = Enqueue(oob_queue, msg, FALSE)
        /\ interrupt' = TRUE
        /\ UNCHANGED queue
  /\ EnsureTask
  /\ posts' = posts + 1
  /\ UNCHANGED <<threadVars, start_callback, pauseVars, libVars, portVars, ready, notices, lastEvent>>

-----------------------------------------------------------------------------
(* IsolateMessageHandler::HandleLibMessage(): the effect of one control     *)
(* message.  q is queue_ without the message that is being handled.         *)

\* Only an immediate kill with the terminate capability ends the loop.
HandleLibResult(msg) == ~(msg.kind = "kill" /\ msg.prio = "immediate" /\ msg.auth)

\* Mutant: a pause is counted even if its capability is known already.
HandlePauseAlways(msg, q) ==
  /\ msg.kind = "pause"
  /\ IF msg.auth
     THEN /\ resume_capabilities' = resume_capabilities \union {msg.arg}
          /\ paused' = paused + 1
     ELSE UNCHANGED <<resume_capabilities, paused>>
  /\ queue' = q
  /\ UNCHANGED <<listeners, errors_fatal, replies, killed, urgent, taskVars, pauseVars>>

HandlePause(msg, q) ==
  /\ msg.kind = "pause"
  /\ IF msg.auth /\ msg.arg \notin resume_capabilities
     THEN /\ resume_capabilities' = resume_capabilities \union {msg.arg}
          /\ paused' = paused + 1
     ELSE UNCHANGED <<resume_capabilities, paused>>
  /\ queue' = q
  /\ UNCHANGED <<listeners, errors_fatal, replies, killed, urgent, taskVars, pauseVars>>

HandleResume(msg, q) ==
  /\ msg.kind = "resume"
  /\ IF msg.auth /\ msg.arg \in resume_capabilities
     THEN /\ resume_capabilities' = resume_capabilities \ {msg.arg}
          /\ paused' = paused - 1
     ELSE UNCHANGED <<resume_capabilities, paused>>
  /\ queue' = q
  /\ UNCHANGED <<listeners, errors_fatal, replies, killed, urgent, taskVars, pauseVars>>

\* A ping or kill that is not immediate goes into queue_ as a message that is.
HandleDelayed(msg, q) ==
  /\ msg.kind \in {"ping", "kill"} /\ msg.prio # "immediate"
  /\ queue' = Enqueue(q, [msg EXCEPT !.prio = "immediate"], msg.prio = "before_next_event")
  /\ EnsureTask
  /\ urgent' = IF msg.prio = "before_next_event" THEN urgent \union {msg.seq} ELSE urgent
  /\ UNCHANGED <<paused, resume_capabilities, listeners, errors_fatal, replies, killed, pauseVars>>

HandleImmediate(msg, q) ==
  /\ msg.kind \in {"ping", "kill"} /\ msg.prio = "immediate"
  /\ replies' = IF msg.kind = "ping" THEN replies \union {msg.seq} ELSE replies
  /\ killed' = (killed \/ (~HandleLibResult(msg) /\ errors_fatal /\ ~pause_on_exit))
  /\ queue' = q
  /\ UNCHANGED <<paused, resume_capabilities, listeners, errors_fatal, urgent, taskVars, pauseVars>>

HandleListener(msg, q) ==
  /\ msg.kind \in {"add_exit", "del_exit", "add_error", "del_error"}
  /\ LET k == IF msg.kind \in {"add_exit", "del_exit"} THEN "exit" ELSE "error"
     IN  listeners' = [listeners EXCEPT ![k] =
           IF msg.kind \in {"add_exit", "add_error"} THEN @ \union {msg.arg} ELSE @ \ {msg.arg}]
  /\ queue' = q
  /\ UNCHANGED <<paused, resume_capabilities, errors_fatal, replies, killed, urgent, taskVars, pauseVars>>

HandleErrorsFatal(msg, q) ==
  /\ msg.kind = "errors_fatal"
  /\ errors_fatal' = IF msg.auth THEN msg.arg = "true" ELSE errors_fatal
  /\ queue' = q
  /\ UNCHANGED <<paused, resume_capabilities, listeners, replies, killed, urgent, taskVars, pauseVars>>

\* The service's Resume request (runtime/vm/service.cc), the one service
\* message that concerns the loop.
ServiceResume(msg, q) ==
  /\ msg.kind = "service_resume"
  /\ pause_on_start' = (pause_on_start /\ ~paused_on_start)
  /\ pause_on_exit' = (pause_on_exit /\ (paused_on_start \/ ~paused_on_exit))
  /\ queue' = q
  /\ UNCHANGED <<libVars, taskVars, paused_on_start, paused_on_exit>>

HandleControl(msg, q) ==
  \/ HandlePause(msg, q)     \/ HandleResume(msg, q)
  \/ HandleDelayed(msg, q)   \/ HandleImmediate(msg, q)
  \/ HandleListener(msg, q)  \/ HandleErrorsFatal(msg, q)
  \/ ServiceResume(msg, q)

\* IsolateMessageHandler::ProcessUnhandledException() tells the error
\* listeners; the loop goes on unless errors are fatal.
ErrorNotices(t) == {<<"error", l, current[t].seq>> : l \in listeners["error"]}

\* Mutant: errors_fatal_ is not looked at.
AfterErrorContinues == "loop"

AfterError == IF errors_fatal THEN "failed" ELSE "loop"

-----------------------------------------------------------------------------
(* MessageHandler::TaskCallback()                                          *)

TaskBegins(t) ==
  /\ pc[t] = "idle" /\ pending > 0
  /\ pending' = pending - 1
  /\ Goto(t, IF pause_on_start THEN "pausing" ELSE "starting")
  /\ paused_on_start' = (paused_on_start \/ pause_on_start)
  /\ UNCHANGED <<queueVars, pool, task, current, in_oob, start_callback,
                 pause_on_start, pause_on_exit, paused_on_exit, libVars, interrupt,
                 portVars, ready, posts, notices, lastEvent>>

\* HandleMessages(false, false) while paused on start: its result is dropped.
PausingMessage(t) ==
  /\ pc[t] = "pausing" /\ oob_queue # <<>>
  /\ oob_queue' = Tail(oob_queue)
  /\ HandleControl(Head(oob_queue), queue)
  /\ Goto(t, IF HandleLibResult(Head(oob_queue)) THEN "pausing" ELSE "pause_over")
  /\ UNCHANGED <<current, in_oob, start_callback, interrupt, portVars, ready, posts,
                 notices, lastEvent>>

PausingEnds(t) ==
  /\ pc[t] = "pause_over" \/ (pc[t] = "pausing" /\ oob_queue = <<>>)
  /\ \/ /\ pause_on_start
        /\ task' = FALSE
        /\ Goto(t, "idle")
        /\ UNCHANGED paused_on_start
     \/ /\ ~pause_on_start
        /\ paused_on_start' = FALSE
        /\ Goto(t, "starting")
        /\ UNCHANGED task
  /\ UNCHANGED <<queueVars, pool, pending, current, in_oob, start_callback,
                 pause_on_start, pause_on_exit, paused_on_exit, libVars, interrupt,
                 portVars, ready, posts, notices, lastEvent>>

\* Into RunIsolate(), where Isolate.spawn(..., paused: true) starts the isolate
\* paused; or straight to the messages if there is no start callback any more.
StartCallbackBegins(t) ==
  /\ pc[t] = "starting"
  /\ \/ /\ start_callback
        /\ resume_capabilities' = resume_capabilities \union {PauseCap}
        /\ paused' = paused + 1
     \/ UNCHANGED <<resume_capabilities, paused>>
  /\ Goto(t, IF start_callback THEN "start_callback" ELSE "loop")
  /\ UNCHANGED <<queueVars, taskVars, current, in_oob, start_callback, pauseVars,
                 listeners, errors_fatal, replies, killed, urgent, interrupt, portVars,
                 ready, posts, notices, lastEvent>>

\* _startIsolate sends the control port and the capabilities to the parent...
StartIsolateReady(t) ==
  /\ pc[t] = "start_callback" /\ ~in_oob[t] /\ ~ready
  /\ ready' = TRUE
  /\ UNCHANGED <<queueVars, taskVars, threadVars, start_callback, pauseVars, libVars,
                 interrupt, portVars, posts, notices, lastEvent>>

\* ...then opens a port and posts itself the message that will run main().
StartIsolateReturns(t) ==
  /\ pc[t] = "start_callback" /\ ~in_oob[t] /\ ready
  /\ live_ports' = live_ports \union {StartPort}
  /\ queue' = Enqueue(queue, [NoEvent EXCEPT !.arg = StartPort], FALSE)
  /\ EnsureTask
  /\ start_callback' = FALSE
  /\ Goto(t, "loop")
  /\ UNCHANGED <<oob_queue, current, in_oob, pauseVars, libVars, interrupt,
                 registered, deleted, ready, posts, notices, lastEvent>>

\* RunIsolate() returns false: the entry point cannot be found or is in error.
StartIsolateFails(t) ==
  /\ pc[t] = "start_callback" /\ ~in_oob[t] /\ ~ready
  /\ start_callback' = FALSE
  /\ Goto(t, "failed")
  /\ UNCHANGED <<queueVars, taskVars, current, in_oob, pauseVars, libVars, interrupt,
                 portVars, ready, posts, notices, lastEvent>>

-----------------------------------------------------------------------------
(* HandleMessages(true, true)                                              *)

\* Mutant: the paused state is not looked at again.
NormalAlwaysAllowed == TRUE

\* min_priority, evaluated again before each message.
NormalAllowed == paused = 0

\* DequeueMessage() prefers oob_queue_.
LoopOOBMessage(t) ==
  /\ pc[t] = "loop" /\ oob_queue # <<>>
  /\ oob_queue' = Tail(oob_queue)
  /\ HandleControl(Head(oob_queue), queue)
  /\ Goto(t, IF HandleLibResult(Head(oob_queue)) THEN "loop" ELSE "failed")
  /\ UNCHANGED <<current, in_oob, start_callback, interrupt, portVars, ready, posts,
                 notices, lastEvent>>

\* A delayed control message at the head of queue_.
LoopDelayedMessage(t) ==
  /\ pc[t] = "loop" /\ oob_queue = <<>> /\ NormalAllowed /\ queue # <<>>
  /\ IsControl(Head(queue))
  /\ HandleControl(Head(queue), Tail(queue))
  /\ Goto(t, IF HandleLibResult(Head(queue)) THEN "loop" ELSE "failed")
  /\ UNCHANGED <<oob_queue, current, in_oob, start_callback, interrupt, portVars, ready,
                 posts, notices, lastEvent>>

\* An event: dropped if its port is closed, else the port's handler is called.
\* The handler of _startIsolate's port closes that port first.
LoopEvent(t) ==
  LET msg == Head(queue) IN
  /\ pc[t] = "loop" /\ oob_queue = <<>> /\ NormalAllowed /\ queue # <<>>
  /\ ~IsControl(msg)
  /\ queue' = Tail(queue)
  /\ \/ /\ msg.arg \in live_ports
        /\ Goto(t, "event")
        /\ current' = [current EXCEPT ![t] = msg]
        /\ live_ports' = live_ports \ {StartPort}
        /\ lastEvent' = msg.seq
     \/ /\ msg.arg \notin live_ports
        /\ UNCHANGED <<pc, current, live_ports, lastEvent>>
  /\ UNCHANGED <<oob_queue, taskVars, in_oob, start_callback, pauseVars, libVars, interrupt,
                 registered, deleted, ready, posts, notices>>

\* Mutant: pool_ is kept, so that a late message still gets a task.
FinishKeepsPool(t, ok) ==
  /\ task' = FALSE
  /\ IF ~ok \/ live_ports = {}
     THEN IF pause_on_exit
          THEN paused_on_exit' = TRUE /\ Goto(t, "idle")
          ELSE paused_on_exit' = FALSE /\ Goto(t, "ending")
     ELSE Goto(t, "idle") /\ UNCHANGED paused_on_exit
  /\ UNCHANGED <<queueVars, pool, pending, current, in_oob, start_callback, pause_on_start,
                 paused_on_start, pause_on_exit, libVars, interrupt, portVars, ready, posts,
                 notices, lastEvent>>

\* Mutant: an isolate that fails skips the exit listeners.
FinishSilently(t, ok) ==
  /\ task' = FALSE
  /\ IF ~ok \/ live_ports = {}
     THEN IF pause_on_exit
          THEN paused_on_exit' = TRUE /\ Goto(t, "idle") /\ UNCHANGED pool
          ELSE paused_on_exit' = FALSE /\ Goto(t, IF ok THEN "ending" ELSE "closing") /\ pool' = FALSE
     ELSE Goto(t, "idle") /\ UNCHANGED <<pool, paused_on_exit>>
  /\ UNCHANGED <<queueVars, pending, current, in_oob, start_callback, pause_on_start,
                 paused_on_start, pause_on_exit, libVars, interrupt, portVars, ready, posts,
                 notices, lastEvent>>

\* Mutant: only an error ends the handler.
FinishOnErrorOnly(t, ok) ==
  /\ task' = FALSE
  /\ IF ~ok
     THEN IF pause_on_exit
          THEN paused_on_exit' = TRUE /\ Goto(t, "idle") /\ UNCHANGED pool
          ELSE paused_on_exit' = FALSE /\ Goto(t, "ending") /\ pool' = FALSE
     ELSE Goto(t, "idle") /\ UNCHANGED <<pool, paused_on_exit>>
  /\ UNCHANGED <<queueVars, pending, current, in_oob, start_callback, pause_on_start,
                 paused_on_start, pause_on_exit, libVars, interrupt, portVars, ready, posts,
                 notices, lastEvent>>

\* The end of TaskCallback().
Finish(t, ok) ==
  /\ task' = FALSE
  /\ IF ~ok \/ live_ports = {}
     THEN IF pause_on_exit
          THEN paused_on_exit' = TRUE /\ Goto(t, "idle") /\ UNCHANGED pool
          ELSE paused_on_exit' = FALSE /\ Goto(t, "ending") /\ pool' = FALSE
     ELSE Goto(t, "idle") /\ UNCHANGED <<pool, paused_on_exit>>
  /\ UNCHANGED <<queueVars, pending, current, in_oob, start_callback, pause_on_start,
                 paused_on_start, pause_on_exit, libVars, interrupt, portVars, ready, posts,
                 notices, lastEvent>>

LoopEnds(t) ==
  \/ /\ pc[t] = "failed"
     /\ Finish(t, FALSE)
  \/ /\ pc[t] = "loop" /\ oob_queue = <<>>
     /\ ~NormalAllowed \/ queue = <<>>
     /\ Finish(t, TRUE)

-----------------------------------------------------------------------------
(* Dart code that handles an event                                         *)

RunsDart(t) == pc[t] = "event" /\ ~in_oob[t]

\* PortMap::CreatePort() and SetPortState(kLivePort), PortMap::ClosePort()
EventPorts(t) ==
  /\ RunsDart(t)
  /\ \E p \in Ports : live_ports' \in {live_ports \union {p}, live_ports \ {p}}
  /\ live_ports' # live_ports
  /\ UNCHANGED <<queueVars, taskVars, threadVars, start_callback, pauseVars, libVars,
                 interrupt, registered, deleted, ready, posts, notices, lastEvent>>

EventReturns(t) ==
  /\ RunsDart(t)
  /\ Goto(t, "loop")
  /\ UNCHANGED <<queueVars, taskVars, current, in_oob, start_callback, pauseVars, libVars,
                 interrupt, portVars, ready, posts, notices, lastEvent>>

EventThrows(t) ==
  /\ RunsDart(t)
  /\ notices' = notices \union ErrorNotices(t)
  /\ Goto(t, AfterError)
  /\ UNCHANGED <<queueVars, taskVars, current, in_oob, start_callback, pauseVars, libVars,
                 interrupt, portVars, ready, posts, lastEvent>>

\* Mutant: only the start callback is interruptible.
InterruptBeginsAtStart(t) ==
  /\ pc[t] = "start_callback" /\ ~in_oob[t] /\ interrupt
  /\ interrupt' = FALSE
  /\ in_oob' = [in_oob EXCEPT ![t] = TRUE]
  /\ UNCHANGED <<queueVars, taskVars, pc, current, start_callback, pauseVars, libVars,
                 portVars, ready, posts, notices, lastEvent>>

\* A stack check finds the interrupt and calls HandleOOBMessages().
InterruptBegins(t) ==
  /\ pc[t] \in {"event", "start_callback"} /\ ~in_oob[t] /\ interrupt
  /\ interrupt' = FALSE
  /\ in_oob' = [in_oob EXCEPT ![t] = TRUE]
  /\ UNCHANGED <<queueVars, taskVars, pc, current, start_callback, pauseVars, libVars,
                 portVars, ready, posts, notices, lastEvent>>

\* HandleMessages(false, false).  A kill unwinds the Dart code with an
\* UnwindError: RunIsolate() returns false for it, an event passes it to
\* ProcessUnhandledException().
InterruptMessage(t) ==
  LET msg == Head(oob_queue) IN
  /\ in_oob[t] /\ oob_queue # <<>>
  /\ oob_queue' = Tail(oob_queue)
  /\ HandleControl(msg, queue)
  /\ IF HandleLibResult(msg)
     THEN UNCHANGED <<pc, in_oob, notices, start_callback>>
     ELSE /\ in_oob' = [in_oob EXCEPT ![t] = FALSE]
          /\ IF pc[t] = "event"
             THEN /\ Goto(t, AfterError)
                  /\ notices' = notices \union ErrorNotices(t)
                  /\ UNCHANGED start_callback
             ELSE /\ Goto(t, "failed")
                  /\ start_callback' = FALSE
                  /\ UNCHANGED notices
  /\ UNCHANGED <<current, interrupt, portVars, ready, posts, lastEvent>>

InterruptEnds(t) ==
  /\ in_oob[t] /\ oob_queue = <<>>
  /\ in_oob' = [in_oob EXCEPT ![t] = FALSE]
  /\ UNCHANGED <<queueVars, taskVars, pc, current, start_callback, pauseVars, libVars,
                 interrupt, portVars, ready, posts, notices, lastEvent>>

-----------------------------------------------------------------------------
(* end_callback_: ShutdownIsolate() and Isolate::Shutdown()                *)

NotifyExitListeners(t) ==
  /\ pc[t] = "ending"
  /\ notices' = notices \union {<<"exit", l, 0>> : l \in listeners["exit"]}
  /\ Goto(t, "closing")
  /\ UNCHANGED <<queueVars, taskVars, current, in_oob, start_callback, pauseVars, libVars,
                 interrupt, portVars, ready, posts, lastEvent>>

\* PortMap::ClosePorts() under PortMap::mutex_
ClosePorts(t) ==
  /\ pc[t] = "closing"
  /\ registered' = FALSE
  /\ live_ports' = {}
  /\ Goto(t, "clearing")
  /\ UNCHANGED <<queueVars, taskVars, current, in_oob, start_callback, pauseVars, libVars,
                 interrupt, deleted, ready, posts, notices, lastEvent>>

\* MessageHandler::CloseAllPorts(), then delete message_handler().
DeleteHandler(t) ==
  /\ pc[t] = "clearing"
  /\ queue' = <<>> /\ oob_queue' = <<>>
  /\ deleted' = TRUE
  /\ Goto(t, "idle")
  /\ UNCHANGED <<taskVars, current, in_oob, start_callback, pauseVars, libVars, interrupt,
                 live_ports, registered, ready, posts, notices, lastEvent>>

-----------------------------------------------------------------------------

LoopStep(t) ==
  \/ TaskBegins(t) \/ PausingMessage(t) \/ PausingEnds(t) \/ StartCallbackBegins(t)
  \/ LoopOOBMessage(t) \/ LoopDelayedMessage(t) \/ LoopEvent(t) \/ LoopEnds(t)

DartStep(t) ==
  \/ StartIsolateReady(t) \/ StartIsolateReturns(t) \/ StartIsolateFails(t)
  \/ EventPorts(t) \/ EventReturns(t) \/ EventThrows(t)
  \/ InterruptBegins(t) \/ InterruptMessage(t) \/ InterruptEnds(t)

ExitStep(t) == NotifyExitListeners(t) \/ ClosePorts(t) \/ DeleteHandler(t)

Next ==
  \/ Run
  \/ \E c \in Contents : PostMessage(c)
  \/ \E t \in Threads : LoopStep(t) \/ DartStep(t) \/ ExitStep(t)

Spec == Init /\ [][Next]_vars

-----------------------------------------------------------------------------
(* Safety                                                                  *)

\* The isolate is never run by two threads: whoever is in TaskCallback(), or
\* in the end callback after it, is alone, and no other task is on its way.
\* PostMessage() hands out a task only when task_ is NULL, and nobody runs a
\* handler that is deleted.
OneThreadRunsIsolate ==
  /\ \A t, u \in Threads : pc[t] # "idle" /\ pc[u] # "idle" => t = u
  /\ pending <= 1
  /\ pending = 1 => \A t \in Threads : pc[t] = "idle"
  /\ deleted => pending = 0 /\ \A t \in Threads : pc[t] = "idle"

\* No message is left behind without a task to handle it: when TaskCallback()
\* clears task_, what is still queued waits for a resume, not for a thread.
\* (After an error with pause_on_exit_ both queues keep what they hold.)
NoMessageStranded ==
  pool /\ ~task /\ ~paused_on_exit =>
    /\ oob_queue = <<>>
    /\ queue # <<>> => paused > 0 \/ paused_on_start

\* paused_ counts the resume capabilities that are still outstanding, so that
\* one resume per capability continues the isolate, however often and in
\* whatever order pause and resume messages arrive.
PauseCountsCapabilities == paused = Cardinality(resume_capabilities)

\* An isolate that waits for messages can still get one: with no live port and
\* no task it has exited, or the service keeps it from starting or exiting.
IdleIsolateHasPorts ==
  pool /\ ~task /\ ~paused_on_start /\ ~paused_on_exit => live_ports # {}

EventBegins == \E t \in Threads : pc[t] # "event" /\ pc'[t] = "event"

\* An event is dispatched only when no pause is in force and no control message
\* waits: neither out of band nor delayed to "before the next event".
ControlBeforeEvents ==
  [][EventBegins =>
       /\ resume_capabilities = {}
       /\ oob_queue = <<>>
       /\ \A i \in 1..Len(queue) : IsControl(queue[i]) => queue[i].seq \notin urgent]_vars

\* Events are handled in the order in which they were posted, each at most once.
EventsInOrder == [][EventBegins /\ lastEvent' # 0 => lastEvent' > lastEvent]_vars

\* "A result of false indicates that the isolate should terminate the processing
\* of further events" (isolate.cc): after a kill that is obeyed while errors are fatal and
\* the service does not hold the isolate at its exit, no event is dispatched, whatever
\* the thread was at and whatever is posted later.
KillIsFinal == [][killed => ~EventBegins]_vars

\* "The isolate will send a response message as the last thing before it
\* terminates.  It will run no further code" (addOnExitListener): after the exit
\* notices no thread enters the isolate again, whatever is posted meanwhile.
ExitNoticeIsLast ==
  [][(\E n \in notices : n[1] = "exit") =>
       \A t \in Threads : pc'[t] \in {"idle", "closing", "clearing"}]_vars

\* An isolate that is gone has told every exit listener it knew.
ExitIsAnnounced ==
  deleted => \A l \in listeners["exit"] : <<"exit", l, 0>> \in notices

-----------------------------------------------------------------------------
(* Liveness.  Pool threads run on, and a stack check in a loop of Dart code  *)
(* polls the interrupt; whether Dart code ever returns is not assumed.       *)

InterruptStep(t) == InterruptBegins(t) \/ InterruptMessage(t) \/ InterruptEnds(t)

StartStep(t) == StartIsolateReady(t) \/ StartIsolateReturns(t) \/ StartIsolateFails(t)

Fairness ==
  \A t \in Threads :
    WF_vars(LoopStep(t)) /\ WF_vars(ExitStep(t)) /\ WF_vars(InterruptStep(t)) /\ WF_vars(StartStep(t))

LiveSpec == Spec /\ Fairness

KillIsPosted ==
  \E i \in 1..Len(oob_queue) :
    oob_queue[i].kind = "kill" /\ oob_queue[i].prio = "immediate" /\ oob_queue[i].auth

\* The service keeps the isolate from starting or from exiting.
HeldByService == paused_on_start \/ paused_on_exit

\* Isolate.kill(IMMEDIATE) ends an isolate whose errors are fatal, unless the service
\* holds it: the handler is deleted even if the isolate is paused or its Dart code
\* never returns.
KillEndsIsolate == KillIsPosted ~> deleted \/ HeldByService \/ ~errors_fatal

DartReturns == \A t \in Threads : []<>(pc[t] # "event")

\* If every event handler returns, an isolate with no live port goes away: its
\* thread finds HasLivePorts() false, unless an event opens a port again or the
\* service holds the isolate.
PortlessIsolateExits ==
  DartReturns =>
    (~start_callback /\ live_ports = {} ~> deleted \/ live_ports # {} \/ HeldByService)

=============================================================================
