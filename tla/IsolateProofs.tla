---------------------------- MODULE IsolateProofs ----------------------------
(***************************************************************************)
(* Proofs about the event loop of an isolate, for any threads, ports,       *)
(* capabilities, listeners and messages, and about the interrupts that reach *)
(* it while it runs.  The invariant of the loop has four layers: who runs    *)
(* (TaskInv), what was paused (PauseInv, HoldInv), what waits without a     *)
(* task (the two properties themselves), and who was told of the exit       *)
(* (ExitInv); each uses the ones before it.                                 *)
(***************************************************************************)
EXTENDS IsolateMessageHandler, IsolateInterrupts, FiniteSetTheorems, NaturalsInduction,
        WellFoundedInduction, TLAPS

\* Inside TaskCallback(), and inside the end callback.
InTask  == {"pausing", "pause_over", "starting", "start_callback", "loop", "event", "failed"}
Exiting == {"ending", "closing", "clearing"}

StateInv ==
  /\ pc \in [Threads -> PcStates] /\ in_oob \in [Threads -> BOOLEAN]
  /\ pool \in BOOLEAN /\ task \in BOOLEAN /\ pending \in Nat
  /\ start_callback \in BOOLEAN /\ deleted \in BOOLEAN

\* Who may run: task_ is set from the request of a task until TaskCallback()
\* ends, and without pool_ no task is requested.
TaskInv ==
  /\ \A t, u \in Threads : pc[t] # "idle" /\ pc[u] # "idle" => t = u
  /\ pending <= 1
  /\ pending = 1 => \A t \in Threads : pc[t] = "idle"
  /\ pending = 1 => task
  /\ task => pool
  /\ \A t \in Threads : pc[t] \in InTask => task
  /\ \A t \in Threads : pc[t] \in Exiting => ~pool
  /\ \A t \in Threads : pc[t] \in {"loop", "event", "failed"} \union Exiting => ~start_callback
  /\ \A t \in Threads : in_oob[t] => pc[t] \in {"event", "start_callback"}
  /\ deleted => ~pool /\ ~start_callback /\ \A t \in Threads : pc[t] = "idle"

\* Where a task is at hand, EnsureTask asks for no other.
LEMMA TaskAtHand ==
  ASSUME StateInv, task, pool, EnsureTask PROVE UNCHANGED <<pool, task, pending>>
<1>1. task = TRUE /\ task' = TRUE
  BY DEF EnsureTask, StateInv
<1>2. pending' = pending
  BY DEF EnsureTask, StateInv
<1>. QED
  BY <1>1, <1>2 DEF EnsureTask

\* A control message that is handled by the thread of the current task asks for
\* no other task and does not touch the flags that say that the isolate is held.
LEMMA ControlEffect ==
  ASSUME NEW msg, NEW q, StateInv, task, pool, HandleControl(msg, q)
  PROVE  UNCHANGED <<pool, task, pending, paused_on_start, paused_on_exit>>
<1>1. CASE HandleDelayed(msg, q)
  <2>1. UNCHANGED <<pool, task, pending>>
    BY <1>1, TaskAtHand DEF HandleDelayed
  <2>. QED
    BY <1>1, <2>1 DEF HandleDelayed, pauseVars
<1>2. CASE ServiceResume(msg, q)
  BY <1>2 DEF ServiceResume, taskVars
<1>. QED
  BY <1>1, <1>2 DEF HandleControl, HandlePause, HandleResume, HandleImmediate, HandleListener,
                    HandleErrorsFatal, taskVars, pauseVars

\* Every step keeps the threads apart.
LEMMA TaskStep == StateInv /\ TaskInv /\ [Next]_vars => (StateInv /\ TaskInv)'
<1>. SUFFICES ASSUME StateInv, TaskInv, [Next]_vars PROVE (StateInv /\ TaskInv)'
  OBVIOUS
<1>. USE DEF StateInv, TaskInv, InTask, Exiting, PcStates, Goto, taskVars, threadVars, portVars
<1>1. CASE Run
  BY <1>1 DEF Run
<1>2. ASSUME NEW c \in Contents, PostMessage(c) PROVE (StateInv /\ TaskInv)'
  BY <1>2 DEF PostMessage, EnsureTask
<1>3. ASSUME NEW t \in Threads, LoopStep(t) PROVE (StateInv /\ TaskInv)'
  <2>1. CASE TaskBegins(t)
    BY <2>1 DEF TaskBegins
  <2>2. CASE PausingMessage(t)
    BY <2>2, ControlEffect DEF PausingMessage
  <2>3. CASE PausingEnds(t)
    <3>1. /\ pc[t] \in {"pausing", "pause_over"}
          /\ UNCHANGED <<pool, pending, in_oob, start_callback, deleted>>
      BY <2>3 DEF PausingEnds
    <3>2. task /\ pending = 0 /\ \A u \in Threads : u # t => pc[u] = "idle"
      BY <3>1
    <3>3. \/ task' = FALSE /\ pc' = [pc EXCEPT ![t] = "idle"]
          \/ UNCHANGED task /\ pc' = [pc EXCEPT ![t] = "starting"]
      BY <2>3 DEF PausingEnds
    <3>4. CASE task' = FALSE /\ pc' = [pc EXCEPT ![t] = "idle"]
      BY <3>1, <3>2, <3>4
    <3>5. CASE UNCHANGED task /\ pc' = [pc EXCEPT ![t] = "starting"]
      BY <3>1, <3>2, <3>5
    <3>. QED
      BY ONLY <3>3, <3>4, <3>5
  <2>4. CASE StartCallbackBegins(t)
    BY <2>4 DEF StartCallbackBegins
  <2>5. CASE LoopOOBMessage(t)
    BY <2>5, ControlEffect DEF LoopOOBMessage
  <2>6. CASE LoopDelayedMessage(t)
    BY <2>6, ControlEffect DEF LoopDelayedMessage
  <2>7. CASE LoopEvent(t)
    BY <2>7 DEF LoopEvent
  <2>8. CASE LoopEnds(t)
    <3>1. PICK ok \in BOOLEAN : pc[t] \in {"failed", "loop"} /\ Finish(t, ok)
      BY <2>8 DEF LoopEnds
    <3>2. task' = FALSE /\ UNCHANGED <<pending, in_oob, start_callback, deleted>>
      BY <3>1 DEF Finish
    <3>3. task /\ pending = 0 /\ \A u \in Threads : u # t => pc[u] = "idle"
      BY <3>1
    <3>4. \/ pool' = FALSE /\ pc' = [pc EXCEPT ![t] = "ending"]
          \/ UNCHANGED pool /\ pc' = [pc EXCEPT ![t] = "idle"]
      BY <3>1 DEF Finish
    <3>5. CASE pool' = FALSE /\ pc' = [pc EXCEPT ![t] = "ending"]
      <4>1. ~start_callback' /\ ~in_oob'[t] /\ ~deleted'
        BY <3>1, <3>2
      <4>2. \A u \in Threads : u # t => pc'[u] = "idle" /\ ~in_oob'[u]
        BY <3>2, <3>3, <3>5
      <4>3. StateInv'
        BY <3>2, <3>5 DEF StateInv
      <4>4. pc'[t] = "ending"
        BY <3>5
      <4>5. TaskInv'
        BY ONLY <3>2, <3>3, <3>5, <4>1, <4>2, <4>4, StateInv, TaskInv
          DEF StateInv, TaskInv, InTask, Exiting
      <4>. QED
        BY ONLY <4>3, <4>5
    <3>6. CASE UNCHANGED pool /\ pc' = [pc EXCEPT ![t] = "idle"]
      <4>1. ~in_oob'[t] /\ ~deleted'
        BY <3>1, <3>2
      <4>2. \A u \in Threads : pc'[u] = "idle" /\ ~in_oob'[u]
        BY <3>2, <3>3, <3>6, <4>1
      <4>3. StateInv'
        BY <3>2, <3>6 DEF StateInv
      <4>4. pc'[t] = "idle"
        BY <3>6
      <4>5. TaskInv'
        BY ONLY <3>2, <3>3, <3>6, <4>1, <4>2, <4>4, StateInv, TaskInv
          DEF StateInv, TaskInv, InTask, Exiting
      <4>. QED
        BY ONLY <4>3, <4>5
    <3>. QED
      BY ONLY <3>4, <3>5, <3>6
  <2>. QED
    BY <1>3, <2>1, <2>2, <2>3, <2>4, <2>5, <2>6, <2>7, <2>8 DEF LoopStep
<1>4. ASSUME NEW t \in Threads, DartStep(t) PROVE (StateInv /\ TaskInv)'
  <2>1. CASE StartIsolateReady(t)
    BY <2>1 DEF StartIsolateReady
  <2>2. CASE StartIsolateReturns(t)
    <3>1. UNCHANGED <<pool, task, pending>>
      BY <2>2, TaskAtHand DEF StartIsolateReturns
    <3>. QED
      BY <2>2, <3>1 DEF StartIsolateReturns
  <2>3. CASE StartIsolateFails(t)
    BY <2>3 DEF StartIsolateFails
  <2>4. CASE EventPorts(t)
    BY <2>4 DEF EventPorts, RunsDart
  <2>5. CASE EventReturns(t)
    BY <2>5 DEF EventReturns, RunsDart
  <2>6. CASE EventThrows(t)
    BY <2>6 DEF EventThrows, RunsDart, AfterError
  <2>7. CASE InterruptBegins(t)
    BY <2>7 DEF InterruptBegins
  <2>8. CASE InterruptMessage(t)
    <3>1. /\ pc[t] \in {"event", "start_callback"}
          /\ UNCHANGED <<pool, task, pending, deleted>>
      BY <2>8, ControlEffect DEF InterruptMessage
    <3>2. \/ UNCHANGED <<pc, in_oob, start_callback>>
          \/ /\ in_oob' = [in_oob EXCEPT ![t] = FALSE]
             /\ \/ /\ pc[t] = "event" /\ UNCHANGED start_callback
                   /\ \E l \in {"failed", "loop"} : pc' = [pc EXCEPT ![t] = l]
                \/ start_callback' = FALSE /\ pc' = [pc EXCEPT ![t] = "failed"]
      BY <2>8 DEF InterruptMessage, AfterError
    <3>3. task /\ pending = 0 /\ ~deleted /\ \A u \in Threads : u # t => pc[u] = "idle" /\ ~in_oob[u]
      BY <3>1
    <3>4. CASE UNCHANGED <<pc, in_oob, start_callback>>
      BY <3>1, <3>4
    <3>5. ASSUME NEW l \in {"failed", "loop"}, pc' = [pc EXCEPT ![t] = l],
                 in_oob' = [in_oob EXCEPT ![t] = FALSE],
                 start_callback' = FALSE
          PROVE  (StateInv /\ TaskInv)'
      <4>1. pc'[t] = l /\ ~in_oob'[t]
        BY <3>5
      <4>2. \A u \in Threads : u # t => pc'[u] = "idle" /\ ~in_oob'[u]
        BY <3>3, <3>5
      <4>. QED
        BY <3>1, <3>3, <3>5, <4>1, <4>2
    <3>6. pc[t] = "event" => start_callback = FALSE
      OBVIOUS
    <3>. QED
      BY ONLY <3>2, <3>4, <3>5, <3>6
  <2>9. CASE InterruptEnds(t)
    BY <2>9 DEF InterruptEnds
  <2>. QED
    BY <1>4, <2>1, <2>2, <2>3, <2>4, <2>5, <2>6, <2>7, <2>8, <2>9 DEF DartStep
<1>5. ASSUME NEW t \in Threads, ExitStep(t) PROVE (StateInv /\ TaskInv)'
  <2>1. CASE NotifyExitListeners(t)
    BY <2>1 DEF NotifyExitListeners
  <2>2. CASE ClosePorts(t)
    BY <2>2 DEF ClosePorts
  <2>3. CASE DeleteHandler(t)
    BY <2>3 DEF DeleteHandler
  <2>. QED
    BY <1>5, <2>1, <2>2, <2>3 DEF ExitStep
<1>6. CASE UNCHANGED vars
  BY <1>6 DEF vars
<1>. QED
  BY <1>1, <1>2, <1>3, <1>4, <1>5, <1>6 DEF Next

-----------------------------------------------------------------------------
(* Pauses                                                                  *)

QueueInv == oob_queue \in Seq(Message) /\ posts \in Nat

ServiceOnly(s) == \A i \in 1..Len(s) : s[i].kind = "service_resume"

\* paused_ counts; and until _startIsolate has sent the capabilities, nobody but
\* the service has sent a message, and no pause is in force.
PauseInv ==
  /\ IsFiniteSet(resume_capabilities)
  /\ paused = Cardinality(resume_capabilities)
  /\ ~ready => ServiceOnly(oob_queue)
  /\ start_callback /\ (\A t \in Threads : pc[t] # "start_callback") =>
       ~ready /\ resume_capabilities = {}

\* An isolate is held at its start only before its start callback.
HoldInv ==
  /\ pause_on_start => start_callback /\ \A t \in Threads : pc[t] \in {"idle", "pausing"}
  /\ \A t \in Threads : pc[t] = "pausing" => start_callback /\ paused_on_start
  /\ \A t \in Threads : pc[t] # "pause_over"

\* Whatever control message is handled, paused_ and the capabilities agree.
LEMMA ControlCounts ==
  ASSUME NEW msg, NEW q, IsFiniteSet(resume_capabilities),
         paused = Cardinality(resume_capabilities), HandleControl(msg, q)
  PROVE  IsFiniteSet(resume_capabilities') /\ paused' = Cardinality(resume_capabilities')
<1>1. CASE HandlePause(msg, q)
  BY <1>1, FS_AddElement DEF HandlePause
<1>2. CASE HandleResume(msg, q)
  BY <1>2, FS_RemoveElement DEF HandleResume
<1>. QED
  BY <1>1, <1>2 DEF HandleControl, HandleDelayed, HandleImmediate, HandleListener,
                    HandleErrorsFatal, ServiceResume, libVars

\* A service message pauses nothing and does not end the loop.
LEMMA ServiceIsHarmless ==
  ASSUME NEW msg, NEW q, msg.kind = "service_resume", HandleControl(msg, q)
  PROVE  UNCHANGED <<paused, resume_capabilities>> /\ HandleLibResult(msg)
BY DEF HandleControl, HandlePause, HandleResume, HandleDelayed, HandleImmediate, HandleListener,
       HandleErrorsFatal, ServiceResume, libVars, HandleLibResult


\* No control message makes the service hold an isolate at its start.
LEMMA ControlReleases ==
  ASSUME NEW msg, NEW q, HandleControl(msg, q) PROVE pause_on_start' => pause_on_start
<1>1. CASE ServiceResume(msg, q)
  BY <1>1 DEF ServiceResume
<1>2. ASSUME UNCHANGED pauseVars PROVE pause_on_start' => pause_on_start
  BY <1>2 DEF pauseVars
<1>. QED
  BY <1>1, <1>2 DEF HandleControl, HandlePause, HandleResume, HandleDelayed, HandleImmediate,
                    HandleListener, HandleErrorsFatal

\* Taking messages off a queue keeps its type.
LEMMA TailType ==
  ASSUME NEW S, NEW s \in Seq(S)
  PROVE  <<>> \in Seq(S) /\ (s # <<>> => Tail(s) \in Seq(S))
<1>1. <<>> \in Seq(S)
  OBVIOUS
<1>2. s # <<>> => Tail(s) \in Seq(S)
  OBVIOUS
<1>. QED
  BY <1>1, <1>2

\* Every step keeps the type of the out-of-band queue.
LEMMA QueueStep == QueueInv /\ [Next]_vars => QueueInv'
<1>. SUFFICES ASSUME QueueInv, [Next]_vars PROVE QueueInv'
  OBVIOUS
<1>. USE DEF QueueInv, queueVars
<1>1. CASE Run
  BY <1>1 DEF Run
<1>2. ASSUME NEW c \in Contents, PostMessage(c) PROVE QueueInv'
  <2>. DEFINE msg == [kind |-> c.kind, arg |-> c.arg, prio |-> c.prio, auth |-> c.auth,
                      seq |-> posts + 1]
  <2>1. msg \in Message
    BY MessageHandlerAssumption DEF Content, Message
  <2>2. oob_queue' \in {oob_queue, Append(oob_queue, msg)} /\ posts' = posts + 1
    BY <1>2 DEF PostMessage, Enqueue
  <2>. QED
    BY <2>1, <2>2
<1>3. ASSUME NEW t \in Threads, LoopStep(t) PROVE QueueInv'
  <2>1. /\ posts' = posts
        /\ \/ oob_queue' = oob_queue \/ oob_queue' = <<>>
           \/ oob_queue # <<>> /\ oob_queue' = Tail(oob_queue)
    BY <1>3 DEF LoopStep, TaskBegins, PausingMessage, PausingEnds, StartCallbackBegins, LoopOOBMessage, LoopDelayedMessage, LoopEvent, LoopEnds, Finish
  <2>. QED
    BY <2>1, TailType
<1>4. ASSUME NEW t \in Threads, DartStep(t) PROVE QueueInv'
  <2>1. /\ posts' = posts
        /\ \/ oob_queue' = oob_queue \/ oob_queue' = <<>>
           \/ oob_queue # <<>> /\ oob_queue' = Tail(oob_queue)
    BY <1>4 DEF DartStep, StartIsolateReady, StartIsolateReturns, StartIsolateFails, EventPorts, EventReturns, EventThrows, InterruptBegins, InterruptMessage, InterruptEnds, Finish
  <2>. QED
    BY <2>1, TailType
<1>5. ASSUME NEW t \in Threads, ExitStep(t) PROVE QueueInv'
  <2>1. /\ posts' = posts
        /\ \/ oob_queue' = oob_queue \/ oob_queue' = <<>>
           \/ oob_queue # <<>> /\ oob_queue' = Tail(oob_queue)
    BY <1>5 DEF ExitStep, NotifyExitListeners, ClosePorts, DeleteHandler, Finish
  <2>. QED
    BY <2>1, TailType
<1>6. CASE UNCHANGED vars
  BY <1>6 DEF vars
<1>. QED
  BY <1>1, <1>2, <1>3, <1>4, <1>5, <1>6 DEF Next

\* A queue of service messages yields one and keeps only such.
LEMMA ServiceOnlyTail ==
  ASSUME NEW s \in Seq(Message), s # <<>>, ServiceOnly(s)
  PROVE  Head(s).kind = "service_resume" /\ ServiceOnly(Tail(s))
<1>1. 1 \in 1..Len(s) /\ Head(s) = s[1]
  OBVIOUS
<1>2. \A i \in 1..Len(Tail(s)) : i + 1 \in 1..Len(s) /\ Tail(s)[i] = s[i + 1]
  OBVIOUS
<1>. QED
  BY <1>1, <1>2 DEF ServiceOnly

\* Posting a service message keeps the queue one of service messages.
LEMMA ServiceOnlyAppend ==
  ASSUME NEW s \in Seq(Message), NEW m, m.kind = "service_resume", ServiceOnly(s)
  PROVE  ServiceOnly(Append(s, m))
<1>1. \A i \in 1..Len(Append(s, m)) :
        Append(s, m)[i] = IF i = Len(s) + 1 THEN m ELSE s[i]
  OBVIOUS
<1>2. Len(Append(s, m)) = Len(s) + 1 /\ Len(s) \in Nat
  OBVIOUS
<1>. QED
  BY <1>1, <1>2 DEF ServiceOnly

\* Every step keeps the pauses counted.
LEMMA PauseStep ==
  StateInv /\ TaskInv /\ QueueInv /\ PauseInv /\ HoldInv /\ [Next]_vars => (PauseInv /\ HoldInv)'
<1>. SUFFICES ASSUME StateInv, TaskInv, QueueInv, PauseInv, HoldInv, [Next]_vars
              PROVE  (PauseInv /\ HoldInv)'
  OBVIOUS
<1>. USE DEF StateInv, TaskInv, QueueInv, PauseInv, HoldInv, InTask, Exiting, PcStates, Goto,
             queueVars, taskVars, threadVars, portVars, pauseVars, libVars
<1>1. CASE Run
  BY <1>1 DEF Run
<1>2. ASSUME NEW c \in Contents, PostMessage(c) PROVE (PauseInv /\ HoldInv)'
  <2>. DEFINE msg == [kind |-> c.kind, arg |-> c.arg, prio |-> c.prio, auth |-> c.auth,
                      seq |-> posts + 1]
  <2>1. \/ oob_queue' = oob_queue
        \/ oob_queue' = Append(oob_queue, msg) /\ (ready \/ c.kind = "service_resume")
    BY <1>2 DEF PostMessage, Enqueue
  <2>2. ~ready => ServiceOnly(oob_queue')
    <3>1. CASE oob_queue' = oob_queue
      BY <3>1
    <3>2. CASE oob_queue' = Append(oob_queue, msg) /\ c.kind = "service_resume"
      <4>1. msg.kind = "service_resume"
        BY <3>2
      <4>. QED
        BY <3>2, <4>1, ServiceOnlyAppend
    <3>. QED
      BY <2>1, <3>1, <3>2
  <2>. QED
    BY <1>2, <2>2 DEF PostMessage
<1>3. ASSUME NEW t \in Threads, LoopStep(t) PROVE (PauseInv /\ HoldInv)'
  <2>1. CASE TaskBegins(t)
    BY <2>1 DEF TaskBegins
  <2>2. CASE PausingMessage(t)
    BY <2>2, ControlEffect, ControlCounts, ControlReleases, ServiceIsHarmless, ServiceOnlyTail DEF PausingMessage
  <2>3. CASE PausingEnds(t)
    BY <2>3 DEF PausingEnds
  <2>4. CASE StartCallbackBegins(t)
    <3>1. start_callback => resume_capabilities = {} /\ ~ready
      BY <2>4 DEF StartCallbackBegins
    <3>2. IsFiniteSet(resume_capabilities') /\ paused' = Cardinality(resume_capabilities')
      <4>1. /\ IsFiniteSet(resume_capabilities \union {PauseCap})
            /\ PauseCap \notin resume_capabilities =>
                 Cardinality(resume_capabilities \union {PauseCap}) = Cardinality(resume_capabilities) + 1
        BY FS_AddElement
      <4>2. \/ /\ start_callback /\ paused' = paused + 1
               /\ resume_capabilities' = resume_capabilities \union {PauseCap}
            \/ UNCHANGED <<resume_capabilities, paused>>
        BY <2>4 DEF StartCallbackBegins
      <4>. QED
        BY <3>1, <4>1, <4>2
    <3>. QED
      BY <2>4, <3>1, <3>2 DEF StartCallbackBegins
  <2>5. CASE LoopOOBMessage(t)
    BY <2>5, ControlEffect, ControlCounts, ControlReleases, ServiceIsHarmless, ServiceOnlyTail DEF LoopOOBMessage
  <2>6. CASE LoopDelayedMessage(t)
    BY <2>6, ControlEffect, ControlCounts, ControlReleases, ServiceIsHarmless, ServiceOnlyTail DEF LoopDelayedMessage
  <2>7. CASE LoopEvent(t)
    BY <2>7 DEF LoopEvent
  <2>8. CASE LoopEnds(t)
    BY <2>8 DEF LoopEnds, Finish
  <2>. QED
    BY <1>3, <2>1, <2>2, <2>3, <2>4, <2>5, <2>6, <2>7, <2>8 DEF LoopStep
<1>4. ASSUME NEW t \in Threads, DartStep(t) PROVE (PauseInv /\ HoldInv)'
  <2>1. CASE StartIsolateReady(t)
    BY <2>1 DEF StartIsolateReady
  <2>2. CASE StartIsolateReturns(t)
    BY <2>2 DEF StartIsolateReturns
  <2>3. CASE StartIsolateFails(t)
    BY <2>3 DEF StartIsolateFails
  <2>4. CASE EventPorts(t)
    BY <2>4 DEF EventPorts, RunsDart
  <2>5. CASE EventReturns(t)
    BY <2>5 DEF EventReturns, RunsDart
  <2>6. CASE EventThrows(t)
    BY <2>6 DEF EventThrows, RunsDart, AfterError
  <2>7. CASE InterruptBegins(t)
    BY <2>7 DEF InterruptBegins
  <2>8. CASE InterruptMessage(t)
    <3>1. /\ IsFiniteSet(resume_capabilities') /\ paused' = Cardinality(resume_capabilities')
          /\ pause_on_start' => pause_on_start
          /\ UNCHANGED <<paused_on_start, ready>>
      BY <2>8, ControlEffect, ControlCounts, ControlReleases DEF InterruptMessage
    <3>2. ~ready => ServiceOnly(oob_queue')
      BY <2>8, ServiceOnlyTail DEF InterruptMessage
    <3>3. ~pause_on_start /\ pc[t] \in {"event", "start_callback"}
      BY <2>8 DEF InterruptMessage
    <3>4. /\ pc' \in {pc, [pc EXCEPT ![t] = "failed"], [pc EXCEPT ![t] = "loop"]}
          /\ start_callback' => start_callback /\ pc' = pc
      BY <2>8, <3>3 DEF InterruptMessage, AfterError
    <3>. QED
      BY <3>1, <3>2, <3>3, <3>4
  <2>9. CASE InterruptEnds(t)
    BY <2>9 DEF InterruptEnds
  <2>. QED
    BY <1>4, <2>1, <2>2, <2>3, <2>4, <2>5, <2>6, <2>7, <2>8, <2>9 DEF DartStep
<1>5. ASSUME NEW t \in Threads, ExitStep(t) PROVE (PauseInv /\ HoldInv)'
  <2>1. CASE NotifyExitListeners(t)
    BY <2>1 DEF NotifyExitListeners
  <2>2. CASE ClosePorts(t)
    BY <2>2 DEF ClosePorts
  <2>3. CASE DeleteHandler(t)
    BY <2>3 DEF DeleteHandler, ServiceOnly
  <2>. QED
    BY <1>5, <2>1, <2>2, <2>3 DEF ExitStep
<1>6. CASE UNCHANGED vars
  BY <1>6 DEF vars
<1>. QED
  BY <1>1, <1>2, <1>3, <1>4, <1>5, <1>6 DEF Next

-----------------------------------------------------------------------------
(* Waiting: without a task                                                  *)

\* Every step leaves a task, or nothing to do for one.
LEMMA IdleStep ==
  /\ StateInv /\ TaskInv /\ PauseInv /\ HoldInv
  /\ NoMessageStranded /\ IdleIsolateHasPorts
  /\ [Next]_vars
  => (NoMessageStranded /\ IdleIsolateHasPorts)'
<1>. SUFFICES ASSUME StateInv, TaskInv, PauseInv, HoldInv,
                     NoMessageStranded, IdleIsolateHasPorts, [Next]_vars
              PROVE  (NoMessageStranded /\ IdleIsolateHasPorts)'
  OBVIOUS
<1>0. ASSUME task' \/ ~pool' PROVE (NoMessageStranded /\ IdleIsolateHasPorts)'
  BY <1>0 DEF NoMessageStranded, IdleIsolateHasPorts
<1>1. CASE Run
  BY <1>0, <1>1 DEF Run
<1>2. ASSUME NEW c \in Contents, PostMessage(c) PROVE (NoMessageStranded /\ IdleIsolateHasPorts)'
  BY <1>0, <1>2 DEF PostMessage, EnsureTask
<1>3. ASSUME NEW t \in Threads, LoopStep(t) PROVE (NoMessageStranded /\ IdleIsolateHasPorts)'
  <2>1. CASE TaskBegins(t)
    BY <1>0, <2>1 DEF TaskBegins, StateInv, TaskInv
  <2>2. CASE PausingMessage(t)
    BY <1>0, <2>2, ControlEffect DEF PausingMessage, TaskInv, InTask
  <2>3. CASE PausingEnds(t)
    <3>1. pc[t] = "pausing" /\ oob_queue = <<>> /\ paused_on_start /\ task
      BY <2>3 DEF PausingEnds, HoldInv, TaskInv, InTask
    <3>2. CASE pause_on_start
      BY <2>3, <3>1, <3>2 DEF PausingEnds, queueVars, NoMessageStranded, IdleIsolateHasPorts
    <3>3. CASE ~pause_on_start
      BY <1>0, <2>3, <3>1, <3>3 DEF PausingEnds
    <3>. QED
      BY <3>2, <3>3
  <2>4. CASE StartCallbackBegins(t)
    BY <1>0, <2>4 DEF StartCallbackBegins, taskVars, TaskInv, InTask
  <2>5. CASE LoopOOBMessage(t)
    BY <1>0, <2>5, ControlEffect DEF LoopOOBMessage, TaskInv, InTask
  <2>6. CASE LoopDelayedMessage(t)
    BY <1>0, <2>6, ControlEffect DEF LoopDelayedMessage, TaskInv, InTask
  <2>7. CASE LoopEvent(t)
    BY <1>0, <2>7 DEF LoopEvent, taskVars, TaskInv, InTask
  <2>8. CASE LoopEnds(t)
    <3>1. CASE pc[t] = "failed" /\ Finish(t, FALSE)
      BY <3>1 DEF Finish, NoMessageStranded, IdleIsolateHasPorts
    <3>2. CASE /\ pc[t] = "loop" /\ oob_queue = <<>>
               /\ ~NormalAllowed \/ queue = <<>>
               /\ Finish(t, TRUE)
      <4>1. paused \in Nat
        BY FS_CardinalityType DEF PauseInv
      <4>2. queue # <<>> => paused > 0
        BY <3>2, <4>1 DEF NormalAllowed
      <4>. QED
        BY <3>2, <4>2 DEF Finish, NoMessageStranded, IdleIsolateHasPorts, queueVars, libVars, portVars
    <3>. QED
      BY <2>8, <3>1, <3>2 DEF LoopEnds
  <2>. QED
    BY <1>3, <2>1, <2>2, <2>3, <2>4, <2>5, <2>6, <2>7, <2>8 DEF LoopStep
<1>4. ASSUME NEW t \in Threads, DartStep(t) PROVE (NoMessageStranded /\ IdleIsolateHasPorts)'
  <2>1. pc[t] \in {"event", "start_callback"}
    BY <1>4 DEF DartStep, StartIsolateReady, StartIsolateReturns, StartIsolateFails, EventPorts,
                EventReturns, EventThrows, InterruptBegins, InterruptMessage, InterruptEnds,
                RunsDart, TaskInv
  <2>2. task /\ pool
    BY <2>1 DEF TaskInv, InTask
  <2>3. CASE StartIsolateReturns(t)
    BY <1>0, <2>2, <2>3, TaskAtHand DEF StartIsolateReturns
  <2>4. CASE InterruptMessage(t)
    BY <1>0, <2>2, <2>4, ControlEffect DEF InterruptMessage
  <2>. QED
    BY <1>0, <1>4, <2>2, <2>3, <2>4
    DEF DartStep, StartIsolateReady, StartIsolateFails, EventPorts, EventReturns, EventThrows,
        InterruptBegins, InterruptEnds, taskVars
<1>5. ASSUME NEW t \in Threads, ExitStep(t) PROVE (NoMessageStranded /\ IdleIsolateHasPorts)'
  BY <1>0, <1>5 DEF ExitStep, NotifyExitListeners, ClosePorts, DeleteHandler, taskVars, TaskInv, Exiting
<1>6. CASE UNCHANGED vars
  BY <1>6 DEF vars, queueVars, taskVars, pauseVars, libVars, portVars, NoMessageStranded,
              IdleIsolateHasPorts
<1>. QED
  BY <1>1, <1>2, <1>3, <1>4, <1>5, <1>6 DEF Next

-----------------------------------------------------------------------------
(* Exit                                                                     *)

Announced == \A l \in listeners["exit"] : <<"exit", l, 0>> \in notices
ExitNoticed == \E n \in notices : n[1] = "exit"

\* Whoever is past NotifyExitListeners() has told all listeners, and an exit
\* notice is sent only by a thread that will not come back.
ExitInv ==
  /\ \A t \in Threads : pc[t] \in {"closing", "clearing"} => Announced
  /\ deleted => Announced
  /\ ExitNoticed =>
       ~pool /\ ~start_callback /\ \A t \in Threads : pc[t] \in {"idle", "closing", "clearing"}

\* Every step keeps the exit notices complete and last.
LEMMA ExitStepInv ==
  StateInv /\ TaskInv /\ ExitInv /\ [Next]_vars => ExitInv'
<1>. SUFFICES ASSUME StateInv, TaskInv, ExitInv, [Next]_vars PROVE ExitInv'
  OBVIOUS
\* While a task runs nobody has been told.
<1>0. ASSUME NEW t \in Threads, pc[t] \in InTask,
             pc' \in [Threads -> PcStates],
             \A u \in Threads : u # t => pc'[u] = pc[u],
             pc'[t] \notin {"closing", "clearing"},
             deleted' = deleted,
             \A n \in notices' : n \in notices \/ n[1] = "error"
      PROVE  ExitInv'
  <2>1. \A u \in Threads : u # t => pc[u] = "idle"
    BY <1>0 DEF TaskInv, InTask
  <2>2. ~deleted /\ ~ExitNoticed
    BY <1>0 DEF TaskInv, ExitInv, InTask
  <2>3. ~ExitNoticed'
    BY <1>0, <2>2 DEF ExitNoticed
  <2>. QED
    BY <1>0, <2>1, <2>2, <2>3 DEF ExitInv
<1>. USE DEF StateInv, Goto, PcStates, portVars, threadVars, taskVars, libVars
<1>1. CASE Run
  BY <1>1 DEF Run, ExitInv, Announced, ExitNoticed
<1>2. ASSUME NEW c \in Contents, PostMessage(c) PROVE ExitInv'
  BY <1>2 DEF PostMessage, EnsureTask, ExitInv, Announced, ExitNoticed
<1>3. ASSUME NEW t \in Threads, LoopStep(t) PROVE ExitInv'
  <2>1. CASE TaskBegins(t)
    BY <2>1 DEF TaskBegins, TaskInv, ExitInv, Announced, ExitNoticed
  <2>2. CASE ~TaskBegins(t)
    <3>1. /\ pc[t] \in InTask
          /\ pc' \in {pc} \union {[pc EXCEPT ![t] = l] : l \in PcStates \ {"closing", "clearing"}}
          /\ UNCHANGED <<deleted, notices>>
      BY <1>3, <2>2
      DEF LoopStep, PausingMessage, PausingEnds, StartCallbackBegins, LoopOOBMessage,
          LoopDelayedMessage, LoopEvent, LoopEnds, Finish, InTask
    <3>. QED
      BY <1>0, <3>1 DEF InTask
  <2>. QED
    BY <2>1, <2>2
<1>4. ASSUME NEW t \in Threads, DartStep(t) PROVE ExitInv'
  <2>1. pc[t] \in {"event", "start_callback"}
    BY <1>4 DEF DartStep, StartIsolateReady, StartIsolateReturns, StartIsolateFails, EventPorts,
                EventReturns, EventThrows, InterruptBegins, InterruptMessage, InterruptEnds,
                RunsDart, TaskInv
  <2>2. /\ pc' \in {pc} \union {[pc EXCEPT ![t] = l] : l \in PcStates \ {"closing", "clearing"}}
        /\ UNCHANGED deleted
        /\ notices' \in {notices, notices \union ErrorNotices(t)}
    BY <1>4 DEF DartStep, StartIsolateReady, StartIsolateReturns, StartIsolateFails, EventPorts,
                EventReturns, EventThrows, InterruptBegins, InterruptMessage, InterruptEnds,
                RunsDart, AfterError
  <2>3. \A n \in ErrorNotices(t) : n[1] = "error"
    BY DEF ErrorNotices
  <2>. QED
    BY <1>0, <2>1, <2>2, <2>3 DEF InTask
<1>5. ASSUME NEW t \in Threads, ExitStep(t) PROVE ExitInv'
  <2>1. CASE NotifyExitListeners(t)
    <3>1. ~pool /\ ~start_callback /\ \A u \in Threads : u # t => pc[u] = "idle"
      BY <2>1 DEF NotifyExitListeners, TaskInv, Exiting
    <3>2. Announced'
      BY <2>1 DEF NotifyExitListeners, Announced
    <3>. QED
      BY <2>1, <3>1, <3>2 DEF NotifyExitListeners, ExitInv
  <2>2. CASE ClosePorts(t)
    BY <2>2 DEF ClosePorts, ExitInv, Announced, ExitNoticed
  <2>3. CASE DeleteHandler(t)
    BY <2>3 DEF DeleteHandler, ExitInv, Announced, ExitNoticed
  <2>. QED
    BY <1>5, <2>1, <2>2, <2>3 DEF ExitStep
<1>6. CASE UNCHANGED vars
  BY <1>6 DEF vars, ExitInv, Announced, ExitNoticed
<1>. QED
  BY <1>1, <1>2, <1>3, <1>4, <1>5, <1>6 DEF Next

-----------------------------------------------------------------------------

IndInv ==
  /\ StateInv /\ TaskInv /\ QueueInv /\ PauseInv /\ HoldInv
  /\ NoMessageStranded /\ IdleIsolateHasPorts /\ ExitInv

\* The invariant holds in every reachable state.
THEOREM IndInvHolds == Spec => []IndInv
<1>1. Init => IndInv
  <2>. SUFFICES ASSUME Init PROVE IndInv
    OBVIOUS
  <2>1. StateInv
    BY DEF Init, StateInv, PcStates
  <2>2. TaskInv
    BY DEF Init, TaskInv, InTask, Exiting
  <2>3. QueueInv
    <3>1. <<>> \in Seq(Message)
      OBVIOUS
    <3>. QED
      BY <3>1 DEF Init, QueueInv
  <2>4. PauseInv
    BY FS_EmptySet DEF Init, PauseInv, ServiceOnly
  <2>5. HoldInv /\ NoMessageStranded /\ IdleIsolateHasPorts /\ ExitInv
    BY DEF Init, HoldInv, NoMessageStranded, IdleIsolateHasPorts, ExitInv, ExitNoticed
  <2>. QED
    BY <2>1, <2>2, <2>3, <2>4, <2>5 DEF IndInv
<1>2. IndInv /\ [Next]_vars => IndInv'
  BY TaskStep, QueueStep, PauseStep, IdleStep, ExitStepInv DEF IndInv
<1>. QED
  BY <1>1, <1>2, PTL DEF Spec

\* TaskCallback() and the end callback are run by one thread at a time, for any
\* number of pool threads and messages.
THEOREM OneThreadRunsIsolateHolds == Spec => []OneThreadRunsIsolate
<1>1. IndInv => OneThreadRunsIsolate
  BY DEF IndInv, StateInv, TaskInv, OneThreadRunsIsolate
<1>. QED
  BY <1>1, IndInvHolds, PTL

\* paused_ is the number of outstanding resume capabilities.
THEOREM PauseCountsCapabilitiesHolds == Spec => []PauseCountsCapabilities
<1>1. IndInv => PauseCountsCapabilities
  BY DEF IndInv, PauseInv, PauseCountsCapabilities
<1>. QED
  BY <1>1, IndInvHolds, PTL

\* When TaskCallback() has cleared task_ no message waits for a thread.
THEOREM NoMessageStrandedHolds == Spec => []NoMessageStranded
BY IndInvHolds, PTL DEF IndInv

\* An isolate without live ports does not wait for messages.
THEOREM IdleIsolateHasPortsHolds == Spec => []IdleIsolateHasPorts
BY IndInvHolds, PTL DEF IndInv

\* A handler is deleted only after its exit listeners were told.
THEOREM ExitIsAnnouncedHolds == Spec => []ExitIsAnnounced
<1>1. IndInv => ExitIsAnnounced
  BY DEF IndInv, ExitInv, Announced, ExitIsAnnounced
<1>. QED
  BY <1>1, IndInvHolds, PTL

\* After the exit notices no thread enters the isolate again.
THEOREM ExitNoticeIsLastHolds == Spec => ExitNoticeIsLast
<1>1. IndInv /\ IndInv' /\ [Next]_vars =>
        [ExitNoticed => \A t \in Threads : pc'[t] \in {"idle", "closing", "clearing"}]_vars
  <2>. SUFFICES ASSUME IndInv, IndInv', Next, ExitNoticed, NEW t \in Threads
                PROVE  pc'[t] \in {"idle", "closing", "clearing"}
    OBVIOUS
  <2>1. notices \subseteq notices'
    <3>1. ASSUME NEW u \in Threads, LoopStep(u) PROVE notices' = notices
      BY <3>1 DEF LoopStep, TaskBegins, PausingMessage, PausingEnds, StartCallbackBegins,
                  LoopOOBMessage, LoopDelayedMessage, LoopEvent, LoopEnds, Finish
    <3>2. ASSUME NEW u \in Threads, DartStep(u) PROVE notices \subseteq notices'
      BY <3>2 DEF DartStep, StartIsolateReady, StartIsolateReturns, StartIsolateFails, EventPorts,
                  EventReturns, EventThrows, InterruptBegins, InterruptMessage, InterruptEnds
    <3>3. ASSUME NEW u \in Threads, ExitStep(u) PROVE notices \subseteq notices'
      BY <3>3 DEF ExitStep, NotifyExitListeners, ClosePorts, DeleteHandler
    <3>. QED
      BY <3>1, <3>2, <3>3 DEF Next, Run, PostMessage
  <2>. QED
    BY <2>1 DEF IndInv, ExitInv, ExitNoticed
<1>. QED
  BY <1>1, IndInvHolds, PTL DEF Spec, ExitNoticeIsLast, ExitNoticed

-----------------------------------------------------------------------------
(* The order of the queues                                                 *)

\* Control messages get into queue_ only as delayed pings and kills.
IsDelayed(msg) == msg.kind \in {"ping", "kill"} /\ msg.prio = "immediate"

\* A queue_ in order, when the messages of u are urgent, n were posted and the event
\* with number last was the last to begin: nothing but control messages precedes an
\* urgent one, and the events that others posted stand in the order of posting, all
\* later than last.
InOrder(q, u, n, last) ==
  /\ \A i \in 1..Len(q) :
       /\ q[i].seq <= n
       /\ IsControl(q[i]) => IsDelayed(q[i])
       /\ ~IsControl(q[i]) /\ q[i].seq # 0 => last < q[i].seq
  /\ \A i, j \in 1..Len(q) : i < j =>
       /\ IsControl(q[j]) /\ q[j].seq \in u => IsControl(q[i])
       /\ ~IsControl(q[i]) /\ ~IsControl(q[j]) /\ q[j].seq # 0 => q[i].seq < q[j].seq

\* What waits out of band is not urgent yet and is nowhere in queue_.
NotYetUrgent(oob, q, u, n) ==
  /\ \A i \in 1..Len(oob) : IsControl(oob[i]) /\ oob[i].seq <= n /\ oob[i].seq \notin u
  /\ \A i, j \in 1..Len(oob) : i < j => oob[i].seq < oob[j].seq
  /\ \A i \in 1..Len(oob), j \in 1..Len(q) : IsControl(q[j]) => q[j].seq # oob[i].seq

OrderInv ==
  /\ queue \in Seq(Message) /\ urgent \subseteq 0..posts
  /\ lastEvent \in 0..posts
  /\ InOrder(queue, urgent, posts, lastEvent)
  /\ NotYetUrgent(oob_queue, queue, urgent, posts)

\* The message that was handled leaves a queue in order; if it was an event, the rest is
\* later than that.
LEMMA InOrderTail ==
  ASSUME NEW q \in Seq(Message), NEW u, NEW n \in Nat, NEW last \in Nat, q # <<>>, InOrder(q, u, n, last)
  PROVE  /\ InOrder(Tail(q), u, n, last)
         /\ ~IsControl(Head(q)) => InOrder(Tail(q), u, n, Head(q).seq)
<1>1. \A i \in 1..Len(Tail(q)) : i + 1 \in 1..Len(q) /\ Tail(q)[i] = q[i + 1] /\ i \in Int
  OBVIOUS
<1>2. Head(q) = q[1] /\ 1 \in 1..Len(q)
  OBVIOUS
<1>3. \A i, j \in 1..Len(Tail(q)) : i < j => i + 1 < j + 1
  OBVIOUS
<1>4. \A i \in 1..Len(Tail(q)) : 1 < i + 1
  OBVIOUS
<1>5. \A i, j \in 1..Len(Tail(q)) : i < j =>
        /\ IsControl(Tail(q)[j]) /\ Tail(q)[j].seq \in u => IsControl(Tail(q)[i])
        /\ ~IsControl(Tail(q)[i]) /\ ~IsControl(Tail(q)[j]) /\ Tail(q)[j].seq # 0 => Tail(q)[i].seq < Tail(q)[j].seq
  BY <1>1, <1>3 DEF InOrder
<1>6. ASSUME NEW i \in 1..Len(Tail(q))
      PROVE  /\ Tail(q)[i].seq <= n
             /\ IsControl(Tail(q)[i]) => IsDelayed(Tail(q)[i])
             /\ ~IsControl(Tail(q)[i]) /\ Tail(q)[i].seq # 0 => last < Tail(q)[i].seq
  BY <1>1 DEF InOrder
<1>7. ASSUME NEW i \in 1..Len(Tail(q)), ~IsControl(Head(q))
      PROVE  ~IsControl(Tail(q)[i]) /\ Tail(q)[i].seq # 0 => Head(q).seq < Tail(q)[i].seq
  BY <1>1, <1>2, <1>4, <1>7 DEF InOrder
<1>. QED
  BY <1>5, <1>6, <1>7 DEF InOrder

\* Messages are numbered.
LEMMA NumbersOfMessages ==
  ASSUME NEW q \in Seq(Message)
  PROVE  \A i \in 1..Len(q) : q[i] \in Message /\ q[i].seq \in Nat
<1>1. \A m \in Message : m.seq \in Nat
  BY DEF Message
<1>2. \A i \in 1..Len(q) : q[i] \in Message
  OBVIOUS
<1>. QED
  BY <1>1, <1>2

\* Posting an event keeps the order: it is the latest, or the isolate's own.
LEMMA InOrderAppendEvent ==
  ASSUME NEW q \in Seq(Message), NEW u, NEW n \in Nat, NEW last \in 0..n, InOrder(q, u, n, last),
         NEW m \in Message, ~IsControl(m), NEW k \in {n, n + 1}, m.seq = 0 \/ (m.seq = n + 1 /\ k = n + 1)
  PROVE  InOrder(Append(q, m), u, k, last)
<1>1. \A i \in 1..Len(Append(q, m)) :
        Append(q, m)[i] = IF i = Len(q) + 1 THEN m ELSE q[i]
  OBVIOUS
<1>2. Len(Append(q, m)) = Len(q) + 1 /\ Len(q) \in Nat
  OBVIOUS
<1>3. \A i \in 1..Len(q) : q[i] \in Message /\ q[i].seq \in Nat
  BY NumbersOfMessages
<1>. QED
  BY <1>1, <1>2, <1>3 DEF InOrder

\* A message that is delayed to the end of the queue is not urgent.
LEMMA InOrderAppendControl ==
  ASSUME NEW q \in Seq(Message), NEW u, NEW n \in Nat, NEW last \in 0..n, InOrder(q, u, n, last),
         NEW m \in Message, IsControl(m), IsDelayed(m), m.seq <= n, m.seq \notin u
  PROVE  InOrder(Append(q, m), u, n, last)
<1>1. \A i \in 1..Len(Append(q, m)) :
        Append(q, m)[i] = IF i = Len(q) + 1 THEN m ELSE q[i]
  OBVIOUS
<1>2. Len(Append(q, m)) = Len(q) + 1 /\ Len(q) \in Nat
  OBVIOUS
<1>. QED
  BY <1>1, <1>2 DEF InOrder

\* Every set of naturals that is not empty has a least element.
LEMMA LeastNat ==
  ASSUME NEW T \in SUBSET Nat, T # {}
  PROVE  \E x \in T : \A y \in T : x <= y
<1> DEFINE R == OpToRel(<, Nat)
<1>1. IsWellFoundedOn(R, Nat)
  BY NatLessThanWellFounded
<1>2. \A x, y \in Nat : x < y => <<x, y>> \in R
  BY DEF OpToRel
<1> HIDE DEF R
<1>3. PICK x \in T : \A y \in T : ~(<<y, x>> \in R)
  BY <1>1, WFMin
<1>4. \A y \in T : y \in Nat /\ x \in Nat /\ ~(y < x)
  BY <1>2, <1>3
<1>5. \A y \in T : x <= y
  BY <1>4
<1> QED
  BY <1>5

\* LeadingControls() finds where the leading control messages end.
LEMMA LeadingControlsExist ==
  ASSUME NEW q \in Seq(Message)
  PROVE  /\ LeadingControls(q) \in 0..Len(q)
         /\ \A i \in 1..LeadingControls(q) : IsControl(q[i])
<1>. DEFINE events == {i \in 1..Len(q) : ~IsControl(q[i])}
<1>1. \E n \in 0..Len(q) : (\A i \in 1..n : IsControl(q[i])) /\ (n < Len(q) => ~IsControl(q[n + 1]))
  <2>1. CASE events = {}
    BY <2>1
  <2>2. CASE events # {}
    <3>1. events \in SUBSET Nat /\ Len(q) \in Nat
      OBVIOUS
    <3>2. PICK e \in events : \A k \in events : e <= k
      BY <2>2, <3>1, LeastNat
    <3>3. e - 1 \in 0..Len(q) /\ e \in 1..Len(q)
      BY <3>1, <3>2
    <3>4. \A i \in 1..(e - 1) : IsControl(q[i])
      BY <3>1, <3>2, <3>3
    <3>5. (e - 1) + 1 = e
      BY <3>3
    <3>. QED
      BY <3>2, <3>3, <3>4, <3>5
  <2>. QED
    BY <2>1, <2>2
<1>. QED
  BY <1>1 DEF LeadingControls

\* A message that is delayed to before the next event becomes urgent and has only
\* control messages before it.
LEMMA InOrderInsert ==
  ASSUME NEW q \in Seq(Message), NEW u, NEW n \in Nat, NEW last \in 0..n, InOrder(q, u, n, last),
         NEW m \in Message, IsControl(m), IsDelayed(m), m.seq <= n,
         \A i \in 1..Len(q) : IsControl(q[i]) => q[i].seq # m.seq
  PROVE  /\ Enqueue(q, m, TRUE) \in Seq(Message)
         /\ InOrder(Enqueue(q, m, TRUE), u \union {m.seq}, n, last)
         /\ \A i \in 1..Len(Enqueue(q, m, TRUE)) :
              Enqueue(q, m, TRUE)[i] = m \/ \E j \in 1..Len(q) : Enqueue(q, m, TRUE)[i] = q[j]
<1>. DEFINE k == LeadingControls(q)
            e == SubSeq(q, 1, k) \o <<m>> \o SubSeq(q, k + 1, Len(q))
<1>1. k \in 0..Len(q) /\ \A i \in 1..k : IsControl(q[i])
  BY LeadingControlsExist
<1>2. Enqueue(q, m, TRUE) = e
  BY DEF Enqueue
<1>. HIDE DEF k
<1>. DEFINE a == SubSeq(q, 1, k)
            b == SubSeq(q, k + 1, Len(q))
<1>a. a \in Seq(Message) /\ Len(a) = k /\ (\A i \in 1..k : a[i] = q[i])
  BY <1>1
<1>b. b \in Seq(Message) /\ Len(b) = Len(q) - k /\ (\A i \in 1..(Len(q) - k) : b[i] = q[k + i])
  BY <1>1
<1>. DEFINE c == a \o <<m>>
<1>c. c \in Seq(Message) /\ Len(c) = k + 1 /\ \A i \in 1..(k + 1) : c[i] = IF i <= k THEN q[i] ELSE m
  BY <1>1, <1>a
<1>d. e = c \o b
  OBVIOUS
<1>. HIDE DEF a, b, c, e
<1>e. Len(q) \in Nat /\ k \in Nat
  BY <1>1
<1>3. e \in Seq(Message) /\ Len(e) = Len(q) + 1
  <2>0. c \in Seq(Message) /\ b \in Seq(Message)
    BY <1>b, <1>c
  <2>1. e \in Seq(Message) /\ Len(e) = Len(c) + Len(b)
    BY <2>0, <1>d
  <2>. QED
    BY <1>e, <1>b, <1>c, <2>1
<1>4. \A i \in 1..Len(e) : e[i] = IF i <= k THEN q[i] ELSE IF i = k + 1 THEN m ELSE q[i - 1]
  <2>. SUFFICES ASSUME NEW i \in 1..Len(e)
                PROVE  e[i] = IF i <= k THEN q[i] ELSE IF i = k + 1 THEN m ELSE q[i - 1]
    OBVIOUS
  <2>1. e[i] = IF i <= k + 1 THEN c[i] ELSE b[i - (k + 1)]
    BY <1>1, <1>3, <1>b, <1>c, <1>d
  <2>2. CASE i <= k + 1
    BY <1>1, <1>c, <2>1, <2>2
  <2>3. CASE i > k + 1
    <3>0. i \in Int /\ i <= Len(q) + 1
      BY <1>e, <1>3
    <3>1. i - (k + 1) \in 1..(Len(q) - k) /\ k + (i - (k + 1)) = i - 1
      BY ONLY <1>e, <2>3, <3>0
    <3>. QED
      BY <1>e, <1>b, <2>1, <2>3, <3>1
  <2>. QED
    BY <1>1, <2>2, <2>3
<1>5. \A i \in 1..Len(q) : q[i] \in Message /\ q[i].seq \in Nat
  BY NumbersOfMessages
<1>6. \A i \in 1..Len(e) : e[i] = m \/ \E j \in 1..Len(q) : e[i] = q[j]
  <2>. SUFFICES ASSUME NEW i \in 1..Len(e) PROVE e[i] = m \/ \E j \in 1..Len(q) : e[i] = q[j]
    OBVIOUS
  <2>1. (i <= k => i \in 1..Len(q)) /\ (i > k + 1 => i - 1 \in 1..Len(q))
    BY <1>1, <1>e, <1>3
  <2>2. i <= k \/ i = k + 1 \/ (i > k + 1 /\ ~(i <= k) /\ i # k + 1)
    BY <1>e
  <2>. QED
    BY <1>4, <2>1, <2>2
<1>7. ASSUME NEW i \in 1..Len(e)
      PROVE  /\ e[i].seq <= n
             /\ IsControl(e[i]) => IsDelayed(e[i])
             /\ ~IsControl(e[i]) /\ e[i].seq # 0 => last < e[i].seq
  BY <1>6 DEF InOrder
<1>8. ASSUME NEW i \in 1..Len(e), NEW j \in 1..Len(e), i < j
      PROVE  /\ IsControl(e[j]) /\ e[j].seq \in u \union {m.seq} => IsControl(e[i])
             /\ ~IsControl(e[i]) /\ ~IsControl(e[j]) /\ e[j].seq # 0 => e[i].seq < e[j].seq
  <2>1. CASE i <= k
    BY <1>1, <1>3, <1>4, <2>1
  <2>2. CASE i = k + 1
    <3>1. e[i] = m
      BY <1>1, <1>4, <2>2
    <3>. QED
      BY <3>1
  <2>3. CASE i > k + 1
    <3>1. i - 1 \in 1..Len(q) /\ j - 1 \in 1..Len(q) /\ i - 1 < j - 1 /\ e[i] = q[i - 1] /\ e[j] = q[j - 1]
      BY <1>1, <1>3, <1>4, <1>8, <2>3
    <3>. QED
      BY <3>1 DEF InOrder
  <2>. QED
    BY <1>1, <2>1, <2>2, <2>3
<1>. QED
  BY <1>2, <1>3, <1>6, <1>7, <1>8 DEF InOrder

\* The next control message out of band leaves the others as they were, and is known
\* to none of the places where they will go.
LEMMA NotYetUrgentTail ==
  ASSUME NEW oob \in Seq(Message), NEW q, NEW u, NEW n \in Nat, oob # <<>>, NotYetUrgent(oob, q, u, n)
  PROVE  /\ NotYetUrgent(Tail(oob), q, u \union {Head(oob).seq}, n)
         /\ NotYetUrgent(Tail(oob), q, u, n)
         /\ IsControl(Head(oob)) /\ Head(oob).seq \notin u /\ Head(oob).seq <= n /\ Head(oob) \in Message
         /\ \A i \in 1..Len(q) : IsControl(q[i]) => q[i].seq # Head(oob).seq
         /\ \A i \in 1..Len(Tail(oob)) : Tail(oob)[i].seq # Head(oob).seq
<1>1. \A i \in 1..Len(Tail(oob)) : i + 1 \in 1..Len(oob) /\ Tail(oob)[i] = oob[i + 1] /\ i \in Int /\ 1 < i + 1
  OBVIOUS
<1>2. Head(oob) = oob[1] /\ 1 \in 1..Len(oob) /\ oob[1] \in Message
  OBVIOUS
<1>3. \A i, j \in 1..Len(Tail(oob)) : i < j => i + 1 < j + 1
  OBVIOUS
<1>4. \A i \in 1..Len(oob) : oob[i].seq \in Nat
  BY NumbersOfMessages
<1>5. \A i \in 1..Len(Tail(oob)) : Tail(oob)[i].seq # Head(oob).seq
  <2>. SUFFICES ASSUME NEW i \in 1..Len(Tail(oob)) PROVE oob[i + 1].seq # oob[1].seq
    BY <1>1, <1>2
  <2>1. oob[1].seq < oob[i + 1].seq
    BY <1>1, <1>2 DEF NotYetUrgent
  <2>. QED
    BY <2>1, <1>1, <1>2, <1>4
<1>6. NotYetUrgent(Tail(oob), q, u, n)
  BY <1>1, <1>3 DEF NotYetUrgent
<1>7. NotYetUrgent(Tail(oob), q, u \union {Head(oob).seq}, n)
  BY <1>5, <1>6 DEF NotYetUrgent
<1>. QED
  BY <1>2, <1>5, <1>6, <1>7 DEF NotYetUrgent

\* Only a ping or kill that is to be delayed changes queue_ and what is urgent.
LEMMA ControlOrder ==
  ASSUME NEW msg, NEW q, HandleControl(msg, q)
  PROVE  HandleDelayed(msg, q) \/ (queue' = q /\ urgent' = urgent)
BY DEF HandleControl, HandlePause, HandleResume, HandleImmediate, HandleListener,
       HandleErrorsFatal, ServiceResume, libVars

\* The out-of-band message that is handled next goes where it belongs.
LEMMA OOBMessageOrder ==
  ASSUME QueueInv, OrderInv, oob_queue # <<>>, oob_queue' = Tail(oob_queue),
         HandleControl(Head(oob_queue), queue), posts' = posts, lastEvent' = lastEvent
  PROVE  OrderInv'
<1>. DEFINE msg == Head(oob_queue)
            now == [msg EXCEPT !.prio = "immediate"]
<1>0. /\ oob_queue \in Seq(Message) /\ queue \in Seq(Message) /\ posts \in Nat /\ lastEvent \in 0..posts
      /\ InOrder(queue, urgent, posts, lastEvent) /\ NotYetUrgent(oob_queue, queue, urgent, posts)
      /\ urgent \subseteq 0..posts
  BY DEF QueueInv, OrderInv
<1>1. /\ NotYetUrgent(Tail(oob_queue), queue, urgent \union {msg.seq}, posts)
      /\ NotYetUrgent(Tail(oob_queue), queue, urgent, posts)
      /\ IsControl(msg) /\ msg.seq \notin urgent /\ msg.seq <= posts /\ msg \in Message
      /\ \A i \in 1..Len(queue) : IsControl(queue[i]) => queue[i].seq # msg.seq
      /\ \A i \in 1..Len(Tail(oob_queue)) : Tail(oob_queue)[i].seq # msg.seq
  BY <1>0, NotYetUrgentTail
<1>. HIDE DEF msg
<1>2. CASE queue' = queue /\ urgent' = urgent
  BY <1>0, <1>1, <1>2 DEF OrderInv
<1>3. CASE HandleDelayed(msg, queue)
  <2>1. /\ queue' = Enqueue(queue, now, msg.prio = "before_next_event")
        /\ urgent' = IF msg.prio = "before_next_event" THEN urgent \union {msg.seq} ELSE urgent
        /\ msg.kind \in {"ping", "kill"}
    BY <1>3 DEF HandleDelayed
  <2>2. now \in Message /\ now.seq = msg.seq /\ now.kind = msg.kind /\ now.prio = "immediate"
    BY <1>1 DEF Message, Priorities
  <2>3. IsControl(now) /\ IsDelayed(now) /\ msg.seq \in 0..posts
    BY <1>0, <1>1, <2>1, <2>2 DEF IsControl, IsDelayed, Message
  <2>. HIDE DEF now
  <2>4. CASE msg.prio = "before_next_event"
    <3>1. /\ queue' \in Seq(Message) /\ InOrder(queue', urgent \union {now.seq}, posts, lastEvent)
          /\ \A i \in 1..Len(queue') : queue'[i] = now \/ \E j \in 1..Len(queue) : queue'[i] = queue[j]
      <4>1. queue' = Enqueue(queue, now, TRUE)
        BY <2>1, <2>4
      <4>2. /\ now \in Message /\ IsControl(now) /\ IsDelayed(now) /\ now.seq <= posts
            /\ \A i \in 1..Len(queue) : IsControl(queue[i]) => queue[i].seq # now.seq
        BY <1>1, <2>2, <2>3
      <4>3. queue \in Seq(Message) /\ posts \in Nat /\ lastEvent \in 0..posts /\ InOrder(queue, urgent, posts, lastEvent)
        BY <1>0
      <4>. QED
        BY ONLY <4>1, <4>2, <4>3, InOrderInsert
    <3>2. urgent' = urgent \union {msg.seq}
      BY <2>1, <2>4
    <3>3. NotYetUrgent(oob_queue', queue', urgent', posts)
      BY <1>1, <2>2, <3>1, <3>2 DEF NotYetUrgent
    <3>. QED
      BY <1>0, <2>2, <2>3, <3>1, <3>2, <3>3 DEF OrderInv
  <2>5. CASE msg.prio # "before_next_event"
    <3>1. queue' = Append(queue, now) /\ urgent' = urgent
      BY <2>1, <2>5 DEF Enqueue
    <3>2. InOrder(Append(queue, now), urgent, posts, lastEvent)
      BY <1>0, <1>1, <2>2, <2>3, InOrderAppendControl
    <3>3. \A i \in 1..Len(Append(queue, now)) :
            Append(queue, now)[i] = IF i = Len(queue) + 1 THEN now ELSE queue[i]
      BY <1>0
    <3>4. Len(Append(queue, now)) = Len(queue) + 1 /\ Len(queue) \in Nat /\ Append(queue, now) \in Seq(Message)
      BY <1>0, <2>2
    <3>5. NotYetUrgent(Tail(oob_queue), Append(queue, now), urgent, posts)
      BY <1>1, <2>2, <3>3, <3>4 DEF NotYetUrgent
    <3>. QED
      BY <1>0, <3>1, <3>2, <3>4, <3>5 DEF OrderInv
  <2>. QED
    BY <2>4, <2>5
<1>. QED
  BY <1>2, <1>3, ControlOrder DEF msg

\* A message leaves queue_: a delayed one, or an event.
LEMMA QueuedMessageOrder ==
  ASSUME QueueInv, OrderInv, queue # <<>>, queue' = Tail(queue),
         UNCHANGED <<oob_queue, urgent, posts>>,
         lastEvent' = lastEvent \/ (~IsControl(Head(queue)) /\ lastEvent' = Head(queue).seq)
  PROVE  OrderInv'
<1>0. /\ queue \in Seq(Message) /\ posts \in Nat /\ lastEvent \in 0..posts /\ lastEvent \in Nat
      /\ InOrder(queue, urgent, posts, lastEvent) /\ NotYetUrgent(oob_queue, queue, urgent, posts)
      /\ urgent \subseteq 0..posts
  BY DEF QueueInv, OrderInv
<1>1. \A i \in 1..Len(Tail(queue)) : i + 1 \in 1..Len(queue) /\ Tail(queue)[i] = queue[i + 1]
  BY <1>0
<1>2. NotYetUrgent(oob_queue, Tail(queue), urgent, posts)
  BY <1>0, <1>1 DEF NotYetUrgent
<1>3. InOrder(Tail(queue), urgent, posts, lastEvent')
  BY <1>0, InOrderTail
<1>4. Tail(queue) \in Seq(Message) /\ Head(queue) = queue[1] /\ 1 \in 1..Len(queue)
  BY <1>0
<1>5. Head(queue).seq \in Nat /\ Head(queue).seq <= posts
  BY <1>0, <1>4, NumbersOfMessages DEF InOrder
<1>6. lastEvent' \in 0..posts
  BY <1>0, <1>5
<1>. QED
  BY <1>0, <1>2, <1>3, <1>4, <1>6 DEF OrderInv

\* Every step keeps the queues in order.
LEMMA OrderStep == QueueInv /\ OrderInv /\ [Next]_vars => OrderInv'
<1>. SUFFICES ASSUME QueueInv, OrderInv, [Next]_vars PROVE OrderInv'
  OBVIOUS
<1>0. ASSUME UNCHANGED <<queue, oob_queue, urgent, posts, lastEvent>> PROVE OrderInv'
  BY <1>0 DEF OrderInv
<1>. USE DEF queueVars, libVars
<1>1. CASE Run
  BY <1>0, <1>1 DEF Run
<1>2. ASSUME NEW c \in Contents, PostMessage(c) PROVE OrderInv'
  <2>. DEFINE msg == [kind |-> c.kind, arg |-> c.arg, prio |-> c.prio, auth |-> c.auth,
                      seq |-> posts + 1]
  <2>0. /\ oob_queue \in Seq(Message) /\ queue \in Seq(Message) /\ posts \in Nat /\ lastEvent \in 0..posts
        /\ InOrder(queue, urgent, posts, lastEvent) /\ NotYetUrgent(oob_queue, queue, urgent, posts)
        /\ urgent \subseteq 0..posts
    BY DEF QueueInv, OrderInv
  <2>1. msg \in Message /\ msg.seq = posts + 1 /\ msg.kind = c.kind
    BY MessageHandlerAssumption, <2>0 DEF Content, Message
  <2>2. /\ posts' = posts + 1 /\ lastEvent' = lastEvent /\ urgent' = urgent
        /\ \/ c.kind = "event" /\ queue' = Append(queue, msg) /\ oob_queue' = oob_queue
           \/ c.kind # "event" /\ oob_queue' = Append(oob_queue, msg) /\ queue' = queue
    BY <1>2 DEF PostMessage, Enqueue
  <2>. HIDE DEF msg
  <2>3. CASE c.kind = "event" /\ queue' = Append(queue, msg) /\ oob_queue' = oob_queue
    <3>0. ~IsControl(msg)
      BY <2>1, <2>3 DEF IsControl
    <3>1. InOrder(queue', urgent, posts + 1, lastEvent)
      BY <2>0, <2>1, <2>3, <3>0, InOrderAppendEvent
    <3>2. \A i \in 1..Len(Append(queue, msg)) :
            Append(queue, msg)[i] = IF i = Len(queue) + 1 THEN msg ELSE queue[i]
      BY <2>0
    <3>3. Len(Append(queue, msg)) = Len(queue) + 1 /\ Len(queue) \in Nat /\ Append(queue, msg) \in Seq(Message)
      BY <2>0, <2>1
    <3>4. NotYetUrgent(oob_queue, queue', urgent, posts + 1)
      <4>1. \A i \in 1..Len(oob_queue) : oob_queue[i].seq <= posts + 1
        BY <2>0, NumbersOfMessages DEF NotYetUrgent
      <4>2. \A j \in 1..Len(queue') : IsControl(queue'[j]) => j \in 1..Len(queue) /\ queue'[j] = queue[j]
        BY <2>3, <3>0, <3>2, <3>3
      <4>. QED
        BY <2>0, <4>1, <4>2 DEF NotYetUrgent
    <3>. QED
      BY <2>0, <2>2, <2>3, <3>1, <3>3, <3>4 DEF OrderInv
  <2>4. CASE c.kind # "event" /\ oob_queue' = Append(oob_queue, msg) /\ queue' = queue
    <3>0. IsControl(msg)
      BY <2>1, <2>4 DEF IsControl
    <3>1. \A i \in 1..Len(oob_queue') : oob_queue'[i] = IF i = Len(oob_queue) + 1 THEN msg ELSE oob_queue[i]
      BY <2>0, <2>4
    <3>2. Len(oob_queue') = Len(oob_queue) + 1 /\ Len(oob_queue) \in Nat
      BY <2>0, <2>4
    <3>3. \A i \in 1..Len(oob_queue) : oob_queue[i].seq \in Nat /\ oob_queue[i].seq <= posts
      BY <2>0, NumbersOfMessages DEF NotYetUrgent
    <3>4. \A i \in 1..Len(queue) : queue[i].seq \in Nat /\ queue[i].seq <= posts
      BY <2>0, NumbersOfMessages DEF InOrder
    <3>5. InOrder(queue, urgent, posts + 1, lastEvent)
      BY <2>0, <3>4 DEF InOrder
    <3>6. ASSUME NEW i \in 1..Len(oob_queue')
          PROVE  /\ IsControl(oob_queue'[i]) /\ oob_queue'[i].seq <= posts + 1 /\ oob_queue'[i].seq \notin urgent
                 /\ \A j \in 1..Len(queue) : IsControl(queue[j]) => queue[j].seq # oob_queue'[i].seq
      <4>1. CASE i = Len(oob_queue) + 1
        BY <2>0, <2>1, <3>0, <3>1, <3>4, <4>1
      <4>2. CASE i # Len(oob_queue) + 1
        <5>1. i \in 1..Len(oob_queue) /\ oob_queue'[i] = oob_queue[i]
          BY <3>1, <3>2, <4>2
        <5>. QED
          BY <2>0, <3>3, <5>1 DEF NotYetUrgent
      <4>. QED
        BY <4>1, <4>2
    <3>7. ASSUME NEW i \in 1..Len(oob_queue'), NEW j \in 1..Len(oob_queue'), i < j
          PROVE  oob_queue'[i].seq < oob_queue'[j].seq
      <4>1. i \in 1..Len(oob_queue) /\ oob_queue'[i] = oob_queue[i]
        BY <3>1, <3>2, <3>7
      <4>2. CASE j = Len(oob_queue) + 1
        <5>1. oob_queue'[j].seq = posts + 1
          BY <2>1, <3>1, <4>2
        <5>2. oob_queue'[i].seq \in Nat /\ oob_queue'[i].seq <= posts
          BY <3>3, <4>1
        <5>. QED
          BY <2>0, <5>1, <5>2
      <4>3. CASE j # Len(oob_queue) + 1
        <5>1. j \in 1..Len(oob_queue) /\ oob_queue'[j] = oob_queue[j]
          BY <3>1, <3>2, <4>3
        <5>. QED
          BY <2>0, <3>7, <4>1, <5>1 DEF NotYetUrgent
      <4>. QED
        BY <4>2, <4>3
    <3>8. NotYetUrgent(oob_queue', queue, urgent, posts + 1)
      BY <3>6, <3>7 DEF NotYetUrgent
    <3>. QED
      BY <2>0, <2>2, <2>4, <3>5, <3>8 DEF OrderInv
  <2>. QED
    BY <2>2, <2>3, <2>4
<1>3. ASSUME NEW t \in Threads, LoopStep(t) PROVE OrderInv'
  <2>1. CASE PausingMessage(t) \/ LoopOOBMessage(t)
    BY <2>1, OOBMessageOrder DEF PausingMessage, LoopOOBMessage
  <2>2. CASE LoopDelayedMessage(t)
    <3>1. IsControl(Head(queue)) /\ HandleControl(Head(queue), Tail(queue)) /\ queue # <<>>
      BY <2>2 DEF LoopDelayedMessage
    <3>2. IsDelayed(Head(queue))
      <4>1. queue \in Seq(Message) /\ InOrder(queue, urgent, posts, lastEvent)
        BY DEF OrderInv
      <4>2. Head(queue) = queue[1] /\ 1 \in 1..Len(queue)
        BY <3>1, <4>1
      <4>. QED
        BY <3>1, <4>1, <4>2 DEF InOrder
    <3>3. ~HandleDelayed(Head(queue), Tail(queue))
      BY <3>2 DEF HandleDelayed, IsDelayed
    <3>. QED
      BY <2>2, <3>1, <3>3, ControlOrder, QueuedMessageOrder DEF LoopDelayedMessage
  <2>3. CASE LoopEvent(t)
    BY <2>3, QueuedMessageOrder DEF LoopEvent
  <2>. QED
    BY <1>3, <1>0, <2>1, <2>2, <2>3 DEF LoopStep, TaskBegins, PausingEnds, StartCallbackBegins, LoopEnds, Finish
<1>4. ASSUME NEW t \in Threads, DartStep(t) PROVE OrderInv'
  <2>1. CASE InterruptMessage(t)
    BY <2>1, OOBMessageOrder DEF InterruptMessage
  <2>2. CASE StartIsolateReturns(t)
    <3>. DEFINE msg == [NoEvent EXCEPT !.arg = StartPort]
    <3>0. /\ queue \in Seq(Message) /\ posts \in Nat /\ lastEvent \in 0..posts
          /\ InOrder(queue, urgent, posts, lastEvent) /\ NotYetUrgent(oob_queue, queue, urgent, posts)
          /\ urgent \subseteq 0..posts
      BY DEF QueueInv, OrderInv
    <3>1. msg \in Message /\ msg.seq = 0 /\ ~IsControl(msg)
      BY DEF NoEvent, Message, Args, Priorities, IsControl
    <3>2. queue' = Append(queue, msg) /\ UNCHANGED <<oob_queue, urgent, posts, lastEvent>>
      BY <2>2 DEF StartIsolateReturns, Enqueue
    <3>. HIDE DEF msg
    <3>3. InOrder(queue', urgent, posts, lastEvent)
      BY <3>0, <3>1, <3>2, InOrderAppendEvent
    <3>4. \A i \in 1..Len(queue') : queue'[i] = IF i = Len(queue) + 1 THEN msg ELSE queue[i]
      BY <3>0, <3>2
    <3>5. Len(queue') = Len(queue) + 1 /\ Len(queue) \in Nat /\ queue' \in Seq(Message)
      BY <3>0, <3>1, <3>2
    <3>6. \A j \in 1..Len(queue') : IsControl(queue'[j]) => j \in 1..Len(queue) /\ queue'[j] = queue[j]
      BY <3>1, <3>4, <3>5
    <3>7. NotYetUrgent(oob_queue, queue', urgent, posts)
      BY <3>0, <3>6 DEF NotYetUrgent
    <3>. QED
      BY <3>0, <3>2, <3>3, <3>5, <3>7 DEF OrderInv
  <2>. QED
    BY <1>4, <1>0, <2>1, <2>2 DEF DartStep, StartIsolateReady, StartIsolateFails, EventPorts,
         EventReturns, EventThrows, InterruptBegins, InterruptEnds
<1>5. ASSUME NEW t \in Threads, ExitStep(t) PROVE OrderInv'
  <2>1. CASE DeleteHandler(t)
    <3>1. queue' = <<>> /\ oob_queue' = <<>> /\ UNCHANGED <<urgent, posts, lastEvent>>
      BY <2>1 DEF DeleteHandler
    <3>2. <<>> \in Seq(Message) /\ Len(<<>>) = 0
      OBVIOUS
    <3>. QED
      BY <3>1, <3>2 DEF OrderInv, InOrder, NotYetUrgent
  <2>. QED
    BY <1>5, <1>0, <2>1 DEF ExitStep, NotifyExitListeners, ClosePorts
<1>6. CASE UNCHANGED vars
  BY <1>0, <1>6 DEF vars
<1>. QED
  BY <1>1, <1>2, <1>3, <1>4, <1>5, <1>6 DEF Next

\* The queues are in order in every reachable state.
THEOREM OrderInvHolds == Spec => []OrderInv
<1>1. Init => OrderInv
  <2>. SUFFICES ASSUME Init PROVE OrderInv
    OBVIOUS
  <2>1. <<>> \in Seq(Message) /\ Len(<<>>) = 0
    OBVIOUS
  <2>. QED
    BY <2>1 DEF Init, OrderInv, InOrder, NotYetUrgent
<1>2. IndInv => QueueInv
  BY DEF IndInv
<1>. QED
  BY <1>1, <1>2, OrderStep, IndInvHolds, PTL DEF Spec

\* A step that begins an event is the one that takes it from the head of queue_.
LEMMA EventBeginsInLoop ==
  ASSUME StateInv, TaskInv, Next, EventBegins
  PROVE  /\ paused = 0 /\ oob_queue = <<>> /\ queue # <<>>
         /\ ~IsControl(Head(queue)) /\ lastEvent' = Head(queue).seq
         /\ \E t \in Threads : pc[t] = "loop"
<1>1. PICK u \in Threads : pc[u] # "event" /\ pc'[u] = "event"
  BY DEF EventBegins
<1>. USE DEF Goto, threadVars, StateInv
<1>2. ~Run /\ \A c \in Contents : ~PostMessage(c)
  BY <1>1 DEF Run, PostMessage
<1>3. ASSUME NEW t \in Threads, DartStep(t) PROVE FALSE
  BY <1>1, <1>3 DEF DartStep, StartIsolateReady, StartIsolateReturns, StartIsolateFails, EventPorts,
                    EventReturns, EventThrows, InterruptBegins, InterruptMessage, InterruptEnds, AfterError
<1>4. ASSUME NEW t \in Threads, ExitStep(t) PROVE FALSE
  BY <1>1, <1>4 DEF ExitStep, NotifyExitListeners, ClosePorts, DeleteHandler
<1>5. ASSUME NEW t \in Threads, LoopStep(t) PROVE LoopEvent(t)
  BY <1>1, <1>5 DEF LoopStep, TaskBegins, PausingMessage, PausingEnds, StartCallbackBegins, LoopOOBMessage,
                    LoopDelayedMessage, LoopEnds, Finish
<1>6. PICK t \in Threads : LoopEvent(t)
  BY <1>2, <1>3, <1>4, <1>5 DEF Next
<1>. QED
  BY <1>1, <1>6 DEF LoopEvent, NormalAllowed

\* For any messages posted, in whatever order they are handled: no event begins while a
\* pause is in force, a message waits out of band, or an urgent one in queue_.
THEOREM ControlBeforeEventsHolds == Spec => ControlBeforeEvents
<1>1. IndInv /\ OrderInv /\ [Next]_vars =>
        [EventBegins =>
           /\ resume_capabilities = {}
           /\ oob_queue = <<>>
           /\ \A i \in 1..Len(queue) : IsControl(queue[i]) => queue[i].seq \notin urgent]_vars
  <2>. SUFFICES ASSUME IndInv, OrderInv, Next, EventBegins
                PROVE  /\ resume_capabilities = {}
                       /\ oob_queue = <<>>
                       /\ \A i \in 1..Len(queue) : IsControl(queue[i]) => queue[i].seq \notin urgent
    OBVIOUS
  <2>1. paused = 0 /\ oob_queue = <<>> /\ queue # <<>> /\ ~IsControl(Head(queue))
    BY EventBeginsInLoop DEF IndInv
  <2>2. resume_capabilities = {}
    BY <2>1, FS_EmptySet DEF IndInv, PauseInv
  <2>3. Head(queue) = queue[1] /\ 1 \in 1..Len(queue) /\ Len(queue) \in Nat
    BY <2>1 DEF OrderInv
  <2>4. \A i \in 1..Len(queue) : i = 1 \/ 1 < i
    OBVIOUS
  <2>5. \A i \in 1..Len(queue) : IsControl(queue[i]) => queue[i].seq \notin urgent
    BY <2>1, <2>3, <2>4 DEF OrderInv, InOrder
  <2>. QED
    BY <2>1, <2>2, <2>5
<1>. QED
  BY <1>1, IndInvHolds, OrderInvHolds, PTL DEF Spec, ControlBeforeEvents

\* For any messages posted: events begin in the order of posting, none of them twice.
THEOREM EventsInOrderHolds == Spec => EventsInOrder
<1>1. IndInv /\ OrderInv /\ [Next]_vars => [EventBegins /\ lastEvent' # 0 => lastEvent' > lastEvent]_vars
  <2>. SUFFICES ASSUME IndInv, OrderInv, Next, EventBegins, lastEvent' # 0 PROVE lastEvent' > lastEvent
    OBVIOUS
  <2>1. queue # <<>> /\ ~IsControl(Head(queue)) /\ lastEvent' = Head(queue).seq
    BY EventBeginsInLoop DEF IndInv
  <2>2. Head(queue) = queue[1] /\ 1 \in 1..Len(queue)
    BY <2>1 DEF OrderInv
  <2>3. lastEvent < queue[1].seq
    BY <2>1, <2>2 DEF OrderInv, InOrder
  <2>. QED
    BY <2>1, <2>2, <2>3
<1>. QED
  BY <1>1, IndInvHolds, OrderInvHolds, PTL DEF Spec, EventsInOrder

-----------------------------------------------------------------------------
(* Kill messages                                                           *)

\* After an obeyed kill the thread is on its way out, and once it has given up pool_
\* no other follows: the isolate is not held at its exit.
KillInv ==
  /\ killed \in BOOLEAN
  /\ killed => /\ ~start_callback /\ ~pause_on_exit
               /\ \A t \in Threads : pc[t] \in {"idle", "failed"} \union Exiting
               /\ pool => \E t \in Threads : pc[t] = "failed"

\* A control message that makes killed true is an obeyed kill of an isolate whose errors
\* are fatal and which is not held.
LEMMA ControlKills ==
  ASSUME NEW msg, NEW q, HandleControl(msg, q), KillInv, ~killed
  PROVE  /\ killed' \in BOOLEAN
         /\ killed' => ~HandleLibResult(msg) /\ errors_fatal /\ ~pause_on_exit'
<1>. USE DEF KillInv
<1>1. CASE HandleImmediate(msg, q)
  <2>1. /\ killed' = (killed \/ (~HandleLibResult(msg) /\ errors_fatal /\ ~pause_on_exit))
        /\ pause_on_exit' = pause_on_exit
    BY <1>1 DEF HandleImmediate, pauseVars
  <2>. QED
    BY <2>1
<1>2. CASE UNCHANGED killed
  <2>1. killed' = killed /\ killed = FALSE
    BY <1>2
  <2>. QED
    BY <2>1
<1>3. HandleImmediate(msg, q) \/ UNCHANGED killed
  BY DEF HandleControl, HandlePause, HandleResume, HandleDelayed, HandleListener,
         HandleErrorsFatal, ServiceResume, libVars
<1>. QED
  BY <1>1, <1>2, <1>3

\* The thread that handles a control message fails if it is a kill that is obeyed and
\* errors are fatal, and so keeps KillInv.
LEMMA ControlStepKills ==
  ASSUME IndInv, IndInv', KillInv, NEW t \in Threads, NEW msg, NEW q,
         HandleControl(msg, q),
         pc[t] \in {"pausing", "loop", "event", "start_callback"},
         ~HandleLibResult(msg) /\ errors_fatal
           => pc' \in {[pc EXCEPT ![t] = "failed"], [pc EXCEPT ![t] = "pause_over"]}
  PROVE  KillInv'
<1>1. ~killed
  BY DEF KillInv, Exiting
<1>2. /\ killed' \in BOOLEAN
      /\ killed' => ~HandleLibResult(msg) /\ errors_fatal /\ ~pause_on_exit'
  BY <1>1, ControlKills
<1>3. CASE ~killed'
  BY <1>2, <1>3 DEF KillInv
<1>4. CASE killed'
  <2>1. pc \in [Threads -> PcStates] /\ pc' \in [Threads -> PcStates] /\ pc'[t] # "pause_over"
    BY DEF IndInv, StateInv, HoldInv
  <2>2. pc' = [pc EXCEPT ![t] = "failed"]
    BY <1>2, <1>4, <2>1
  <2>3. pc'[t] = "failed" /\ \A u \in Threads : u # t => pc'[u] = pc[u] /\ pc[u] = "idle"
    <3>1. \A u \in Threads : u # t => pc[u] = "idle"
      BY DEF IndInv, TaskInv
    <3>. QED
      BY <2>1, <2>2, <3>1
  <2>4. start_callback' = FALSE
    BY <2>3 DEF IndInv, TaskInv, StateInv
  <2>. QED
    BY <1>2, <1>4, <2>3, <2>4 DEF KillInv
<1>. QED
  BY <1>3, <1>4

\* Every step keeps KillInv.
LEMMA KillStep == IndInv /\ IndInv' /\ KillInv /\ [Next]_vars => KillInv'
<1>. SUFFICES ASSUME IndInv, IndInv', KillInv, [Next]_vars PROVE KillInv'
  OBVIOUS
<1>t. pc \in [Threads -> PcStates] /\ in_oob \in [Threads -> BOOLEAN] /\ killed \in BOOLEAN
  BY DEF IndInv, StateInv, KillInv
\* A step that lets no thread into the isolate and handles no message.
<1>0. ASSUME UNCHANGED <<killed, pause_on_exit, start_callback, pool, pc>> PROVE KillInv'
  BY <1>0 DEF KillInv
\* A step of a thread that has not been told to end.
<1>q. ASSUME ~killed, UNCHANGED killed PROVE KillInv'
  BY <1>q DEF KillInv
<1>. USE DEF Goto, queueVars, taskVars, threadVars, pauseVars, libVars
<1>1. CASE Run
  <2>1. ~killed
    BY <1>1 DEF Run, KillInv
  <2>. QED
    BY <1>1, <2>1, <1>q DEF Run
<1>2. ASSUME NEW c \in Contents, PostMessage(c) PROVE KillInv'
  BY <1>2, <1>0 DEF PostMessage, EnsureTask
<1>3. ASSUME NEW t \in Threads, LoopStep(t) PROVE KillInv'
  <2>1. CASE TaskBegins(t)
    <3>1. pool /\ \A u \in Threads : pc[u] = "idle"
      BY <2>1 DEF TaskBegins, IndInv, TaskInv, StateInv
    <3>2. ~killed
      BY <3>1 DEF KillInv
    <3>. QED
      BY <2>1, <3>2, <1>q DEF TaskBegins
  <2>2. CASE PausingMessage(t) \/ LoopOOBMessage(t)
    <3>1. /\ HandleControl(Head(oob_queue), queue) /\ pc[t] \in {"pausing", "loop"}
          /\ ~HandleLibResult(Head(oob_queue))
               => pc' \in {[pc EXCEPT ![t] = "failed"], [pc EXCEPT ![t] = "pause_over"]}
      BY <2>2 DEF PausingMessage, LoopOOBMessage
    <3>. QED
      BY <3>1, ControlStepKills
  <2>3. CASE PausingEnds(t)
    <3>1. ~killed
      BY <2>3 DEF PausingEnds, KillInv, Exiting
    <3>. QED
      BY <2>3, <3>1, <1>q DEF PausingEnds
  <2>4. CASE StartCallbackBegins(t)
    <3>1. ~killed
      BY <2>4 DEF StartCallbackBegins, KillInv, Exiting
    <3>. QED
      BY <2>4, <3>1, <1>q DEF StartCallbackBegins
  <2>5. CASE LoopDelayedMessage(t)
    <3>1. /\ HandleControl(Head(queue), Tail(queue)) /\ pc[t] = "loop"
          /\ ~HandleLibResult(Head(queue)) => pc' = [pc EXCEPT ![t] = "failed"]
      BY <2>5 DEF LoopDelayedMessage
    <3>. QED
      BY <3>1, ControlStepKills
  <2>6. CASE LoopEvent(t)
    <3>1. ~killed
      BY <2>6 DEF LoopEvent, KillInv, Exiting
    <3>. QED
      BY <2>6, <3>1, <1>q DEF LoopEvent
  <2>7. CASE LoopEnds(t)
    <3>1. CASE pc[t] = "failed" /\ Finish(t, FALSE)
      <4>1. CASE killed
        <5>1. /\ pool' = FALSE /\ pc' = [pc EXCEPT ![t] = "ending"]
              /\ UNCHANGED <<killed, pause_on_exit, start_callback>>
          BY <3>1, <4>1 DEF Finish, KillInv
        <5>. QED
          BY <1>t, <5>1 DEF KillInv, Exiting
      <4>2. CASE ~killed
        BY <3>1, <4>2, <1>q DEF Finish
      <4>. QED
        BY <4>1, <4>2
    <3>2. CASE pc[t] = "loop" /\ Finish(t, TRUE)
      <4>1. ~killed
        BY <3>2 DEF KillInv, Exiting
      <4>. QED
        BY <3>2, <4>1, <1>q DEF Finish
    <3>. QED
      BY <2>7, <3>1, <3>2 DEF LoopEnds
  <2>. QED
    BY <1>3, <2>1, <2>2, <2>3, <2>4, <2>5, <2>6, <2>7 DEF LoopStep
<1>4. ASSUME NEW t \in Threads, DartStep(t) PROVE KillInv'
  <2>1. pc[t] \in {"event", "start_callback"}
    BY <1>4 DEF DartStep, StartIsolateReady, StartIsolateReturns, StartIsolateFails, EventPorts,
                EventReturns, EventThrows, InterruptBegins, InterruptMessage, InterruptEnds,
                RunsDart, IndInv, TaskInv
  <2>2. ~killed
    BY <2>1 DEF KillInv, Exiting
  <2>3. CASE InterruptMessage(t)
    <3>1. /\ HandleControl(Head(oob_queue), queue)
          /\ ~HandleLibResult(Head(oob_queue)) /\ errors_fatal => pc' = [pc EXCEPT ![t] = "failed"]
      BY <2>3 DEF InterruptMessage, AfterError
    <3>. QED
      BY <2>1, <3>1, ControlStepKills
  <2>. QED
    BY <1>4, <1>q, <2>2, <2>3 DEF DartStep, StartIsolateReady, StartIsolateReturns, StartIsolateFails, EventPorts,
         EventReturns, EventThrows, InterruptBegins, InterruptEnds
<1>5. ASSUME NEW t \in Threads, ExitStep(t) PROVE KillInv'
  <2>1. pc[t] \in Exiting /\ ~pool
    BY <1>5 DEF ExitStep, NotifyExitListeners, ClosePorts, DeleteHandler, Exiting, IndInv, TaskInv
  <2>2. /\ pc' \in {[pc EXCEPT ![t] = l] : l \in Exiting \union {"idle"}}
        /\ UNCHANGED <<killed, pause_on_exit, start_callback, pool>>
    BY <1>5 DEF ExitStep, NotifyExitListeners, ClosePorts, DeleteHandler, Exiting
  <2>3. \A u \in Threads : pc'[u] = pc[u] \/ pc'[u] \in Exiting \union {"idle"}
    BY <1>t, <2>2
  <2>. QED
    BY <2>1, <2>2, <2>3 DEF KillInv, Exiting
<1>6. CASE UNCHANGED vars
  BY <1>6, <1>0 DEF vars
<1>. QED
  BY <1>1, <1>2, <1>3, <1>4, <1>5, <1>6 DEF Next

\* Whatever is posted, before or after: an isolate begins no event after a kill that it
\* obeyed while its errors were fatal and the service did not hold it at its exit.
THEOREM KillIsFinalHolds == Spec => KillIsFinal
<1>1. Init => KillInv
  BY DEF Init, KillInv
<1>2. IndInv /\ IndInv' /\ KillInv /\ [Next]_vars => KillInv'
  BY KillStep
<1>3. IndInv /\ KillInv /\ [Next]_vars => [killed => ~EventBegins]_vars
  <2>. SUFFICES ASSUME IndInv, KillInv, Next, killed, EventBegins PROVE FALSE
    OBVIOUS
  <2>1. \E t \in Threads : pc[t] = "loop"
    BY EventBeginsInLoop DEF IndInv
  <2>. QED
    BY <2>1 DEF KillInv, Exiting
<1>. QED
  BY <1>1, <1>2, <1>3, IndInvHolds, PTL DEF Spec, KillIsFinal

-----------------------------------------------------------------------------
(* Interrupts.  Whatever is asked for, a limit that differs from the saved one *)
(* is the word of interrupts that were asked for; and no request is lost       *)
(* unless all bits of kInterruptsMask are asked for while nobody runs the      *)
(* isolate: only then can the word of a pending interrupt equal the limit ~0.  *)

Words == [high : Limits \union {Top}, low : SUBSET Mask]

LimitInv ==
  /\ InterruptTypeOK
  /\ stack_limit_ # saved_stack_limit_ =>
       stack_limit_.high = Top /\ stack_limit_.low # {} /\ stack_limit_.low \subseteq asked
  /\ saved_stack_limit_.high = Top => saved_stack_limit_ = AllOnes
  /\ entered => saved_stack_limit_.high # Top

\* LimitInv holds in the initial state and every step keeps it.
THEOREM LimitInvHolds == ASSUME InterruptConstants PROVE InterruptSpec => []LimitInv
<1>1. InterruptInit => LimitInv
  <2>. SUFFICES ASSUME InterruptInit PROVE LimitInv
    OBVIOUS
  <2>1. PICK l \in Limits, low \in SUBSET Mask : stack_limit_ = Word(l, low)
    BY DEF InterruptInit
  <2>2. Word(l, low) \in Words /\ Word(l, low).high # Top
    BY DEF Word, Words, InterruptConstants
  <2>. QED
    BY <2>1, <2>2 DEF InterruptInit, LimitInv, InterruptTypeOK, Words
<1>2. LimitInv /\ [InterruptNext]_interruptVars => LimitInv'
  <2>. SUFFICES ASSUME LimitInv, [InterruptNext]_interruptVars PROVE LimitInv'
    OBVIOUS
  <2>1. ASSUME NEW b \in Sources, ScheduleInterrupts({b}) PROVE LimitInv'
    <3>1. b \in Mask
      BY DEF InterruptConstants
    <3>2. stack_limit_' \in Words /\ asked' \in SUBSET Sources
      BY <2>1, <3>1 DEF ScheduleInterrupts, LimitInv, InterruptTypeOK, Words, Word
    <3>3. stack_limit_'.high = Top /\ stack_limit_'.low # {} /\ stack_limit_'.low \subseteq asked'
      BY <2>1 DEF ScheduleInterrupts, LimitInv, Word
    <3>. QED
      BY <2>1, <3>2, <3>3 DEF ScheduleInterrupts, LimitInv, InterruptTypeOK, Words
  <2>2. CASE Enter
    <3>1. PICK l \in Limits, low \in SUBSET Mask : SetStackLimit(Word(l, low))
      BY <2>2 DEF Enter
    <3>2. Word(l, low) \in Words /\ Word(l, low).high # Top
      BY DEF Word, Words, InterruptConstants
    <3>. QED
      BY <2>2, <3>1, <3>2 DEF Enter, SetStackLimit, LimitInv, InterruptTypeOK, Words
  <2>3. CASE Leave
    <3>1. AllOnes \in Words
      BY DEF AllOnes, Word, Words
    <3>. QED
      BY <2>3, <3>1 DEF Leave, SetStackLimit, LimitInv, InterruptTypeOK, Words
  <2>4. CASE GetAndClearInterrupts
    BY <2>4 DEF GetAndClearInterrupts, LimitInv, InterruptTypeOK
  <2>5. CASE UNCHANGED interruptVars
    BY <2>5 DEF interruptVars, LimitInv, InterruptTypeOK
  <2>. QED
    BY <2>1, <2>2, <2>3, <2>4, <2>5 DEF InterruptNext
<1>. QED
  BY <1>1, <1>2, PTL DEF InterruptSpec

\* Dart code that nobody interrupts runs under the real stack limit, for all
\* interrupt sources and also after requests were lost.
THEOREM LimitIsInForceHolds ==
  ASSUME InterruptConstants PROVE InterruptSpec => []LimitIsInForce
<1>1. LimitInv => LimitIsInForce
  BY DEF LimitInv, LimitIsInForce
<1>. QED
  BY <1>1, LimitInvHolds, PTL

\* The word of pending interrupts is not the saved limit.
LEMMA PendingIsSeen ==
  ASSUME LimitInv, RequestsAreKept, ~AllAskedOutside, asked # {}
  PROVE  stack_limit_ # saved_stack_limit_
<1>1. stack_limit_.high = Top /\ stack_limit_.low = asked
  BY DEF RequestsAreKept
<1>2. CASE entered
  BY <1>1, <1>2 DEF LimitInv
<1>3. CASE ~entered
  <2>1. stack_limit_ # AllOnes
    BY <1>1, <1>3 DEF AllAskedOutside, AllOnes, Word
  <2>. QED
    BY <1>1, <2>1 DEF LimitInv
<1>. QED
  BY <1>2, <1>3

\* A scheduled interrupt stays visible to every stack check until it is taken,
\* as long as the bits of kInterruptsMask are not all asked for while nobody
\* runs the isolate.  With the code's three sources that does happen, and
\* requests are lost; nothing else in the stack limit's code loses one.
THEOREM RequestsAreKeptHolds ==
  ASSUME InterruptConstants
  PROVE  InterruptSpec => ([]~AllAskedOutside => []RequestsAreKept)
<1>1. InterruptInit => RequestsAreKept
  BY DEF InterruptInit, RequestsAreKept
<1>2. LimitInv /\ ~AllAskedOutside /\ RequestsAreKept /\ [InterruptNext]_interruptVars
        => RequestsAreKept'
  <2>. SUFFICES ASSUME LimitInv, ~AllAskedOutside, RequestsAreKept,
                       [InterruptNext]_interruptVars, asked' # {}
                PROVE  stack_limit_'.high = Top /\ stack_limit_'.low = asked'
    BY DEF RequestsAreKept
  <2>1. ASSUME NEW b \in Sources, ScheduleInterrupts({b})
        PROVE  stack_limit_'.high = Top /\ stack_limit_'.low = asked'
    <3>1. CASE asked = {}
      <4>1. stack_limit_ = saved_stack_limit_
        BY <3>1 DEF LimitInv
      <4>. QED
        BY <2>1, <3>1, <4>1 DEF ScheduleInterrupts, Word
    <3>2. CASE asked # {}
      BY <2>1, <3>2, PendingIsSeen DEF ScheduleInterrupts, Word, RequestsAreKept
    <3>. QED
      BY <3>1, <3>2
  <2>2. ASSUME NEW limit, SetStackLimit(limit), UNCHANGED asked
        PROVE  stack_limit_'.high = Top /\ stack_limit_'.low = asked'
    BY <2>2, PendingIsSeen DEF SetStackLimit, RequestsAreKept
  <2>3. ~GetAndClearInterrupts
    BY PendingIsSeen DEF GetAndClearInterrupts, RequestsAreKept
  <2>4. CASE UNCHANGED interruptVars
    BY <2>4 DEF interruptVars, RequestsAreKept
  <2>. QED
    BY <2>1, <2>2, <2>3, <2>4 DEF InterruptNext, Enter, Leave
<1>. QED
  BY <1>1, <1>2, LimitInvHolds, PTL DEF InterruptSpec

=============================================================================
