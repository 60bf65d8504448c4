------------------------ MODULE MessagePostingProofs ------------------------
(***************************************************************************)
(* A message is never posted to a deleted handler, and the two lock orders  *)
(* meet only where pauses are announced, for any number of isolates and     *)
(* threads.                                                                 *)
(***************************************************************************)
EXTENDS MessagePosting, TLAPS

Labels == {"idle", "handling", "want_mutex", "want_monitor", "notify", "loop", "announced",
           "close_mutex", "close_monitor", "ending", "unregister", "clear", "clearing", "done"}
InMutex == {"want_monitor", "notify", "close_monitor", "unregister"}

TypeInv ==
  /\ pc \in [Threads -> Labels] /\ back \in [Threads -> Labels]
  /\ dst \in [Threads -> Handlers \union {None}]
  /\ mutex \in Threads \union {None}
  /\ monitor \in [Handlers -> Handlers \union {None}]
  /\ queue \in [Handlers -> Nat]
  /\ registered \in [Handlers -> BOOLEAN] /\ deleted \in [Handlers -> BOOLEAN]

\* Where thread t will be when the post it makes, if any, has returned.
Place(t) == IF pc[t] \in Posting THEN back[t] ELSE pc[t]

MutexInv == \A t \in Threads : pc[t] \in InMutex => mutex = t
UseInv == \A t \in Threads, h \in Handlers : Uses(t, h) => registered[h]
DstInv == \A t \in Threads : pc[t] \in Posting => dst[t] \in Handlers
BackInv == \A t \in Threads :
  pc[t] \in Posting => back[t] \in {"idle", "handling", "announced", "clearing"}
ClearInv == \A h \in Handlers : Place(h) \in {"clear", "clearing", "done"} => ~registered[h]
DeletedInv == \A h \in Handlers : deleted[h] => ~registered[h]

IndInv == TypeInv /\ MutexInv /\ UseInv /\ DstInv /\ BackInv /\ ClearInv /\ DeletedInv

\* Every step keeps the types.
LEMMA TypeStep == TypeInv /\ DstInv /\ [Next]_vars => TypeInv'
<1>. SUFFICES ASSUME TypeInv, DstInv, [Next]_vars PROVE TypeInv'
  OBVIOUS
<1>. Handlers \subseteq Threads /\ Service \in Handlers
  BY PostingAssumption DEF Threads
<1>. USE DEF TypeInv, Goto, BeginPost, Labels
<1>1. ASSUME NEW t \in Threads, NEW h \in Handlers, Post(t, h) PROVE TypeInv'
  BY <1>1 DEF Post
<1>2. ASSUME NEW t \in Threads, PostStep(t) PROVE TypeInv'
  <2>1. CASE PostLooksUp(t)
    BY <2>1 DEF PostLooksUp
  <2>2. CASE PostEnqueues(t)
    BY <2>2 DEF PostEnqueues, DstInv, Posting
  <2>3. CASE PostNotifies(t)
    BY <2>3 DEF PostNotifies
  <2>. QED
    BY <1>2, <2>1, <2>2, <2>3 DEF PostStep
<1>3. ASSUME NEW h \in Handlers, RunStep(h) PROVE TypeInv'
  <2>1. CASE TaskBegins(h)
    BY <2>1 DEF TaskBegins
  <2>2. CASE NotifyPause(h)
    BY <2>2 DEF NotifyPause
  <2>3. CASE PauseReturns(h)
    BY <2>3 DEF PauseReturns
  <2>4. CASE HandleMessage(h)
    BY <2>4 DEF HandleMessage
  <2>5. CASE MessageHandled(h)
    BY <2>5 DEF MessageHandled
  <2>6. CASE LoopEnds(h)
    BY <2>6 DEF LoopEnds
  <2>7. CASE ClosePort(h)
    BY <2>7 DEF ClosePort
  <2>8. CASE ClosePortLocks(h)
    BY <2>8 DEF ClosePortLocks
  <2>9. CASE ClosePortReturns(h)
    BY <2>9 DEF ClosePortReturns
  <2>10. CASE ShutdownLocks(h)
    BY <2>10 DEF ShutdownLocks
  <2>11. CASE Unregister(h)
    BY <2>11 DEF Unregister
  <2>12. CASE ClearLocks(h)
    BY <2>12 DEF ClearLocks
  <2>13. CASE ClearMessage(h)
    BY <2>13 DEF ClearMessage
  <2>14. CASE DeleteHandler(h)
    BY <2>14 DEF DeleteHandler
  <2>. QED
    BY <1>3, <2>1, <2>2, <2>3, <2>4, <2>5, <2>6, <2>7, <2>8, <2>9, <2>10, <2>11, <2>12,
       <2>13, <2>14 DEF RunStep
<1>4. CASE UNCHANGED vars
  BY <1>4 DEF vars
<1>. QED
  BY <1>1, <1>2, <1>3, <1>4 DEF Next

\* Every step keeps the invariant.  Only Unregister() takes a handler off the
\* map: it owns mutex_ then, so no thread is using any handler.
LEMMA IndStep == IndInv /\ [Next]_vars => IndInv'
<1>. SUFFICES ASSUME IndInv, [Next]_vars PROVE IndInv'
  OBVIOUS
<1>1. TypeInv'
  BY TypeStep DEF IndInv
<1>2. Handlers \subseteq Threads /\ Service \in Handlers /\ None \notin Threads
  BY PostingAssumption DEF Threads
<1>. DEFINE Rest == MutexInv /\ UseInv /\ DstInv /\ BackInv /\ ClearInv /\ DeletedInv
<1>. USE <1>1, <1>2 DEF IndInv, TypeInv, Rest, MutexInv, UseInv, DstInv, BackInv, ClearInv, DeletedInv,
                 Goto, BeginPost, Uses, Place, InMutex, Posting
<1>3. ASSUME NEW t \in Threads, NEW h \in Handlers, Post(t, h) PROVE Rest'
  BY <1>3 DEF Post
<1>4. ASSUME NEW t \in Threads, PostStep(t) PROVE Rest'
  <2>1. CASE PostLooksUp(t)
    BY <2>1 DEF PostLooksUp
  <2>2. CASE PostEnqueues(t)
    BY <2>2 DEF PostEnqueues
  <2>3. CASE PostNotifies(t)
    BY <2>3 DEF PostNotifies
  <2>. QED
    BY <1>4, <2>1, <2>2, <2>3 DEF PostStep
<1>5. ASSUME NEW h \in Handlers, RunStep(h) PROVE Rest'
  <2>1. CASE TaskBegins(h)
    BY <2>1 DEF TaskBegins
  <2>2. CASE NotifyPause(h)
    BY <2>2 DEF NotifyPause
  <2>3. CASE PauseReturns(h)
    BY <2>3 DEF PauseReturns
  <2>4. CASE HandleMessage(h)
    BY <2>4 DEF HandleMessage
  <2>5. CASE MessageHandled(h)
    BY <2>5 DEF MessageHandled
  <2>6. CASE LoopEnds(h)
    BY <2>6 DEF LoopEnds
  <2>7. CASE ClosePort(h)
    BY <2>7 DEF ClosePort
  <2>8. CASE ClosePortLocks(h)
    BY <2>8 DEF ClosePortLocks
  <2>9. CASE ClosePortReturns(h)
    BY <2>9 DEF ClosePortReturns
  <2>10. CASE ShutdownLocks(h)
    BY <2>10 DEF ShutdownLocks
  <2>11. CASE Unregister(h)
    BY <2>11 DEF Unregister
  <2>12. CASE ClearLocks(h)
    BY <2>12 DEF ClearLocks
  <2>13. CASE ClearMessage(h)
    BY <2>13 DEF ClearMessage
  <2>14. CASE DeleteHandler(h)
    BY <2>14 DEF DeleteHandler
  <2>. QED
    BY <1>5, <2>1, <2>2, <2>3, <2>4, <2>5, <2>6, <2>7, <2>8, <2>9, <2>10, <2>11, <2>12,
       <2>13, <2>14 DEF RunStep
<1>6. CASE UNCHANGED vars
  BY <1>6 DEF vars
<1>. QED
  BY <1>3, <1>4, <1>5, <1>6 DEF Next

\* The invariant holds in every reachable state.
THEOREM IndInvHolds == Spec => []IndInv
<1>1. Init => IndInv
  <2>. SUFFICES ASSUME Init PROVE IndInv
    OBVIOUS
  <2>1. TypeInv
    BY PostingAssumption DEF Init, TypeInv, Labels
  <2>2. \A t \in Threads : pc[t] = "idle"
    BY DEF Init
  <2>3. \A h \in Handlers : h \in Threads /\ deleted[h] = FALSE
    BY DEF Init, Threads
  <2>. QED
    BY <2>1, <2>2, <2>3
    DEF IndInv, MutexInv, UseInv, DstInv, BackInv, ClearInv, DeletedInv, Uses, Place, InMutex, Posting
<1>. QED
  BY <1>1, IndStep, PTL DEF Spec

\* A handler that is deleted is not in the hands of any PostMessage() call.
THEOREM NoUseAfterDeleteHolds == Spec => []NoUseAfterDelete
<1>1. IndInv => NoUseAfterDelete
  BY DEF IndInv, UseInv, DeletedInv, NoUseAfterDelete
<1>. QED
  BY <1>1, IndInvHolds, PTL

-----------------------------------------------------------------------------

\* Who holds a lock: a handler's thread keeps its monitor_ only in the loop,
\* while it announces a pause, and while it clears its queue.
LockInv ==
  /\ \A u \in Threads : mutex = u => pc[u] \in InMutex
  /\ \A h \in Handlers : monitor[h] \in {h, None}
  /\ \A h \in Handlers : monitor[h] = h => Place(h) \in {"loop", "announced", "clearing"}

\* Every step keeps track of who owns which lock.
LEMMA LockStep == IndInv /\ LockInv /\ [Next]_vars => LockInv'
<1>. SUFFICES ASSUME IndInv, LockInv, [Next]_vars PROVE LockInv'
  OBVIOUS
<1>1. Handlers \subseteq Threads /\ Service \in Handlers /\ None \notin Threads
  BY PostingAssumption DEF Threads
<1>. USE <1>1 DEF IndInv, TypeInv, LockInv, MutexInv, BackInv, Goto, BeginPost, Place, InMutex, Posting
<1>2. ASSUME NEW t \in Threads, NEW h \in Handlers, Post(t, h) PROVE LockInv'
  BY <1>2 DEF Post
<1>3. ASSUME NEW t \in Threads, PostStep(t) PROVE LockInv'
  <2>1. CASE PostLooksUp(t)
    BY <2>1 DEF PostLooksUp
  <2>2. CASE PostEnqueues(t)
    BY <2>2 DEF PostEnqueues
  <2>3. CASE PostNotifies(t)
    BY <2>3 DEF PostNotifies
  <2>. QED
    BY <1>3, <2>1, <2>2, <2>3 DEF PostStep
<1>4. ASSUME NEW h \in Handlers, RunStep(h) PROVE LockInv'
  <2>1. CASE TaskBegins(h)
    BY <2>1 DEF TaskBegins
  <2>2. CASE NotifyPause(h)
    BY <2>2 DEF NotifyPause
  <2>3. CASE PauseReturns(h)
    BY <2>3 DEF PauseReturns
  <2>4. CASE HandleMessage(h)
    BY <2>4 DEF HandleMessage
  <2>5. CASE MessageHandled(h)
    BY <2>5 DEF MessageHandled
  <2>6. CASE LoopEnds(h)
    BY <2>6 DEF LoopEnds
  <2>7. CASE ClosePort(h)
    BY <2>7 DEF ClosePort
  <2>8. CASE ClosePortLocks(h)
    BY <2>8 DEF ClosePortLocks
  <2>9. CASE ClosePortReturns(h)
    BY <2>9 DEF ClosePortReturns
  <2>10. CASE ShutdownLocks(h)
    BY <2>10 DEF ShutdownLocks
  <2>11. CASE Unregister(h)
    BY <2>11 DEF Unregister
  <2>12. CASE ClearLocks(h)
    BY <2>12 DEF ClearLocks
  <2>13. CASE ClearMessage(h)
    BY <2>13 DEF ClearMessage
  <2>14. CASE DeleteHandler(h)
    BY <2>14 DEF DeleteHandler
  <2>. QED
    BY <1>4, <2>1, <2>2, <2>3, <2>4, <2>5, <2>6, <2>7, <2>8, <2>9, <2>10, <2>11, <2>12,
       <2>13, <2>14 DEF RunStep
<1>5. CASE UNCHANGED vars
  BY <1>5 DEF vars
<1>. QED
  BY <1>2, <1>3, <1>4, <1>5 DEF Next

\* A thread that owns mutex_ and waits for a monitor_ waits for a handler in the
\* table; a thread that owns its monitor_ and waits for mutex_ announces a pause
\* or runs a handler that has left the table.
LEMMA LocksDoNotCross == IndInv /\ LockInv => NoLockCycle
<1>. SUFFICES ASSUME IndInv, LockInv, NEW t \in Threads, NEW u \in Threads,
                     WaitsFor(t, u), WaitsFor(u, t), ~Announces(t), ~Announces(u)
              PROVE  FALSE
  BY DEF NoLockCycle
<1>1. Handlers \subseteq Threads /\ None \notin Threads
  BY PostingAssumption DEF Threads
<1>2. ASSUME NEW x \in Threads, NEW y \in Threads, WaitsFor(x, y),
             pc[x] \in {"close_monitor", "unregister", "clear", "handling"}
      PROVE  FALSE
  BY <1>1, <1>2 DEF WaitsFor, LockInv, Place, Posting
<1>3. ASSUME NEW x \in Threads, NEW y \in Threads, WaitsFor(x, y),
             pc[x] = "want_monitor"
      PROVE  /\ y \in Handlers /\ monitor[y] = y /\ registered[y]
             /\ mutex = x
  <2>1. dst[x] \in Handlers /\ registered[dst[x]] /\ mutex = x
    BY <1>3 DEF IndInv, DstInv, UseInv, MutexInv, Uses, Posting, InMutex
  <2>2. monitor[dst[x]] = y
    BY <1>3 DEF WaitsFor
  <2>. QED
    BY <1>1, <2>1, <2>2 DEF LockInv
<1>4. ASSUME NEW x \in Threads, NEW y \in Threads, WaitsFor(x, y),
             pc[x] = "want_monitor", pc[y] \in {"want_mutex", "want_monitor"}, ~Announces(y)
      PROVE  FALSE
  <2>1. y \in Handlers /\ monitor[y] = y /\ registered[y]
    BY <1>3, <1>4
  <2>2. Place(y) = "clearing"
    BY <1>1, <1>4, <2>1 DEF LockInv, Place, Posting, IndInv, BackInv, Announces
  <2>. QED
    BY <2>1, <2>2 DEF IndInv, ClearInv
<1>5. ASSUME NEW x \in Threads, NEW y \in Threads, WaitsFor(x, y),
             pc[x] = "want_monitor", pc[y] \in {"close_mutex", "ending"}
      PROVE  FALSE
  <2>1. y \in Handlers /\ monitor[y] = y
    BY <1>3, <1>5
  <2>. QED
    BY <1>1, <1>5, <2>1 DEF LockInv, Place, Posting
<1>6. ASSUME NEW x \in Threads, NEW y \in Threads, WaitsFor(x, y),
             pc[x] \in {"want_mutex", "close_mutex", "ending"}
      PROVE  pc[y] \in InMutex
  BY <1>6 DEF WaitsFor, LockInv
<1>7. pc[t] \in {"want_mutex", "close_mutex", "ending", "want_monitor"}
  BY <1>2 DEF WaitsFor
<1>8. pc[u] \in {"want_mutex", "close_mutex", "ending", "want_monitor"}
  BY <1>2 DEF WaitsFor
<1>. QED
  BY <1>4, <1>5, <1>6, <1>7, <1>8 DEF InMutex

\* No two threads wait for each other in PostMessage(), ClosePort(), the event
\* loop and shutdown, unless one of them announces a pause.
THEOREM NoLockCycleHolds == Spec => []NoLockCycle
<1>1. Init => LockInv
  <2>. SUFFICES ASSUME Init PROVE LockInv
    OBVIOUS
  <2>1. Handlers \subseteq Threads /\ None \notin Threads
    BY PostingAssumption DEF Threads
  <2>2. \A t \in Threads : pc[t] = "idle"
    BY DEF Init
  <2>3. mutex = None /\ \A h \in Handlers : monitor[h] = None
    BY DEF Init
  <2>. QED
    BY <2>1, <2>2, <2>3 DEF LockInv, Place, Posting
<1>2. Spec => []LockInv
  BY <1>1, IndInvHolds, LockStep, PTL DEF Spec
<1>. QED
  BY <1>2, IndInvHolds, LocksDoNotCross, PTL

=============================================================================
