-------------------------- MODULE ThreadPoolProofs --------------------------
(***************************************************************************)
(* Proofs about ThreadPool, for any number of tasks and workers.           *)
(*                                                                         *)
(* The lists and the worker fields that two locks protect are tied         *)
(* together by the inductive invariant IndInv: where a worker's thread is  *)
(* decides in which list it can be, what pool_ and task_ hold, and which   *)
(* Run() call may still point to it.                                       *)
(***************************************************************************)
EXTENDS ThreadPool, FiniteSetTheorems, TLAPS

\* TypeOK without the four counters, which need the cardinalities.
StateOK ==
  /\ shutting_down \in BOOLEAN
  /\ all_workers \in SUBSET Workers
  /\ idle_workers \in SUBSET Workers
  /\ pool \in [Workers -> BOOLEAN]
  /\ task \in [Workers -> Tasks \union {NoTask}]
  /\ loop \in [Workers -> LoopStates]
  /\ current \in [Workers -> Tasks \union {NoTask}]
  /\ notified \in [Workers -> BOOLEAN]
  /\ call \in [Tasks -> CallStates]
  /\ target \in [Tasks -> SUBSET Workers]
  /\ destructor \in {"not_called", "telling_workers", "returned"}
  /\ saved \in SUBSET Workers

\* The destructor empties the lists once and for all.
ShutdownInv ==
  /\ shutting_down <=> destructor # "not_called"
  /\ shutting_down => all_workers = {}
  /\ destructor # "telling_workers" => saved = {}

\* What a worker's place in Loop() says about its fields and its lists.
WorkerInv ==
  \A w \in Workers :
    /\ pool[w] => w \in all_workers \union saved \/ loop[w] \in {"exiting", "deleted"}
    /\ w \in all_workers \union saved =>
         pool[w] /\ loop[w] \in {"allocated", "starting", "running", "waiting"}
    /\ w \in idle_workers => w \in all_workers /\ loop[w] = "waiting" /\ task[w] = NoTask
    /\ loop[w] \in {"unallocated", "running", "exiting", "deleted"} => task[w] = NoTask
    /\ loop[w] = "starting" => task[w] # NoTask
    /\ loop[w] = "running" <=> current[w] # NoTask

\* A Run() call past its mutex section owns a worker nobody else will touch.
InCall(t) == call[t] \in {"dispatched", "task_set"}

Owns(t, w) ==
  /\ target[t] = {w}
  /\ w \in all_workers /\ w \notin idle_workers
  /\ call[t] = "dispatched" =>
       loop[w] \in {"allocated", "waiting"} /\ task[w] = NoTask
  /\ call[t] = "task_set" => loop[w] = "allocated" /\ task[w] = t
  /\ \A u \in Tasks : u # t /\ InCall(u) => target[u] # {w}

CallInv == \A t \in Tasks : InCall(t) => \E w \in Workers : Owns(t, w)

\* A task is in one place at a time.
TaskInv ==
  \A t \in Tasks, w \in Workers :
    /\ task[w] = t \/ current[w] = t => call[t] \in {"task_set", "returned"}
    /\ task[w] = t =>
         \A v \in Workers : current[v] # t /\ (v # w => task[v] # t)
    /\ current[w] = t => \A v \in Workers : v # w => current[v] # t

IndInv == StateOK /\ ShutdownInv /\ WorkerInv /\ CallInv /\ TaskInv

-----------------------------------------------------------------------------
(* IndInv is inductive.                                                    *)

\* A new pool satisfies the invariant.
LEMMA IndInvInit == Init => IndInv
<1> SUFFICES ASSUME Init PROVE IndInv
  OBVIOUS
<1>1. StateOK
  BY DEF Init, StateOK, LoopStates, CallStates
<1>2. ShutdownInv /\ WorkerInv /\ TaskInv
  BY ThreadPoolAssumption DEF Init, ShutdownInv, WorkerInv, TaskInv
<1>3. CallInv
  BY DEF Init, CallInv, InCall
<1> QED
  BY <1>1, <1>2, <1>3 DEF IndInv

\* RunRefused keeps the invariant.
LEMMA RunRefusedInd ==
  ASSUME IndInv, NEW t \in Tasks, RunRefused(t)
  PROVE  IndInv'
<1> USE ThreadPoolAssumption
    DEF IndInv, RunRefused, poolVars, workerVars, callVars, endVars
<1>1. StateOK'
  BY DEF StateOK, LoopStates, CallStates
<1>2. ShutdownInv'
  BY DEF StateOK, ShutdownInv
<1>3. WorkerInv'
  BY DEF StateOK, ShutdownInv, WorkerInv, CallInv, Owns, InCall, LoopStates
<1>4. CallInv'
  <2>1. ASSUME NEW u \in Tasks, u # t, InCall(u)'
        PROVE  \E v \in Workers : Owns(u, v)'
    <3>1. InCall(u)
      BY <2>1 DEF StateOK, InCall
    <3>2. PICK v \in Workers : Owns(u, v)
      BY <3>1 DEF CallInv
    <3>3. Owns(u, v)'
      BY <2>1, <3>1, <3>2 DEF StateOK, ShutdownInv, WorkerInv, Owns, InCall
    <3> QED
      BY <3>3
  <2>2. ~InCall(t)'
    BY DEF StateOK, InCall
  <2> QED
    BY <2>1, <2>2 DEF CallInv
<1>5. TaskInv'
  BY DEF StateOK, WorkerInv, CallInv, Owns, TaskInv, InCall
<1> QED
  BY <1>1, <1>2, <1>3, <1>4, <1>5

\* RunNewWorker keeps the invariant.
LEMMA RunNewWorkerInd ==
  ASSUME IndInv, NEW t \in Tasks, NEW w \in Workers, RunNewWorker(t, w)
  PROVE  IndInv'
<1> USE ThreadPoolAssumption
    DEF IndInv, RunNewWorker, poolVars, workerVars, callVars, endVars
<1>1. StateOK'
  BY DEF StateOK, LoopStates, CallStates
<1>2. ShutdownInv'
  BY DEF StateOK, ShutdownInv
<1>3. WorkerInv'
  BY DEF StateOK, ShutdownInv, WorkerInv, CallInv, Owns, InCall, LoopStates
<1>4. CallInv'
  <2>1. ASSUME NEW u \in Tasks, u # t, InCall(u)'
        PROVE  \E v \in Workers : Owns(u, v)'
    <3>1. InCall(u)
      BY <2>1 DEF StateOK, InCall
    <3>2. PICK v \in Workers : Owns(u, v)
      BY <3>1 DEF CallInv
    <3>3. Owns(u, v)'
      BY <2>1, <3>1, <3>2 DEF StateOK, ShutdownInv, WorkerInv, Owns, InCall
    <3> QED
      BY <3>3
  <2>2. Owns(t, w)'
    <3>1. loop'[w] = "allocated" /\ target'[t] = {w} /\ call'[t] = "dispatched"
      BY DEF StateOK
    <3>2. loop[w] = "unallocated" /\ task'[w] = task[w] /\ idle_workers' = {} /\ w \in all_workers'
      BY DEF StateOK
    <3>3. task[w] = NoTask
      BY <3>2 DEF WorkerInv
    <3>4. ASSUME NEW u \in Tasks, u # t, InCall(u)' PROVE target'[u] # {w}
      <4>1. InCall(u) /\ target'[u] = target[u]
        BY <3>4 DEF StateOK, InCall
      <4>2. PICK v \in Workers : target[u] = {v} /\ v \in all_workers
        BY <4>1 DEF CallInv, Owns
      <4>3. v # w
        BY <3>2, <4>2 DEF WorkerInv
      <4>. QED
        BY ONLY <4>1, <4>2, <4>3
    <3>. QED
      BY ONLY <3>1, <3>2, <3>3, <3>4 DEF Owns
  <2> QED
    BY <2>1, <2>2 DEF CallInv
<1>5. TaskInv'
  BY DEF StateOK, WorkerInv, CallInv, Owns, TaskInv, InCall
<1> QED
  BY <1>1, <1>2, <1>3, <1>4, <1>5

\* RunIdleWorker keeps the invariant.
LEMMA RunIdleWorkerInd ==
  ASSUME IndInv, NEW t \in Tasks, NEW w \in Workers, RunIdleWorker(t, w)
  PROVE  IndInv'
<1> USE ThreadPoolAssumption
    DEF IndInv, RunIdleWorker, poolVars, workerVars, callVars, endVars
<1>1. StateOK'
  BY DEF StateOK, LoopStates, CallStates
<1>2. ShutdownInv'
  BY DEF StateOK, ShutdownInv
<1>3. WorkerInv'
  BY DEF StateOK, ShutdownInv, WorkerInv, CallInv, Owns, InCall, LoopStates
<1>4. CallInv'
  <2>1. ASSUME NEW u \in Tasks, u # t, InCall(u)'
        PROVE  \E v \in Workers : Owns(u, v)'
    <3>1. InCall(u)
      BY <2>1 DEF StateOK, InCall
    <3>2. PICK v \in Workers : Owns(u, v)
      BY <3>1 DEF CallInv
    <3>3. Owns(u, v)'
      BY <2>1, <3>1, <3>2 DEF StateOK, ShutdownInv, WorkerInv, Owns, InCall
    <3> QED
      BY <3>3
  <2>2. Owns(t, w)'
    <3>1. w \in all_workers /\ loop[w] = "waiting" /\ task[w] = NoTask
      BY DEF WorkerInv
    <3>2. \A u \in Tasks : InCall(u) => target[u] # {w}
      <4>1. ASSUME NEW u \in Tasks, InCall(u), target[u] = {w} PROVE FALSE
        <5>1. PICK v \in Workers : Owns(u, v)
          BY <4>1 DEF CallInv
        <5>. QED
          BY <4>1, <5>1 DEF Owns
      <4>. QED
        BY <4>1
    <3>3. \A u \in Tasks : u # t /\ InCall(u)' => target'[u] # {w}
      BY <3>2 DEF StateOK, InCall
    <3>4. target'[t] = {w} /\ call'[t] = "dispatched"
      BY DEF StateOK
    <3>. QED
      BY <3>1, <3>3, <3>4 DEF Owns
  <2> QED
    BY <2>1, <2>2 DEF CallInv
<1>5. TaskInv'
  BY DEF StateOK, WorkerInv, CallInv, Owns, TaskInv, InCall
<1> QED
  BY <1>1, <1>2, <1>3, <1>4, <1>5

\* SetTask keeps the invariant.
LEMMA SetTaskInd ==
  ASSUME IndInv, NEW t \in Tasks, NEW w \in Workers, SetTask(t, w)
  PROVE  IndInv'
<1> USE ThreadPoolAssumption
    DEF IndInv, SetTask, poolVars, workerVars, callVars, endVars
<1>1. StateOK'
  BY DEF StateOK, LoopStates, CallStates
<1>2. ShutdownInv'
  BY DEF StateOK, ShutdownInv
<1>3. WorkerInv'
  BY DEF StateOK, ShutdownInv, WorkerInv, CallInv, Owns, InCall, LoopStates
<1>4. CallInv'
  <2>1. ASSUME NEW u \in Tasks, u # t, InCall(u)'
        PROVE  \E v \in Workers : Owns(u, v)'
    <3>1. InCall(u)
      BY <2>1 DEF StateOK, InCall
    <3>2. PICK v \in Workers : Owns(u, v)
      BY <3>1 DEF CallInv
    <3>3. Owns(u, v)'
      BY <2>1, <3>1, <3>2 DEF StateOK, ShutdownInv, WorkerInv, Owns, InCall
    <3> QED
      BY <3>3
  <2>2. InCall(t)' => Owns(t, w)'
    BY DEF StateOK, ShutdownInv, WorkerInv, CallInv, Owns, InCall
  <2> QED
    BY <2>1, <2>2 DEF CallInv
<1>5. TaskInv'
  BY DEF StateOK, WorkerInv, CallInv, Owns, TaskInv, InCall
<1> QED
  BY <1>1, <1>2, <1>3, <1>4, <1>5

\* StartThread keeps the invariant.
LEMMA StartThreadInd ==
  ASSUME IndInv, NEW t \in Tasks, NEW w \in Workers, StartThread(t, w)
  PROVE  IndInv'
<1> USE ThreadPoolAssumption
    DEF IndInv, StartThread, poolVars, workerVars, callVars, endVars
<1>1. StateOK'
  BY DEF StateOK, LoopStates, CallStates
<1>2. ShutdownInv'
  BY DEF StateOK, ShutdownInv
<1>3. WorkerInv'
  <2>1. PICK v \in Workers : Owns(t, v)
    BY DEF CallInv, InCall
  <2>2. loop[w] = "allocated" /\ task[w] = t /\ w \in all_workers
    BY <2>1 DEF Owns
  <2>3. loop'[w] = "starting" /\ \A x \in Workers : x # w => loop'[x] = loop[x]
    BY DEF StateOK
  <2>. QED
    BY <2>2, <2>3 DEF StateOK, WorkerInv
<1>4. CallInv'
  <2>1. ASSUME NEW u \in Tasks, u # t, InCall(u)'
        PROVE  \E v \in Workers : Owns(u, v)'
    <3>1. InCall(u)
      BY <2>1 DEF StateOK, InCall
    <3>2. PICK v \in Workers : Owns(u, v)
      BY <3>1 DEF CallInv
    <3>3. Owns(u, v)'
      BY <2>1, <3>1, <3>2 DEF StateOK, ShutdownInv, WorkerInv, Owns, InCall
    <3> QED
      BY <3>3
  <2>2. ~InCall(t)'
    BY DEF StateOK, InCall
  <2> QED
    BY <2>1, <2>2 DEF CallInv
<1>5. TaskInv'
  BY DEF StateOK, WorkerInv, CallInv, Owns, TaskInv, InCall
<1> QED
  BY <1>1, <1>2, <1>3, <1>4, <1>5

\* EnterLoop keeps the invariant.
LEMMA EnterLoopInd ==
  ASSUME IndInv, NEW w \in Workers, EnterLoop(w)
  PROVE  IndInv'
<1> USE ThreadPoolAssumption
    DEF IndInv, EnterLoop, TakeTask, poolVars, workerVars, callVars, endVars
<1>1. StateOK'
  BY DEF StateOK, LoopStates, CallStates
<1>2. ShutdownInv'
  BY DEF StateOK, ShutdownInv
<1>3. WorkerInv'
  BY DEF StateOK, ShutdownInv, WorkerInv, CallInv, Owns, InCall, LoopStates
<1>4. CallInv'
  <2>1. ASSUME NEW u \in Tasks, InCall(u)'
        PROVE  \E v \in Workers : Owns(u, v)'
    <3>1. InCall(u)
      BY <2>1 DEF StateOK, InCall
    <3>2. PICK v \in Workers : Owns(u, v)
      BY <3>1 DEF CallInv
    <3>3. Owns(u, v)'
      BY <2>1, <3>1, <3>2 DEF StateOK, ShutdownInv, WorkerInv, Owns, InCall
    <3> QED
      BY <3>3
  <2> QED
    BY <2>1 DEF CallInv
<1>5. TaskInv'
  BY DEF StateOK, WorkerInv, CallInv, Owns, TaskInv, InCall
<1> QED
  BY <1>1, <1>2, <1>3, <1>4, <1>5

\* FinishTask keeps the invariant.
LEMMA FinishTaskInd ==
  ASSUME IndInv, NEW w \in Workers, FinishTask(w)
  PROVE  IndInv'
<1> USE ThreadPoolAssumption
    DEF IndInv, FinishTask, SetIdle, poolVars, workerVars, callVars, endVars
<1>1. StateOK'
  <2>1. CASE ~pool[w]
    BY <2>1 DEF StateOK, LoopStates
  <2>2. CASE pool[w] /\ shutting_down
    <3>1. UNCHANGED poolVars /\ loop' = [loop EXCEPT ![w] = "waiting"]
      BY <2>2
    <3>2. UNCHANGED <<shutting_down, all_workers, idle_workers>>
      BY <3>1
    <3> QED
      BY <2>2, <3>1, <3>2 DEF StateOK, LoopStates
  <2>3. CASE pool[w] /\ ~shutting_down
    <3>1. idle_workers' = idle_workers \union {w} /\ loop' = [loop EXCEPT ![w] = "waiting"]
      BY <2>3
    <3>2. idle_workers' \in SUBSET Workers
      BY <3>1 DEF StateOK
    <3> QED
      BY <2>3, <3>1, <3>2 DEF StateOK, LoopStates
  <2> QED
    BY <2>1, <2>2, <2>3
<1>2. ShutdownInv'
  BY DEF StateOK, ShutdownInv
<1>3. WorkerInv'
  BY DEF StateOK, ShutdownInv, WorkerInv, CallInv, Owns, InCall, LoopStates
<1>4. CallInv'
  <2>1. ASSUME NEW u \in Tasks, InCall(u)'
        PROVE  \E v \in Workers : Owns(u, v)'
    <3>1. InCall(u)
      BY <2>1 DEF StateOK, InCall
    <3>2. PICK v \in Workers : Owns(u, v)
      BY <3>1 DEF CallInv
    <3>3. Owns(u, v)'
      BY <2>1, <3>1, <3>2 DEF StateOK, ShutdownInv, WorkerInv, Owns, InCall
    <3> QED
      BY <3>3
  <2> QED
    BY <2>1 DEF CallInv
<1>5. TaskInv'
  BY DEF StateOK, WorkerInv, CallInv, Owns, TaskInv, InCall
<1> QED
  BY <1>1, <1>2, <1>3, <1>4, <1>5

\* Wake keeps the invariant.
LEMMA WakeInd ==
  ASSUME IndInv, NEW w \in Workers, NEW reason \in WakeReasons, Wake(w, reason)
  PROVE  IndInv'
<1> USE ThreadPoolAssumption
    DEF IndInv, Wake, TakeTask, ReleaseIdleWorker, poolVars, workerVars, callVars, endVars
<1>1. StateOK'
  <2>1. CASE task[w] # NoTask
    BY <2>1 DEF StateOK, LoopStates
  <2>2. CASE task[w] = NoTask /\ ~pool[w]
    BY <2>2 DEF StateOK, LoopStates
  <2>3. CASE task[w] = NoTask /\ pool[w] /\ loop'[w] = "exiting"
    <3>1. ReleaseIdleWorker(w) /\ loop' = [loop EXCEPT ![w] = "exiting"]
      BY <2>3
    <3>2. idle_workers' \in SUBSET Workers /\ all_workers' \in SUBSET Workers
      BY <3>1 DEF StateOK
    <3>3. pool' \in [Workers -> BOOLEAN]
      BY <3>1 DEF StateOK
    <3> QED
      BY <2>3, <3>1, <3>2, <3>3 DEF StateOK, LoopStates
  <2>4. CASE task[w] = NoTask /\ pool[w] /\ loop' = loop
    BY <2>4 DEF StateOK, LoopStates
  <2> QED
    BY <2>1, <2>2, <2>3, <2>4 DEF StateOK
<1>2. ShutdownInv'
  BY DEF StateOK, ShutdownInv
<1>3. WorkerInv'
  BY DEF StateOK, ShutdownInv, WorkerInv, CallInv, Owns, InCall, LoopStates
<1>4. CallInv'
  <2>1. ASSUME NEW u \in Tasks, InCall(u)'
        PROVE  \E v \in Workers : Owns(u, v)'
    <3>1. InCall(u)
      BY <2>1 DEF StateOK, InCall
    <3>2. PICK v \in Workers : Owns(u, v)
      BY <3>1 DEF CallInv
    <3>3. Owns(u, v)'
      BY <2>1, <3>1, <3>2 DEF StateOK, ShutdownInv, WorkerInv, Owns, InCall
    <3> QED
      BY <3>3
  <2> QED
    BY <2>1 DEF CallInv
<1>5. TaskInv'
  BY DEF StateOK, WorkerInv, CallInv, Owns, TaskInv, InCall
<1> QED
  BY <1>1, <1>2, <1>3, <1>4, <1>5

\* DeleteWorker keeps the invariant.
LEMMA DeleteWorkerInd ==
  ASSUME IndInv, NEW w \in Workers, DeleteWorker(w)
  PROVE  IndInv'
<1> USE ThreadPoolAssumption
    DEF IndInv, DeleteWorker, poolVars, workerVars, callVars, endVars
<1>1. StateOK'
  BY DEF StateOK, LoopStates, CallStates
<1>2. ShutdownInv'
  BY DEF StateOK, ShutdownInv
<1>3. WorkerInv'
  BY DEF StateOK, ShutdownInv, WorkerInv, CallInv, Owns, InCall, LoopStates
<1>4. CallInv'
  <2>1. ASSUME NEW u \in Tasks, InCall(u)'
        PROVE  \E v \in Workers : Owns(u, v)'
    <3>1. InCall(u)
      BY <2>1 DEF StateOK, InCall
    <3>2. PICK v \in Workers : Owns(u, v)
      BY <3>1 DEF CallInv
    <3>3. Owns(u, v)'
      BY <2>1, <3>1, <3>2 DEF StateOK, ShutdownInv, WorkerInv, Owns, InCall
    <3> QED
      BY <3>3
  <2> QED
    BY <2>1 DEF CallInv
<1>5. TaskInv'
  BY DEF StateOK, WorkerInv, CallInv, Owns, TaskInv, InCall
<1> QED
  BY <1>1, <1>2, <1>3, <1>4, <1>5

\* ShutdownLists keeps the invariant.
LEMMA ShutdownListsInd ==
  ASSUME IndInv, ShutdownLists
  PROVE  IndInv'
<1> USE ThreadPoolAssumption
    DEF IndInv, ShutdownLists, poolVars, workerVars, callVars, endVars
<1>1. StateOK'
  BY DEF StateOK, LoopStates, CallStates
<1>2. ShutdownInv'
  BY DEF StateOK, ShutdownInv
<1>3. WorkerInv'
  BY DEF StateOK, ShutdownInv, WorkerInv, CallInv, Owns, InCall, LoopStates
<1>4. CallInv'
  BY DEF CallInv, InCall
<1>5. TaskInv'
  BY DEF StateOK, WorkerInv, CallInv, Owns, TaskInv, InCall
<1> QED
  BY <1>1, <1>2, <1>3, <1>4, <1>5

\* ShutdownWorker keeps the invariant.
LEMMA ShutdownWorkerInd ==
  ASSUME IndInv, NEW w \in Workers, ShutdownWorker(w)
  PROVE  IndInv'
<1> USE ThreadPoolAssumption
    DEF IndInv, ShutdownWorker, poolVars, workerVars, callVars, endVars
<1>1. StateOK'
  BY DEF StateOK, LoopStates, CallStates
<1>2. ShutdownInv'
  BY DEF StateOK, ShutdownInv
<1>3. WorkerInv'
  BY DEF StateOK, ShutdownInv, WorkerInv, CallInv, Owns, InCall, LoopStates
<1>4. CallInv'
  <2>1. ASSUME NEW u \in Tasks, InCall(u)'
        PROVE  \E v \in Workers : Owns(u, v)'
    <3>1. InCall(u)
      BY <2>1 DEF StateOK, InCall
    <3>2. PICK v \in Workers : Owns(u, v)
      BY <3>1 DEF CallInv
    <3>3. Owns(u, v)'
      BY <2>1, <3>1, <3>2 DEF StateOK, ShutdownInv, WorkerInv, Owns, InCall
    <3> QED
      BY <3>3
  <2> QED
    BY <2>1 DEF CallInv
<1>5. TaskInv'
  BY DEF StateOK, WorkerInv, CallInv, Owns, TaskInv, InCall
<1> QED
  BY <1>1, <1>2, <1>3, <1>4, <1>5

\* ShutdownReturns keeps the invariant.
LEMMA ShutdownReturnsInd ==
  ASSUME IndInv, ShutdownReturns
  PROVE  IndInv'
<1> USE ThreadPoolAssumption
    DEF IndInv, ShutdownReturns, poolVars, workerVars, callVars, endVars
<1>1. StateOK'
  BY DEF StateOK, LoopStates, CallStates
<1>2. ShutdownInv'
  BY DEF StateOK, ShutdownInv
<1>3. WorkerInv'
  BY DEF StateOK, ShutdownInv, WorkerInv, CallInv, Owns, InCall, LoopStates
<1>4. CallInv'
  <2>1. ASSUME NEW u \in Tasks, InCall(u)'
        PROVE  \E v \in Workers : Owns(u, v)'
    <3>1. InCall(u)
      BY <2>1 DEF StateOK, InCall
    <3>2. PICK v \in Workers : Owns(u, v)
      BY <3>1 DEF CallInv
    <3>3. Owns(u, v)'
      BY <2>1, <3>1, <3>2 DEF StateOK, ShutdownInv, WorkerInv, Owns, InCall
    <3> QED
      BY <3>3
  <2> QED
    BY <2>1 DEF CallInv
<1>5. TaskInv'
  BY DEF StateOK, WorkerInv, CallInv, Owns, TaskInv, InCall
<1> QED
  BY <1>1, <1>2, <1>3, <1>4, <1>5

\* Every step keeps the invariant.
LEMMA IndInvNext == IndInv /\ [Next]_vars => IndInv'
<1> SUFFICES ASSUME IndInv, [Next]_vars PROVE IndInv'
  OBVIOUS
<1>1. ASSUME NEW t \in Tasks, RunStep(t) PROVE IndInv'
  BY <1>1, RunRefusedInd, RunNewWorkerInd, RunIdleWorkerInd, SetTaskInd, StartThreadInd
  DEF RunStep
<1>2. ASSUME NEW w \in Workers, WorkerStep(w) PROVE IndInv'
  BY <1>2, EnterLoopInd, FinishTaskInd, WakeInd, DeleteWorkerInd DEF WorkerStep
<1>3. CASE ShutdownStep
  BY <1>3, ShutdownListsInd, ShutdownWorkerInd, ShutdownReturnsInd DEF ShutdownStep
<1>4. CASE UNCHANGED vars
  <2> USE <1>4 DEF vars, poolVars, workerVars, callVars, endVars
  <2>1. StateOK' /\ ShutdownInv' /\ WorkerInv'
    BY DEF IndInv, StateOK, ShutdownInv, WorkerInv
  <2>2. CallInv' /\ TaskInv'
    BY DEF IndInv, CallInv, Owns, InCall, TaskInv
  <2> QED
    BY <2>1, <2>2 DEF IndInv
<1> QED
  BY <1>1, <1>2, <1>3, <1>4 DEF Next

\* The inductive invariant holds in every reachable state.
THEOREM IndInvHolds == Spec => []IndInv
  BY IndInvInit, IndInvNext, PTL DEF Spec

-----------------------------------------------------------------------------
(* The safety invariants that the runs check on small instances.           *)

\* No list, Run() call or destructor ever refers to a worker whose thread has
\* left Loop() and deletes it.
THEOREM NoDanglingWorkerHolds == Spec => []NoDanglingWorker
<1>1. IndInv => NoDanglingWorker
  BY DEF IndInv, StateOK, ShutdownInv, WorkerInv, CallInv, Owns, InCall, NoDanglingWorker
<1> QED
  BY <1>1, IndInvHolds, PTL

\* After ~ThreadPool() no running worker can reach the pool through pool_.
THEOREM PoolOutlivesWorkersHolds == Spec => []PoolOutlivesWorkers
<1>1. IndInv => PoolOutlivesWorkers
  BY DEF IndInv, StateOK, ShutdownInv, WorkerInv, PoolOutlivesWorkers
<1> QED
  BY <1>1, IndInvHolds, PTL

\* Neither a deleted Worker nor, after ~ThreadPool(), the pool is used.
THEOREM NoUseAfterFreeHolds == Spec => []NoUseAfterFree
  BY NoDanglingWorkerHolds, PoolOutlivesWorkersHolds, PTL DEF NoUseAfterFree

\* SetTask() finds task_ empty, and no two Run() calls share a worker.
THEOREM TargetIsFreeHolds == Spec => []TargetIsFree
<1>1. IndInv => TargetIsFree
  <2> SUFFICES ASSUME IndInv, NEW t \in Tasks, NEW w \in Workers,
                      call[t] = "dispatched", target[t] = {w}
               PROVE  /\ task[w] = NoTask
                      /\ \A u \in Tasks \ {t} : InCall(u) => target[u] # {w}
    BY DEF TargetIsFree, InCall
  <2>1. PICK v \in Workers : Owns(t, v)
    BY DEF IndInv, CallInv, InCall
  <2>2. v = w
    BY <2>1 DEF Owns
  <2> QED
    BY <2>1, <2>2 DEF Owns
<1> QED
  BY <1>1, IndInvHolds, PTL

-----------------------------------------------------------------------------
(* The counters                                                            *)

CountersOK ==
  /\ count_started \in Nat /\ count_stopped \in Nat
  /\ count_running \in Nat /\ count_idle \in Nat

\* Cardinalities of the lists: adding and removing one worker.
LEMMA AddWorker ==
  ASSUME NEW S \in SUBSET Workers, NEW w \in Workers, w \notin S
  PROVE  Cardinality(S) \in Nat /\ Cardinality(S \union {w}) = Cardinality(S) + 1
<1>1. IsFiniteSet(S)
  BY ThreadPoolAssumption, FS_Subset
<1> QED
  BY <1>1, FS_CardinalityType, FS_AddElement

\* Taking a worker off a finite list.
LEMMA RemoveWorker ==
  ASSUME NEW S \in SUBSET Workers, NEW w \in S
  PROVE  /\ Cardinality(S) \in Nat /\ Cardinality(S) > 0
         /\ Cardinality(S \ {w}) = Cardinality(S) - 1
<1>1. IsFiniteSet(S)
  BY ThreadPoolAssumption, FS_Subset
<1>2. IsFiniteSet(S \ {w}) /\ Cardinality(S \ {w}) = Cardinality(S) - 1
  BY <1>1, FS_RemoveElement
<1>3. Cardinality(S) \in Nat /\ Cardinality(S \ {w}) \in Nat
  BY <1>1, <1>2, FS_CardinalityType
<1> QED
  BY <1>2, <1>3

\* The lists are finite.
LEMMA WorkerSetSize ==
  ASSUME NEW S \in SUBSET Workers
  PROVE  Cardinality(S) \in Nat
  BY ThreadPoolAssumption, FS_Subset, FS_CardinalityType

Counting == CountersOK /\ WorkerAccounting

\* The counters of a new pool are exact.
LEMMA CountingInit == Init => Counting
  BY FS_EmptySet DEF Init, Counting, CountersOK, WorkerAccounting

\* Every step keeps the counters exact.
LEMMA CountingNext == IndInv /\ Counting /\ [Next]_vars => Counting'
<1> SUFFICES ASSUME IndInv, Counting, [Next]_vars PROVE Counting'
  OBVIOUS
<1> USE DEF IndInv, StateOK, Counting, CountersOK, WorkerAccounting
<1>0. ASSUME UNCHANGED poolVars PROVE Counting'
  BY <1>0 DEF poolVars
<1>1. ASSUME NEW t \in Tasks, NEW w \in Workers, RunNewWorker(t, w) PROVE Counting'
  <2>1. w \notin all_workers
    BY <1>1 DEF RunNewWorker, WorkerInv
  <2>2. all_workers' = all_workers \union {w} /\ idle_workers' = {} /\ idle_workers = {}
    BY <1>1 DEF RunNewWorker
  <2>3. all_workers' \ idle_workers' = (all_workers \ idle_workers) \union {w}
    BY <2>2
  <2>4. /\ Cardinality(all_workers') = Cardinality(all_workers) + 1
        /\ Cardinality(all_workers' \ idle_workers') = Cardinality(all_workers \ idle_workers) + 1
        /\ Cardinality(all_workers) \in Nat
    BY <2>1, <2>2, <2>3, AddWorker
  <2>5. /\ count_started' = count_started + 1 /\ count_running' = count_running + 1
        /\ count_stopped' = count_stopped /\ count_idle' = count_idle
    BY <1>1 DEF RunNewWorker
  <2>6. count_idle' = Cardinality(idle_workers')
    BY <2>2, <2>5
  <2>7. idle_workers' \subseteq all_workers'
    BY <2>2
  <2> QED
    BY <2>4, <2>5, <2>6, <2>7
<1>2. ASSUME NEW t \in Tasks, NEW w \in Workers, RunIdleWorker(t, w) PROVE Counting'
  <2>1. w \in idle_workers /\ idle_workers' = idle_workers \ {w} /\ all_workers' = all_workers
    BY <1>2 DEF RunIdleWorker
  <2>2. all_workers' \ idle_workers' = (all_workers \ idle_workers) \union {w}
    BY <2>1
  <2>3. /\ count_idle' = count_idle - 1 /\ count_running' = count_running + 1
        /\ UNCHANGED <<count_started, count_stopped>>
    BY <1>2 DEF RunIdleWorker
  <2>4. /\ Cardinality(idle_workers') = Cardinality(idle_workers) - 1
        /\ Cardinality(idle_workers) > 0 /\ Cardinality(idle_workers) \in Nat
    BY <2>1, RemoveWorker
  <2>5. Cardinality(all_workers' \ idle_workers') = Cardinality(all_workers \ idle_workers) + 1
    BY <2>1, <2>2, AddWorker
  <2> QED
    BY <2>1, <2>3, <2>4, <2>5
<1>3. ASSUME NEW w \in Workers, loop[w] = "running", pool[w], SetIdle(w) PROVE Counting'
  <2>1. CASE shutting_down
    BY <1>0, <1>3, <2>1 DEF SetIdle
  <2>2. CASE ~shutting_down
    <3>1. w \in all_workers /\ w \notin idle_workers
      BY <1>3, <2>2 DEF ShutdownInv, WorkerInv
    <3>2. idle_workers' = idle_workers \union {w} /\ all_workers' = all_workers
      BY <1>3, <2>2 DEF SetIdle
    <3>3. all_workers' \ idle_workers' = (all_workers \ idle_workers) \ {w}
      BY <3>2
    <3>4. w \in all_workers \ idle_workers
      BY <3>1
    <3>5. /\ Cardinality(idle_workers') = Cardinality(idle_workers) + 1
          /\ Cardinality(idle_workers) \in Nat
      BY <3>1, <3>2, AddWorker
    <3>6. /\ Cardinality(all_workers \ idle_workers) \in Nat
          /\ Cardinality(all_workers \ idle_workers) > 0
          /\ Cardinality(all_workers' \ idle_workers') = Cardinality(all_workers \ idle_workers) - 1
      BY <3>3, <3>4, RemoveWorker
    <3> QED
      BY <1>3, <2>2, <3>1, <3>2, <3>5, <3>6 DEF SetIdle
  <2> QED
    BY <2>1, <2>2
<1>4. ASSUME NEW w \in Workers, ReleaseIdleWorker(w) PROVE Counting'
  <2>1. /\ w \in idle_workers /\ w \in all_workers
        /\ idle_workers' = idle_workers \ {w} /\ all_workers' = all_workers \ {w}
    BY <1>4 DEF ReleaseIdleWorker
  <2>2. all_workers' \ idle_workers' = all_workers \ idle_workers
    BY <2>1
  <2>3. /\ Cardinality(idle_workers) \in Nat /\ Cardinality(idle_workers) > 0
        /\ Cardinality(idle_workers') = Cardinality(idle_workers) - 1
    BY <2>1, RemoveWorker
  <2>4. /\ Cardinality(all_workers) \in Nat /\ Cardinality(all_workers) > 0
        /\ Cardinality(all_workers') = Cardinality(all_workers) - 1
    BY <2>1, RemoveWorker
  <2>5. Cardinality(all_workers' \ idle_workers') = Cardinality(all_workers \ idle_workers)
    BY <2>2
  <2> QED
    BY <1>4, <2>1, <2>3, <2>4, <2>5 DEF ReleaseIdleWorker
<1>5. CASE ShutdownLists
  <2>1. Cardinality(all_workers) \in Nat /\ Cardinality({}) = 0
    BY WorkerSetSize, FS_EmptySet
  <2>2. all_workers' \ idle_workers' = {}
    BY <1>5 DEF ShutdownLists
  <2> QED
    BY <1>5, <2>1, <2>2 DEF ShutdownLists
<1>6. ASSUME NEW t \in Tasks, RunStep(t) PROVE Counting'
  BY <1>0, <1>1, <1>2, <1>6 DEF RunStep, RunRefused, SetTask, StartThread
<1>7. ASSUME NEW w \in Workers, WorkerStep(w) PROVE Counting'
  BY <1>0, <1>3, <1>4, <1>7
  DEF WorkerStep, EnterLoop, TakeTask, FinishTask, Wake, DeleteWorker
<1>8. CASE ShutdownStep
  BY <1>0, <1>5, <1>8 DEF ShutdownStep, ShutdownWorker, ShutdownReturns
<1>9. CASE UNCHANGED vars
  BY <1>0, <1>9 DEF vars
<1> QED
  BY <1>6, <1>7, <1>8, <1>9 DEF Next

\* The pool's statistics agree with its lists in every reachable state, and
\* Shutdown()'s assertion count_started_ == count_stopped_ holds.
THEOREM WorkerAccountingHolds == Spec => []WorkerAccounting
<1>1. Counting => WorkerAccounting
  BY DEF Counting
<1> QED
  BY <1>1, IndInvInit, IndInvNext, CountingInit, CountingNext, PTL DEF Spec

\* Type correctness: in particular no unsigned counter is decremented at zero.
THEOREM TypeOKHolds == Spec => []TypeOK
<1>1. IndInv /\ Counting => TypeOK
  BY DEF IndInv, StateOK, Counting, CountersOK, TypeOK
<1> QED
  BY <1>1, IndInvInit, IndInvNext, CountingInit, CountingNext, PTL DEF Spec

-----------------------------------------------------------------------------
(* The pool implements TaskPool.                                           *)

\* A step that changes the outcome of one task, or of none, in the mapping.
LEMMA OutcomeMoves ==
  ASSUME NEW t \in Tasks, NEW to, Outcome(t)' = to,
         \A u \in Tasks \ {t} : Outcome(u)' = Outcome(u)
  PROVE  taskStateBar' = [taskStateBar EXCEPT ![t] = to]
  BY DEF taskStateBar

\* If no outcome changes, TaskPool sees no change.
LEMMA OutcomeStays ==
  ASSUME \A u \in Tasks : Outcome(u)' = Outcome(u)
  PROVE  taskStateBar' = taskStateBar
  BY DEF taskStateBar

\* Run() accepts or refuses its task, as TaskPool allows.
LEMMA RunStepRefines ==
  ASSUME IndInv, NEW t \in Tasks, RunStep(t)
  PROVE  [Abstract!Next]_(Abstract!vars)
<1> USE ThreadPoolAssumption
    DEF IndInv, poolVars, workerVars, callVars, endVars, Held, Runs
<1>1. CASE RunRefused(t)
  <2>1. Outcome(t) = "new" /\ Outcome(t)' = "refused"
    BY <1>1 DEF RunRefused, StateOK, Outcome
  <2>2. \A u \in Tasks \ {t} : Outcome(u)' = Outcome(u)
    BY <1>1 DEF RunRefused, StateOK, Outcome
  <2>3. Abstract!Refuse(t)
    BY <1>1, <2>1, <2>2, OutcomeMoves
    DEF RunRefused, Abstract!Refuse, Abstract!Move, taskStateBar
  <2> QED
    BY <2>3 DEF Abstract!Next
<1>2. ASSUME NEW w \in Workers, RunNewWorker(t, w) \/ RunIdleWorker(t, w)
      PROVE  Abstract!Next
  <2>1. Outcome(t) = "new" /\ Outcome(t)' = "accepted"
    <3>1. ~Runs(t) /\ UNCHANGED current /\ call[t] = "new" /\ call'[t] = "dispatched"
      BY <1>2 DEF RunNewWorker, RunIdleWorker, StateOK, TaskInv
    <3> QED
      BY <3>1 DEF Outcome
  <2>2. \A u \in Tasks \ {t} : Outcome(u)' = Outcome(u)
    BY <1>2 DEF RunNewWorker, RunIdleWorker, StateOK, Outcome
  <2>3. Abstract!Accept(t)
    BY <1>2, <2>1, <2>2, OutcomeMoves
    DEF RunNewWorker, RunIdleWorker, Abstract!Accept, Abstract!Move, taskStateBar
  <2> QED
    BY <2>3 DEF Abstract!Next
<1>3. ASSUME NEW w \in Workers, SetTask(t, w)
      PROVE  UNCHANGED Abstract!vars
  <2>1. task[w] = NoTask
    BY <1>3 DEF SetTask, CallInv, InCall, Owns
  <2>2. Outcome(t) = "accepted" /\ Outcome(t)' = "accepted"
    <3>1. ~Runs(t) /\ UNCHANGED current
      BY <1>3 DEF SetTask, TaskInv
    <3> QED
      BY <1>3, <3>1 DEF SetTask, StateOK, Outcome
  <2>3. \A u \in Tasks \ {t} : Outcome(u)' = Outcome(u)
    BY <1>3, <2>1 DEF SetTask, StateOK, Outcome
  <2> QED
    BY <1>3, <2>2, <2>3, OutcomeStays DEF SetTask, Abstract!vars
<1>4. ASSUME NEW w \in Workers, StartThread(t, w)
      PROVE  UNCHANGED Abstract!vars
  <2>1. task[w] = t
    BY <1>4 DEF StartThread, CallInv, InCall, Owns
  <2>2. Outcome(t) = "accepted" /\ Outcome(t)' = "accepted"
    <3>1. ~Runs(t) /\ UNCHANGED current
      BY <1>4, <2>1 DEF StartThread, TaskInv
    <3> QED
      BY <1>4, <2>1, <3>1 DEF StartThread, StateOK, Outcome
  <2>3. \A u \in Tasks \ {t} : Outcome(u)' = Outcome(u)
    BY <1>4 DEF StartThread, StateOK, Outcome
  <2> QED
    BY <1>4, <2>2, <2>3, OutcomeStays DEF StartThread, Abstract!vars
<1> QED
  BY <1>1, <1>2, <1>3, <1>4 DEF RunStep

\* A worker that takes its task starts it, and no other.
LEMMA TakeTaskRefines ==
  ASSUME IndInv, NEW w \in Workers, task[w] # NoTask,
         loop[w] \in {"starting", "waiting"}, TakeTask(w), UNCHANGED call
  PROVE  Abstract!Next
<1> USE ThreadPoolAssumption DEF IndInv, poolVars, TakeTask, Held, Runs
<1>1. PICK t \in Tasks : task[w] = t
  BY DEF StateOK
<1>2. call[t] = "returned"
  <2>1. call[t] \in {"task_set", "returned"}
    BY <1>1 DEF TaskInv
  <2>2. ASSUME call[t] = "task_set" PROVE FALSE
    <3>1. PICK v \in Workers : Owns(t, v)
      BY <2>2 DEF CallInv, InCall
    <3>2. task[v] = t /\ loop[v] = "allocated"
      BY <2>2, <3>1 DEF Owns
    <3> QED
      BY <1>1, <3>2 DEF TaskInv
  <2> QED
    BY <2>1, <2>2
<1>3. Outcome(t) = "accepted"
  BY <1>1, <1>2 DEF Outcome, TaskInv
<1>4. Outcome(t)' = "running"
  <2>1. ~Held(t)'
    BY <1>1 DEF StateOK, TaskInv
  <2>2. Runs(t)'
    BY <1>1 DEF StateOK
  <2> QED
    BY <1>2, <2>1, <2>2 DEF Outcome
<1>5. \A u \in Tasks \ {t} : Outcome(u)' = Outcome(u)
  BY <1>1 DEF StateOK, WorkerInv, Outcome
<1>6. Abstract!Start(t)
  BY <1>3, <1>4, <1>5, OutcomeMoves DEF Abstract!Start, Abstract!Move, taskStateBar
<1> QED
  BY <1>6 DEF Abstract!Next

\* Worker::Loop() executes a task that was accepted.
LEMMA FinishTaskRefines ==
  ASSUME IndInv, NEW w \in Workers, FinishTask(w)
  PROVE  Abstract!Next
<1> USE ThreadPoolAssumption DEF IndInv, poolVars, callVars, FinishTask, SetIdle, Held, Runs
<1>1. PICK t \in Tasks : current[w] = t
  BY DEF StateOK, WorkerInv
<1>2. Outcome(t) = "running"
  <2>1. call[t] = "returned"
    <3>1. call[t] \in {"task_set", "returned"}
      BY <1>1 DEF TaskInv
    <3>2. ASSUME call[t] = "task_set" PROVE FALSE
      BY <1>1, <3>2 DEF CallInv, InCall, Owns, TaskInv
    <3> QED
      BY <3>1, <3>2
  <2>2. ~Held(t)
    BY <1>1 DEF TaskInv
  <2> QED
    BY <1>1, <2>1, <2>2 DEF Outcome
<1>3. Outcome(t)' = "executed"
  <2>1. UNCHANGED <<call, task>> /\ call[t] = "returned" /\ ~Held(t)
    BY <1>1 DEF TaskInv, CallInv, InCall, Owns
  <2>2. ~Runs(t)'
    BY <1>1 DEF StateOK, TaskInv
  <2> QED
    BY <1>2, <2>1, <2>2 DEF Outcome
<1>4. \A u \in Tasks \ {t} : Outcome(u)' = Outcome(u)
  BY <1>1 DEF StateOK, Outcome
<1>5. UNCHANGED shutting_down
  OBVIOUS
<1>6. Abstract!Finish(t)
  BY <1>2, <1>3, <1>4, <1>5, OutcomeMoves DEF Abstract!Finish, Abstract!Move, taskStateBar
<1> QED
  BY <1>6 DEF Abstract!Next

\* The other steps change nothing that TaskPool sees.
LEMMA OtherStepsStutter ==
  ASSUME UNCHANGED <<shutting_down, call, task, current>>
  PROVE  UNCHANGED Abstract!vars
<1>1. \A u \in Tasks : Outcome(u)' = Outcome(u)
  BY DEF Outcome, Held, Runs
<1> QED
  BY <1>1, OutcomeStays DEF Abstract!vars

\* Every step is one of TaskPool or a stutter.
LEMMA NextRefines == IndInv /\ [Next]_vars => [Abstract!Next]_(Abstract!vars)
<1> SUFFICES ASSUME IndInv, [Next]_vars PROVE [Abstract!Next]_(Abstract!vars)
  OBVIOUS
<1> USE DEF poolVars, workerVars, callVars, endVars
<1>1. ASSUME NEW w \in Workers, EnterLoop(w) PROVE Abstract!Next
  BY <1>1, TakeTaskRefines DEF EnterLoop, IndInv, WorkerInv
<1>2. ASSUME NEW w \in Workers, NEW reason \in WakeReasons, Wake(w, reason)
      PROVE  [Abstract!Next]_(Abstract!vars)
  <2>1. CASE task[w] # NoTask
    BY <1>2, <2>1, TakeTaskRefines DEF Wake
  <2>2. CASE task[w] = NoTask
    <3>1. UNCHANGED <<shutting_down, call, task, current>>
      BY <1>2, <2>2 DEF Wake, ReleaseIdleWorker
    <3> QED
      BY <3>1, OtherStepsStutter
  <2> QED
    BY <2>1, <2>2
<1>3. ASSUME NEW w \in Workers, WorkerStep(w) PROVE [Abstract!Next]_(Abstract!vars)
  BY <1>1, <1>2, <1>3, FinishTaskRefines, OtherStepsStutter DEF WorkerStep, DeleteWorker
<1>4. CASE ShutdownLists
  <2>1. \A u \in Tasks : Outcome(u)' = Outcome(u)
    BY <1>4 DEF ShutdownLists, Outcome, Held, Runs
  <2>2. ~shutting_down /\ shutting_down'
    BY <1>4 DEF ShutdownLists, IndInv, StateOK, ShutdownInv
  <2>3. Abstract!Close
    BY <2>1, <2>2, OutcomeStays DEF Abstract!Close
  <2> QED
    BY <2>3 DEF Abstract!Next
<1>5. CASE ShutdownStep
  BY <1>4, <1>5, OtherStepsStutter DEF ShutdownStep, ShutdownWorker, ShutdownReturns
<1>6. CASE UNCHANGED vars
  BY <1>6, OtherStepsStutter DEF vars
<1> QED
  BY <1>3, <1>5, <1>6, RunStepRefines DEF Next

\* Every behaviour of the pool is one of TaskPool: whatever workers, timeouts
\* and the destructor do, an accepted task is executed exactly once.
THEOREM PoolImplementsTaskPool == Spec => ImplementsTaskPool
<1>1. Init => Abstract!Init
  BY DEF Init, Abstract!Init, taskStateBar, Outcome
<1>2. IndInv /\ [Next]_vars => [Abstract!Next]_(Abstract!vars)
  BY NextRefines
<1> QED
  BY <1>1, <1>2, IndInvHolds, PTL DEF Spec, ImplementsTaskPool, Abstract!Spec

=============================================================================
