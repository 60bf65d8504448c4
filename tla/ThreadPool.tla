----------------------------- MODULE ThreadPool -----------------------------
(***************************************************************************)
(* The VM's thread pool (runtime/vm/thread_pool.cc).  Run() hands a task   *)
(* to an idle worker or to a new one; a worker runs its task, links itself *)
(* into the idle list and waits on its own monitor for the next task, for  *)
(* a timeout or for the pool to shut down; the destructor shuts the pool   *)
(* down and deletes it while workers may still be running their task.      *)
(*                                                                         *)
(* Locks.  Every section under ThreadPool::mutex_ is one action, because   *)
(* mutex_ is a leaf lock.  A section under a worker's monitor_ is one      *)
(* action too: from Enter() to Wait(), or to Exit(), it contains at most   *)
(* one mutex_ section.  Run() gives the mutex up before it calls SetTask() *)
(* and StartThread(), Shutdown() before it calls Worker::Shutdown(): those *)
(* are steps of their own and anything may happen in between.              *)
(*                                                                         *)
(* Data.  The lists all_workers_ and idle_workers_ are sets: the code      *)
(* takes the head of the idle list, the model any member.  owned_ is       *)
(* membership in all_workers_.  A Run() call is named by its task, since   *)
(* each caller allocates a new one; callers are other threads, or the      *)
(* pool's own while they run a task.                                       *)
(***************************************************************************)
EXTENDS Naturals, FiniteSets

CONSTANTS
  Tasks,       \* the tasks that callers hand to Run()
  Workers,     \* the Worker objects that can be allocated
  NoTask,      \* the NULL task
  UseTimeout   \* is FLAG_worker_timeout_millis positive?

ASSUME ThreadPoolAssumption ==
  /\ IsFiniteSet(Workers)
  /\ NoTask \notin Tasks
  /\ UseTimeout \in BOOLEAN

VARIABLES
  shutting_down,  \* ThreadPool::shutting_down_
  all_workers,    \* ThreadPool::all_workers_, a set
  idle_workers,   \* ThreadPool::idle_workers_, a set
  count_started,  \* ThreadPool::count_started_
  count_stopped,  \* ThreadPool::count_stopped_
  count_running,  \* ThreadPool::count_running_
  count_idle,     \* ThreadPool::count_idle_
  pool,           \* Worker::pool_ # NULL
  task,           \* Worker::task_
  loop,           \* where the worker's thread is
  current,        \* the local variable task of Worker::Loop()
  notified,       \* has monitor_ been notified since the worker waits?
  call,           \* how far the Run() call of each task has got
  target,         \* the local variable worker of that call
  destructor,     \* how far ~ThreadPool() has got
  saved           \* workers that Shutdown() has not yet told

poolVars   == <<shutting_down, all_workers, idle_workers,
                count_started, count_stopped, count_running, count_idle>>
workerVars == <<pool, task, loop, current, notified>>
callVars   == <<call, target>>
endVars    == <<destructor, saved>>
vars       == <<poolVars, workerVars, callVars, endVars>>

LoopStates == {"unallocated", "allocated", "starting", "running", "waiting",
               "exiting", "deleted"}
CallStates == {"new", "dispatched", "task_set", "returned", "refused"}

Init ==
  /\ shutting_down = FALSE
  /\ all_workers = {} /\ idle_workers = {}
  /\ count_started = 0 /\ count_stopped = 0
  /\ count_running = 0 /\ count_idle = 0
  /\ pool     = [w \in Workers |-> FALSE]
  /\ task     = [w \in Workers |-> NoTask]
  /\ loop     = [w \in Workers |-> "unallocated"]
  /\ current  = [w \in Workers |-> NoTask]
  /\ notified = [w \in Workers |-> FALSE]
  /\ call     = [t \in Tasks |-> "new"]
  /\ target   = [t \in Tasks |-> {}]
  /\ destructor = "not_called"
  /\ saved = {}

-----------------------------------------------------------------------------
(* ThreadPool::Run(task)                                                   *)

\* shutting_down_: Run() returns at once.  The pool's memory is only there
\* to be asked until the destructor returns.
RunRefused(t) ==
  /\ call[t] = "new" /\ shutting_down /\ destructor # "returned"
  /\ call' = [call EXCEPT ![t] = "refused"]
  /\ UNCHANGED <<poolVars, workerVars, target, endVars>>

\* idle_workers_ == NULL: a new Worker, linked into all_workers_.
RunNewWorker(t, w) ==
  /\ call[t] = "new" /\ ~shutting_down
  /\ idle_workers = {}
  /\ loop[w] = "unallocated"
  /\ loop' = [loop EXCEPT ![w] = "allocated"]
  /\ pool' = [pool EXCEPT ![w] = TRUE]
  /\ all_workers' = all_workers \union {w}
  /\ count_started' = count_started + 1
  /\ count_running' = count_running + 1
  /\ call' = [call EXCEPT ![t] = "dispatched"]
  /\ target' = [target EXCEPT ![t] = {w}]
  /\ UNCHANGED <<shutting_down, idle_workers, count_stopped, count_idle,
                 task, current, notified, endVars>>

\* A worker is taken off the idle list.
RunIdleWorker(t, w) ==
  /\ call[t] = "new" /\ ~shutting_down
  /\ w \in idle_workers
  /\ idle_workers' = idle_workers \ {w}
  /\ count_idle' = count_idle - 1
  /\ count_running' = count_running + 1
  /\ call' = [call EXCEPT ![t] = "dispatched"]
  /\ target' = [target EXCEPT ![t] = {w}]
  /\ UNCHANGED <<shutting_down, all_workers, count_started, count_stopped,
                 workerVars, endVars>>

\* Mutant: SetTask() without the Notify().
SetTaskSilently(t, w) ==
  /\ call[t] = "dispatched" /\ target[t] = {w}
  /\ task' = [task EXCEPT ![w] = t]
  /\ call' = [call EXCEPT
                ![t] = IF loop[w] = "allocated" THEN "task_set" ELSE "returned"]
  /\ UNCHANGED <<poolVars, pool, loop, current, notified, target, endVars>>

\* worker->SetTask(task).  A worker that is not new needs no StartThread().
SetTask(t, w) ==
  /\ call[t] = "dispatched" /\ target[t] = {w}
  /\ task' = [task EXCEPT ![w] = t]
  /\ notified' = [notified EXCEPT ![w] = (loop[w] = "waiting")]
  /\ call' = [call EXCEPT
                ![t] = IF loop[w] = "allocated" THEN "task_set" ELSE "returned"]
  /\ UNCHANGED <<poolVars, pool, loop, current, target, endVars>>

\* worker->StartThread()
StartThread(t, w) ==
  /\ call[t] = "task_set" /\ target[t] = {w}
  /\ loop' = [loop EXCEPT ![w] = "starting"]
  /\ call' = [call EXCEPT ![t] = "returned"]
  /\ UNCHANGED <<poolVars, pool, task, current, notified, target, endVars>>

-----------------------------------------------------------------------------
(* Worker::Loop() and Worker::Main()                                       *)

\* Mutant: task_ is not cleared.
TakeTaskAgain(w) ==
  /\ current' = [current EXCEPT ![w] = task[w]]
  /\ loop' = [loop EXCEPT ![w] = "running"]
  /\ UNCHANGED <<poolVars, pool, task>>

\* The top of the loop: take task_, clear it, release monitor_, task->Run().
TakeTask(w) ==
  /\ current' = [current EXCEPT ![w] = task[w]]
  /\ task' = [task EXCEPT ![w] = NoTask]
  /\ loop' = [loop EXCEPT ![w] = "running"]
  /\ UNCHANGED <<poolVars, pool>>

EnterLoop(w) ==
  /\ loop[w] = "starting"
  /\ TakeTask(w)
  /\ UNCHANGED <<notified, callVars, endVars>>

\* Mutant: SetIdle() without the test of shutting_down_.
SetIdleAlways(w) ==
  /\ idle_workers' = idle_workers \union {w}
  /\ count_idle' = count_idle + 1
  /\ count_running' = count_running - 1
  /\ UNCHANGED <<shutting_down, all_workers, count_started, count_stopped>>

\* ThreadPool::SetIdle(worker)
SetIdle(w) ==
  \/ /\ shutting_down
     /\ UNCHANGED poolVars
  \/ /\ ~shutting_down
     /\ idle_workers' = idle_workers \union {w}
     /\ count_idle' = count_idle + 1
     /\ count_running' = count_running - 1
     /\ UNCHANGED <<shutting_down, all_workers, count_started, count_stopped>>

\* task->Run() returns, the task is deleted, monitor_ is entered again.
\* IsDone(): the worker leaves; else SetIdle() and Wait().
FinishTask(w) ==
  /\ loop[w] = "running"
  /\ current' = [current EXCEPT ![w] = NoTask]
  /\ \/ /\ ~pool[w]
        /\ loop' = [loop EXCEPT ![w] = "exiting"]
        /\ UNCHANGED <<poolVars, notified>>
     \/ /\ pool[w]
        /\ SetIdle(w)
        /\ loop' = [loop EXCEPT ![w] = "waiting"]
        /\ notified' = [notified EXCEPT ![w] = FALSE]
  /\ UNCHANGED <<pool, task, callVars, endVars>>

\* Mutant: a timed-out worker is released though Run() has taken it off the
\* idle list: the result of RemoveWorkerFromIdleList() is not looked at.
ReleaseAnyWorker(w) ==
  /\ ~shutting_down
  /\ idle_workers' = idle_workers \ {w}
  /\ all_workers' = all_workers \ {w}
  /\ pool' = [pool EXCEPT ![w] = FALSE]
  /\ count_stopped' = count_stopped + 1
  /\ count_idle' = count_idle - (IF w \in idle_workers THEN 1 ELSE 0)
  /\ UNCHANGED <<shutting_down, count_started, count_running>>

\* ThreadPool::ReleaseIdleWorker(worker) returns true.  Of the two exits of
\* RemoveWorkerFromAllList() only the one for the list's head clears pool_:
\* either may be taken, as the place in the list is not modelled.
ReleaseIdleWorker(w) ==
  /\ ~shutting_down
  /\ w \in idle_workers
  /\ idle_workers' = idle_workers \ {w}
  /\ all_workers' = all_workers \ {w}
  /\ pool' \in {pool, [pool EXCEPT ![w] = FALSE]}
  /\ count_stopped' = count_stopped + 1
  /\ count_idle' = count_idle - 1
  /\ UNCHANGED <<shutting_down, count_started, count_running>>

CannotRelease(w) == shutting_down \/ w \notin idle_workers

\* Monitor::Wait() returns because of a Notify(), a timeout, or neither.
WakeReasons == {"notified", "timed_out", "spurious"}

\* One turn of the inner loop: found a task; done; released after a timeout;
\* or wait again.
Wake(w, reason) ==
  /\ loop[w] = "waiting"
  /\ reason = "notified" => notified[w]
  /\ reason = "timed_out" => UseTimeout
  /\ notified' = [notified EXCEPT ![w] = FALSE]
  /\ \/ /\ task[w] # NoTask
        /\ TakeTask(w)
     \/ /\ task[w] = NoTask /\ ~pool[w]
        /\ loop' = [loop EXCEPT ![w] = "exiting"]
        /\ UNCHANGED <<poolVars, pool, task, current>>
     \/ /\ task[w] = NoTask /\ pool[w]
        /\ reason = "timed_out" /\ ReleaseIdleWorker(w)
        /\ loop' = [loop EXCEPT ![w] = "exiting"]
        /\ UNCHANGED <<task, current>>
     \/ /\ task[w] = NoTask /\ pool[w]
        /\ reason = "timed_out" => CannotRelease(w)
        /\ UNCHANGED <<poolVars, pool, task, loop, current>>
  /\ UNCHANGED <<callVars, endVars>>

\* The end of Worker::Main(): delete worker.
DeleteWorker(w) ==
  /\ loop[w] = "exiting"
  /\ loop' = [loop EXCEPT ![w] = "deleted"]
  /\ UNCHANGED <<poolVars, pool, task, current, notified, callVars, endVars>>

-----------------------------------------------------------------------------
(* ThreadPool::~ThreadPool(), which is Shutdown()                          *)

\* The section under mutex_.  The environment does not destroy the pool while a Run()
\* call that got past the shutting_down_ test is still inside: Dart::Cleanup() does not
\* destroy it at all, and thread_pool_test.cc does so when its Run() calls have returned.
ShutdownLists ==
  /\ destructor = "not_called"
  /\ \A t \in Tasks : call[t] \notin {"dispatched", "task_set"}
  /\ destructor' = "telling_workers"
  /\ shutting_down' = TRUE
  /\ saved' = all_workers
  /\ all_workers' = {}
  /\ idle_workers' = {}
  /\ count_stopped' = count_stopped + Cardinality(all_workers)
  /\ count_idle' = 0
  /\ count_running' = 0
  /\ UNCHANGED <<count_started, workerVars, callVars>>

\* Mutant: Worker::Shutdown() without the Notify().
ShutdownWorkerSilently(w) ==
  /\ destructor = "telling_workers" /\ w \in saved
  /\ saved' = saved \ {w}
  /\ pool' = [pool EXCEPT ![w] = FALSE]
  /\ UNCHANGED <<poolVars, task, loop, current, notified, callVars, destructor>>

\* Mutant: the destructor does not tell a worker that is running a task.
ShutdownIdleWorkerOnly(w) ==
  /\ destructor = "telling_workers" /\ w \in saved
  /\ saved' = saved \ {w}
  /\ pool' = [pool EXCEPT ![w] = (loop[w] # "waiting")]
  /\ notified' = [notified EXCEPT ![w] = (loop[w] = "waiting")]
  /\ UNCHANGED <<poolVars, task, loop, current, callVars, destructor>>

\* Worker::Shutdown() for one of the saved workers.
ShutdownWorker(w) ==
  /\ destructor = "telling_workers" /\ w \in saved
  /\ saved' = saved \ {w}
  /\ pool' = [pool EXCEPT ![w] = FALSE]
  /\ notified' = [notified EXCEPT ![w] = (loop[w] = "waiting")]
  /\ UNCHANGED <<poolVars, task, loop, current, callVars, destructor>>

ShutdownReturns ==
  /\ destructor = "telling_workers" /\ saved = {}
  /\ destructor' = "returned"
  /\ UNCHANGED <<poolVars, workerVars, callVars, saved>>

-----------------------------------------------------------------------------

RunStep(t) ==
  \/ RunRefused(t)
  \/ \E w \in Workers :
       RunNewWorker(t, w) \/ RunIdleWorker(t, w) \/ SetTask(t, w) \/ StartThread(t, w)

WorkerStep(w) ==
  \/ EnterLoop(w)
  \/ FinishTask(w)
  \/ \E reason \in WakeReasons : Wake(w, reason)
  \/ DeleteWorker(w)

ShutdownStep ==
  \/ ShutdownLists
  \/ \E w \in Workers : ShutdownWorker(w)
  \/ ShutdownReturns

Next ==
  \/ \E t \in Tasks : RunStep(t)
  \/ \E w \in Workers : WorkerStep(w)
  \/ ShutdownStep

Spec == Init /\ [][Next]_vars

-----------------------------------------------------------------------------
(* Safety                                                                  *)

\* Every variable has its type; the counters never leave uint64_t downwards.
TypeOK ==
  /\ shutting_down \in BOOLEAN
  /\ all_workers \in SUBSET Workers
  /\ idle_workers \in SUBSET Workers
  /\ count_started \in Nat /\ count_stopped \in Nat
  /\ count_running \in Nat /\ count_idle \in Nat
  /\ pool \in [Workers -> BOOLEAN]
  /\ task \in [Workers -> Tasks \union {NoTask}]
  /\ loop \in [Workers -> LoopStates]
  /\ current \in [Workers -> Tasks \union {NoTask}]
  /\ notified \in [Workers -> BOOLEAN]
  /\ call \in [Tasks -> CallStates]
  /\ target \in [Tasks -> SUBSET Workers]
  /\ destructor \in {"not_called", "telling_workers", "returned"}
  /\ saved \in SUBSET Workers

\* The statistics agree with the lists at every release of mutex_, and
\* Shutdown()'s ASSERT(count_started_ == count_stopped_) holds: the pool never
\* loses count of a worker, though workers come, idle, time out and are shut
\* down in any order.
WorkerAccounting ==
  /\ idle_workers \subseteq all_workers
  /\ count_idle = Cardinality(idle_workers)
  /\ count_running = Cardinality(all_workers \ idle_workers)
  /\ count_started = count_stopped + Cardinality(all_workers)

\* A worker whose thread has left Loop(), and so deletes itself, is in neither
\* list, is not about to be told to shut down, and is not the worker that a
\* Run() call is about to give a task: the assertion of Worker::Main(), and
\* that neither Run() nor Shutdown() uses a deleted Worker.
NoDanglingWorker ==
  \A w \in Workers : loop[w] \in {"exiting", "deleted"} =>
    /\ w \notin all_workers \union idle_workers \union saved
    /\ task[w] = NoTask
    /\ \A t \in Tasks : call[t] \in {"dispatched", "task_set"} => target[t] # {w}

\* Once the destructor has returned no worker can reach the pool any more,
\* though workers still run their tasks: pool_ is NULL in every worker that
\* may look at it.
PoolOutlivesWorkers ==
  destructor = "returned" =>
    \A w \in Workers : pool[w] => loop[w] \in {"exiting", "deleted"}

\* Nobody uses what is deleted: neither Run() and Shutdown() a Worker whose thread is
\* about to delete it, nor a worker the pool whose destructor has returned.
NoUseAfterFree == NoDanglingWorker /\ PoolOutlivesWorkers

\* Two Run() calls never hold the same worker, and SetTask()'s assertion that
\* task_ is NULL holds whenever it is called.
TargetIsFree ==
  \A t \in Tasks, w \in Workers : call[t] = "dispatched" /\ target[t] = {w} =>
    /\ task[w] = NoTask
    /\ \A u \in Tasks \ {t} : call[u] \in {"dispatched", "task_set"} => target[u] # {w}

-----------------------------------------------------------------------------
(* Refinement: the pool is a TaskPool.                                     *)

Held(t) == \E w \in Workers : task[w] = t
Runs(t) == \E w \in Workers : current[w] = t

Outcome(t) ==
  IF call[t] \in {"new", "refused"} THEN call[t]
  ELSE IF Runs(t) THEN "running"
  ELSE IF call[t] # "returned" \/ Held(t) THEN "accepted" ELSE "executed"

taskStateBar == [t \in Tasks |-> Outcome(t)]

Abstract == INSTANCE TaskPool WITH open <- ~shutting_down, taskState <- taskStateBar

\* The pool does what TaskPool promises: a task that Run() accepts is executed
\* exactly once, whatever the timeouts and the destructor do meanwhile; a task
\* that it refuses never is.
ImplementsTaskPool == Abstract!Spec

-----------------------------------------------------------------------------
(* Liveness.  Threads that hold a lock or can run do run, tasks return, and *)
(* a notified waiter wakes up.  Nobody is obliged to call Run() or to       *)
(* destroy the pool, and no spurious wakeup is ever owed.                   *)

Fairness ==
  /\ \A t \in Tasks, w \in Workers :
       WF_vars(SetTask(t, w)) /\ WF_vars(StartThread(t, w))
  /\ \A w \in Workers :
       /\ WF_vars(EnterLoop(w)) /\ WF_vars(FinishTask(w)) /\ WF_vars(DeleteWorker(w))
       /\ WF_vars(Wake(w, "notified"))
       /\ WF_vars(ShutdownWorker(w))
  /\ WF_vars(ShutdownReturns)

LiveSpec == Spec /\ Fairness

\* A task that Run() accepts is executed in the end, without the help of
\* timeouts or spurious wakeups: no Notify() is lost between a worker's
\* SetIdle() and its Wait().
AcceptedTaskIsExecuted ==
  \A t \in Tasks : call[t] = "dispatched" ~> taskStateBar[t] = "executed"

\* "Causes workers to terminate themselves when they are active again": once
\* the pool is being destroyed every worker, idle or running, ends.
ShutdownEndsWorkers ==
  shutting_down ~> \A w \in Workers : loop[w] \in {"unallocated", "deleted"}

=============================================================================
