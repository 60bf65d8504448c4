------------------------------ MODULE TaskPool ------------------------------
(***************************************************************************)
(* What a ThreadPool promises to the code that hands it tasks, with no     *)
(* worker, list or monitor in sight: a task that Run() accepts is executed *)
(* once and only once; a task handed in after the pool began to shut down  *)
(* is refused and never executed.  ThreadPool implements this module.      *)
(***************************************************************************)

CONSTANT Tasks

VARIABLES
  open,     \* has the pool not begun to shut down?
  taskState \* what has become of each task

vars == <<open, taskState>>

States == {"new", "accepted", "running", "executed", "refused"}

Init ==
  /\ open = TRUE
  /\ taskState = [t \in Tasks |-> "new"]

Move(t, from, to) ==
  /\ taskState[t] = from
  /\ taskState' = [taskState EXCEPT ![t] = to]

Accept(t) == open /\ Move(t, "new", "accepted") /\ UNCHANGED open
Refuse(t) == ~open /\ Move(t, "new", "refused") /\ UNCHANGED open
Start(t)  == Move(t, "accepted", "running") /\ UNCHANGED open
Finish(t) == Move(t, "running", "executed") /\ UNCHANGED open
Close     == open /\ open' = FALSE /\ UNCHANGED taskState

Next ==
  \/ \E t \in Tasks : Accept(t) \/ Refuse(t) \/ Start(t) \/ Finish(t)
  \/ Close

Spec == Init /\ [][Next]_vars

=============================================================================
