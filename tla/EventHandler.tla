---------------------------- MODULE EventHandler ----------------------------
(***************************************************************************)
(* The timer side of the I/O event handler: the pipe through which isolates *)
(* talk to it, its TimeoutQueue and its timerfd, runtime/bin/eventhandler.cc *)
(* and eventhandler_linux.cc.  One thread runs Poll(); isolates only write  *)
(* to the pipe, which is atomic for messages of this size.                  *)
(*                                                                         *)
(* A module that extends this one says what posting to a port does.         *)
(***************************************************************************)
EXTENDS Integers, Sequences, SequencesExt

CONSTANTS
  NoTime,        \* no time: a disarmed timerfd, no wakeup that is asked for
  PipeCapacity   \* messages the pipe holds: 64 KB in Linux

VARIABLES
  pipe,          \* interrupt_fds_: messages <<port, time>> with the id kTimerId
  timeouts_,     \* the list of the TimeoutQueue: pairs <<port, time>>
  timer_fd_      \* when the timerfd expires

eventVars == <<pipe, timeouts_, timer_fd_>>

NO_TIMER == -1       \* the time that cancels a timeout

EventInit == pipe = <<>> /\ timeouts_ = <<>> /\ timer_fd_ = NoTime

\* EventHandlerImplementation::WakeupHandler() with the id kTimerId; the write
\* waits for room.
SendData(p, time) == Len(pipe) < PipeCapacity /\ pipe' = Append(pipe, <<p, time>>)

\* TimeoutQueue::next_timeout_: of equal times the one nearest to the front.
NextTimeout(q) ==
  CHOOSE i \in DOMAIN q : \A j \in DOMAIN q : q[i][2] < q[j][2] \/ (q[i][2] = q[j][2] /\ i <= j)

\* TimeoutQueue::UpdateTimeout()
UpdateTimeout(q, p, time) ==
  LET found == \E i \in DOMAIN q : q[i][1] = p
      i     == CHOOSE j \in DOMAIN q : q[j][1] = p
  IN
  CASE found /\ time < 0    -> RemoveAt(q, i)
    [] found /\ time >= 0   -> [q EXCEPT ![i] = <<p, time>>]
    [] ~found /\ time < 0   -> q
    [] ~found /\ time >= 0  -> <<<<p, time>>>> \o q

\* timerfd_settime() for the next timeout, or to disarm.
TimerFdFor(q) == IF q = <<>> THEN NoTime ELSE q[NextTimeout(q)][2]

\* Mutant: a timerfd that is armed is left as it is.
HandleInterruptKeepsFd ==
  LET q == UpdateTimeout(timeouts_, pipe[1][1], pipe[1][2]) IN
  /\ pipe # <<>>
  /\ pipe' = Tail(pipe)
  /\ timeouts_' = q
  /\ timer_fd_' = IF timer_fd_ # NoTime /\ q # <<>> THEN timer_fd_ ELSE TimerFdFor(q)

\* One message of HandleInterruptFd().
HandleInterruptFd ==
  LET q == UpdateTimeout(timeouts_, pipe[1][1], pipe[1][2]) IN
  /\ pipe # <<>>
  /\ pipe' = Tail(pipe)
  /\ timeouts_' = q
  /\ timer_fd_' = TimerFdFor(q)

\* The timerfd became readable: HandleEvents() reads it, which leaves it disarmed,
\* posts to CurrentPort() and calls RemoveCurrent().  It is not set for the
\* timeouts that remain: only the next message of the pipe does that.
TimerFdExpired(now) == timer_fd_ # NoTime /\ timer_fd_ <= now

CurrentPort == timeouts_[NextTimeout(timeouts_)][1]

RemoveCurrent ==
  /\ timeouts_' = UpdateTimeout(timeouts_, CurrentPort, NO_TIMER)
  /\ timer_fd_' = NoTime
  /\ UNCHANGED pipe
=============================================================================
