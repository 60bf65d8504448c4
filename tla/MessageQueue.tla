---------------------------- MODULE MessageQueue ----------------------------
(***************************************************************************)
(* The linked list of messages of runtime/vm/message.cc as a sequence.     *)
(* A message is a record; only whether it is an event for a port or an     *)
(* isolate library control message (destination kIllegalPort) matters      *)
(* here.                                                                   *)
(***************************************************************************)
EXTENDS Naturals, Sequences

\* dest_port() == Message::kIllegalPort
IsControl(msg) == msg.kind # "event"

\* How many control messages head the queue.
LeadingControls(q) ==
  CHOOSE n \in 0..Len(q) :
    /\ \A i \in 1..n : IsControl(q[i])
    /\ n < Len(q) => ~IsControl(q[n + 1])

\* Mutant: the list is a stack.
EnqueueAsStack(q, msg, before_events) == <<msg>> \o q

\* MessageQueue::Enqueue: at the tail, or after the leading control messages.
Enqueue(q, msg, before_events) ==
  IF before_events
  THEN LET n == LeadingControls(q)
       IN  SubSeq(q, 1, n) \o <<msg>> \o SubSeq(q, n + 1, Len(q))
  ELSE Append(q, msg)

=============================================================================
