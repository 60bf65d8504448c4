---------------------- MODULE MCIsolateMessageHandler ----------------------
(* Instances of IsolateMessageHandler: the messages that others may post.    *)
EXTENDS IsolateMessageHandler

CONSTANTS p1, c1, l1

M(kind, arg, prio, auth) == [kind |-> kind, arg |-> arg, prio |-> prio, auth |-> auth]

Event   == M("event", p1, "immediate", TRUE)
Kill    == M("kill", "none", "immediate", TRUE)
Release == M("service_resume", "none", "immediate", TRUE)

\* Pauses, pings and kills of every priority, with and without capability; the
\* second resume is for an isolate that was spawned paused.
ControlMessages ==
  {Event, Kill,
   M("pause", c1, "immediate", TRUE), M("resume", c1, "immediate", TRUE),
   M("resume", PauseCap, "immediate", TRUE), M("resume", c1, "immediate", FALSE),
   M("ping", "none", "before_next_event", TRUE), M("ping", "none", "as_event", TRUE),
   M("kill", "none", "before_next_event", TRUE), M("kill", "none", "immediate", FALSE)}

\* Listeners, pauses, kills, and the service's release of an isolate that is paused on
\* start or exit.
ExitMessages ==
  {Event, Kill, Release, M("pause", c1, "immediate", TRUE), M("resume", c1, "immediate", TRUE),
   M("add_exit", l1, "immediate", TRUE), M("del_exit", l1, "immediate", TRUE),
   M("add_error", l1, "immediate", TRUE), M("del_error", l1, "immediate", TRUE),
   M("errors_fatal", "false", "immediate", TRUE), M("errors_fatal", "true", "immediate", FALSE)}

AllMessages == ControlMessages \union ExitMessages

\* What the others send: a behaviour has one of the two kinds of messages.  The
\* service's holds at start and exit go with the second.
VARIABLE others

MCInit ==
  /\ Init
  /\ others \in {ControlMessages, ExitMessages}
  /\ others = ControlMessages => ~pause_on_start /\ ~pause_on_exit

MCNext ==
  /\ \/ Run
     \/ \E c \in others : PostMessage(c)
     \/ \E t \in Threads : LoopStep(t) \/ DartStep(t) \/ ExitStep(t)
  /\ UNCHANGED others

MCSpec == MCInit /\ [][MCNext]_<<vars, others>> /\ Fairness

=============================================================================
