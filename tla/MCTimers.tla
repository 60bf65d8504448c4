------------------------------ MODULE MCTimers ------------------------------
(* Instances of Timers.                                                      *)
EXTENDS Timers

\* Zero timers, from a negative duration, and timers of the heap of which
\* a later one can expire earlier.
MixedRequests == {<<-1, TRUE>>, <<1, TRUE>>, <<2, FALSE>>}
=============================================================================
