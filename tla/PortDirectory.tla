---------------------------- MODULE PortDirectory ----------------------------
(***************************************************************************)
(* What PortMap promises: a directory of open ports.  A lookup answers     *)
(* owner[p]: the handler that owns the port at that moment, or nobody.     *)
(***************************************************************************)
CONSTANTS Ports, Handlers, NoHandler

VARIABLES
  owner,     \* the handler of each open port, NoHandler if the port is closed
  portState, \* "new", "live" or "control"; "new" if the port is closed
  deleted    \* the handlers that were deleted

vars == <<owner, portState, deleted>>

Init ==
  /\ owner = [p \in Ports |-> NoHandler]
  /\ portState = [p \in Ports |-> "new"]
  /\ deleted = {}

Create(p, h) ==
  /\ owner[p] = NoHandler /\ h \notin deleted
  /\ owner' = [owner EXCEPT ![p] = h]
  /\ UNCHANGED <<portState, deleted>>

SetState(p, s) ==
  /\ owner[p] # NoHandler /\ portState[p] = "new"
  /\ portState' = [portState EXCEPT ![p] = s]
  /\ UNCHANGED <<owner, deleted>>

\* The ports P of one handler are closed, which may be the end of the handler.
Close(P, h) ==
  /\ P # {} /\ \A p \in P : owner[p] = h
  /\ owner' = [p \in Ports |-> IF p \in P THEN NoHandler ELSE owner[p]]
  /\ portState' = [p \in Ports |-> IF p \in P THEN "new" ELSE portState[p]]
  /\ deleted' \in {deleted, deleted \union {h}}
  /\ \A p \in Ports : owner'[p] \notin deleted'

Next ==
  \/ \E p \in Ports, h \in Handlers : Create(p, h)
  \/ \E p \in Ports, s \in {"live", "control"} : SetState(p, s)
  \/ \E p \in Ports : owner[p] # NoHandler /\ Close({p}, owner[p])
  \/ \E h \in Handlers : Close({p \in Ports : owner[p] = h}, h)

Spec == Init /\ [][Next]_vars
=============================================================================
