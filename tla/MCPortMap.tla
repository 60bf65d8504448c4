------------------------------ MODULE MCPortMap ------------------------------
(* Instances of PortMap.  Port numbers are chosen so that they collide.      *)
EXTENDS PortMap, TLC

\* They hash to 1, 1, 3, 3 and 0 in four slots, and the table grows to eight.
CollidingPorts == {1, 5, 3, 7, 8}
=============================================================================
