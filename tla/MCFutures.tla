----------------------------- MODULE MCFutures -----------------------------
(* Instances of Futures.                                                     *)
EXTENDS Futures

AllKinds == {"then", "thenOnError", "catchError", "catchErrorTest", "whenComplete", "timeout"}
=============================================================================
