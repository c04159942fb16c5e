---------------------------- MODULE MCHealthCheck ----------------------------
(***************************************************************************)
(* A node with one address, which a ticker and an administrator may check  *)
(* at the same time.                                                       *)
(***************************************************************************)
EXTENDS HealthCheck

CONSTANTS a1

MCAddrs == {a1}
==============================================================================
