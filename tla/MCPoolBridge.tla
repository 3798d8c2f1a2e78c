---------------------------- MODULE MCPoolBridge -----------------------------
(***************************************************************************)
(* PoolBridge with four nonces, and a pool that sends the upper half of    *)
(* them as its extranonce.                                                 *)
(***************************************************************************)
EXTENDS PoolBridge

MCPrefixes == {[prefix |-> 1, span |-> 2]}

=============================================================================
