------------------------------ MODULE MCTunnel ------------------------------
(***************************************************************************)
(* The instance of Tunnel for TLC: two connections that are handed one     *)
(* tunnel, one of which is an HTTP request, whose panics are recovered.    *)
(***************************************************************************)
EXTENDS Tunnel
=============================================================================
