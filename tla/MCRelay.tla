------------------------------- MODULE MCRelay ------------------------------
(***************************************************************************)
(* The instance of Relay for TLC: three bytes in each direction, of which  *)
(* the first Read may take one or two, so that there may be some before it, *)
(* behind it and in the copies.                                            *)
(***************************************************************************)
EXTENDS Relay
=============================================================================
