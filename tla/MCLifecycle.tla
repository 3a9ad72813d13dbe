---------------------------- MODULE MCLifecycle ----------------------------
(***************************************************************************)
(* Instances of Lifecycle for TLC: two configurations, one of which turns  *)
(* the reloading off, and a file that is not a configuration.              *)
(***************************************************************************)
EXTENDS Lifecycle
=============================================================================
