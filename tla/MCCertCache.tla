---------------------------- MODULE MCCertCache ----------------------------
(***************************************************************************)
(* Instances of CertCache for TLC.                                         *)
(***************************************************************************)
EXTENDS CertCache, TLC

Symmetry == Permutations(Conns) \cup Permutations(Hosts) \cup Permutations(Certs)
=============================================================================
