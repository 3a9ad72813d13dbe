---------------------------- MODULE MCTunnelMgr ----------------------------
(***************************************************************************)
(* Instances of TunnelMgr for TLC.                                         *)
(***************************************************************************)
EXTENDS TunnelMgr, TLC

CONSTANTS h1, r1    \* an HTTP request, its second attempt

MCFirst == (r1 :> h1)
\* No HTTP request at all.
NoFirst == <<>>

\* Tunnel objects are created in any order, and TLS connections are alike.
Symmetry == Permutations(Tunnels) \cup Permutations(TLS)
=============================================================================
