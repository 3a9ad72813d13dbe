------------------------------ MODULE MCServers -----------------------------
(***************************************************************************)
(* Two connections, and configurations that differ in one respect.  A      *)
(* queue of one connection is full as soon as two clients speak HTTP; with *)
(* a route and a jump route the second of two listeners can fail to start. *)
(***************************************************************************)
EXTENDS Servers, TLC

Route == [context |-> "x", namespace |-> "n", service |-> "s", pod |-> "",
          port |-> 80]

Jump == [context |-> "x", namespace |-> "n", service |-> "", pod |-> "p",
         create |-> "image", host |-> "ip6", port |-> 3306, method |-> ""]

Base == [version |-> TRUE, addr |-> "port", listen |-> 1, httpIdle |-> 1,
         tcpIdle |-> 0, http |-> {Route}, routes |-> 2 :> Route,
         jump |-> 3 :> Jump]

ViaService == [Base EXCEPT !.routes = <<>>, !.jump[3].pod = "",
                           !.jump[3].service = "s", !.jump[3].create = "none"]

\* Nothing asks for a port in http.listen if there are no TCP routes.
HTTPOnly == [Base EXCEPT !.addr = "noport", !.listen = None,
                         !.routes = <<>>, !.jump = <<>>]

\* Configurations with a single mistake.
Mistakes ==
    {[Base EXCEPT !.version = FALSE],
     [Base EXCEPT !.addr = ""],
     [Base EXCEPT !.addr = "noport", !.listen = None],
     [Base EXCEPT !.httpIdle = 0],
     [Base EXCEPT !.tcpIdle = -1],
     [Base EXCEPT !.http = {[Route EXCEPT !.pod = "p"]}],
     [Base EXCEPT !.listen = 2],
     [Base EXCEPT !.jump = 2 :> Jump],
     [Base EXCEPT !.routes = 70000 :> Route],
     [Base EXCEPT !.routes[2].port = 0],
     [Base EXCEPT !.jump[3].pod = ""],
     [Base EXCEPT !.jump[3].service = "s"],
     [Base EXCEPT !.jump[3].pod = "", !.jump[3].service = "s"],
     [Base EXCEPT !.jump[3].create = "bad"],
     [Base EXCEPT !.jump[3].host = "bad"],
     [Base EXCEPT !.jump[3].method = "nc"]}

MCConfigs == {Base, ViaService, HTTPOnly} \cup Mistakes
=============================================================================
