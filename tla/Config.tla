-------------------------------- MODULE Config ------------------------------
(***************************************************************************)
(* What Config.Validate accepts (internal/config/validate.go).  A          *)
(* configuration is a record:                                              *)
(*   version            apiVersion is empty or the current one             *)
(*   addr, listen       http.listen ("", "noport" or "port") and its port  *)
(*   httpIdle, tcpIdle  idle timeouts                                      *)
(*   http               the routes of http.k8s.routes, a set               *)
(*   routes, jump       tcp.k8s.routes and tcp.k8s.jump, by local port     *)
(* A string is "" or a representative of the strings treated alike: a host *)
(* is "name", "ip6" or "bad", an image "image" or "bad".                   *)
(***************************************************************************)
EXTENDS Integers

ValidPort(p) == p \in 1 .. 65535

ValidRouteBase(r) ==
    /\ r.context # "" /\ r.namespace # ""
    /\ r.service = "" <=> r.pod # ""
    /\ ValidPort(r.port)

IsValidTargetHost(h) == h \in {"name", "ip6"}

IsValidImageName(i) == i = "image"

\* create is "none" (via.create is absent) or the image of via.create.
ValidVia(j) ==
    /\ j.pod = "" <=> j.service # ""
    /\ j.create # "none" => j.service = "" /\ IsValidImageName(j.create)

ValidJump(j) ==
    /\ j.context # "" /\ j.namespace # ""
    /\ ValidVia(j)
    /\ IsValidTargetHost(j.host) /\ ValidPort(j.port)
    /\ j.method \in {"", "socat"}

\* Mutant: http.listen is not compared with the TCP ports.
ValidLocalPortsTCP(c) ==
    \A l \in DOMAIN c.routes \cup DOMAIN c.jump :
        ValidPort(l) /\ l \notin DOMAIN c.routes \cap DOMAIN c.jump

\* A map has a port once, so only the two maps and http.listen can collide.
ValidLocalPorts(c) ==
    \A l \in DOMAIN c.routes \cup DOMAIN c.jump :
        /\ ValidPort(l)
        /\ l # c.listen
        /\ l \notin DOMAIN c.routes \cap DOMAIN c.jump

\* Nothing is asked of tcp, nor of the form of http.listen, if there is no
\* TCP route: a wrong address is then found when the server listens.
ValidTCP(c) ==
    \/ DOMAIN c.routes = {} /\ DOMAIN c.jump = {}
    \/ /\ c.tcpIdle >= 0
       /\ c.addr # "noport"
       /\ ValidLocalPorts(c)
       /\ \A l \in DOMAIN c.routes : ValidRouteBase(c.routes[l])
       /\ \A l \in DOMAIN c.jump : ValidJump(c.jump[l])

Validate(c) ==
    /\ c.version
    /\ c.addr # ""
    /\ c.httpIdle > 0
    /\ \A r \in c.http : ValidRouteBase(r)
    /\ ValidTCP(c)
=============================================================================
