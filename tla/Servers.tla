------------------------------- MODULE Servers ------------------------------
(***************************************************************************)
(* One app of main.go: the configuration is validated, the HTTP server is  *)
(* started in a goroutine and the TCP server in main's own, both serve     *)
(* until a signal or a reload, and shutdownApp stops them in this order    *)
(* (the tunnel manager, which comes last, is TunnelMgr).  What follows the *)
(* shutdown, the next app or the end, is Lifecycle.                        *)
(***************************************************************************)
EXTENDS Mux, TCPServer

CONSTANT Configs    \* what the configuration file may say

ASSUME ContextsAssumption ==
    \A c \in Configs : \A l \in DOMAIN c.jump : c.jump[l].context \in Contexts

VARIABLES
    main,     \* where main is
    failed    \* tcpServer.Start has failed

mainVars == <<main, failed>>
vars == <<sockets, muxVars, tcpVars, mainVars>>

Phases == {"load", "start", "run", "http1", "http2", "http3",
           "tcp1", "tcp2", "tcp3", "manager", "down", "exited"}

Goto(from, to) ==
    /\ main = from
    /\ main' = to
    /\ UNCHANGED failed

Init ==
    /\ open = {}
    /\ at = [c \in Conns |-> None]
    /\ conn = [c \in Conns |-> "away"]
    /\ MuxInit /\ TCPInit
    /\ cfg \in Configs
    /\ main = "load" /\ failed = FALSE

-----------------------------------------------------------------------------
\* LoadConfig: a configuration that does not pass ends the process.
Load ==
    /\ Goto("load", "start")
    /\ Validate(cfg)
    /\ http' = "listen"
    /\ UNCHANGED <<sockets, serve, queue, done, muxDone, srvClosed, tcpVars>>

\* log.Fatalf and the end of main: the kernel closes what is open.
Exit ==
    /\ main' = "exited"
    /\ open' = {}
    /\ End(Conns)
    /\ queue' = <<>>
    /\ UNCHANGED <<http, serve, done, muxDone, srvClosed, tcpVars, failed>>

LoadFails == main = "load" /\ ~Validate(cfg) /\ Exit

\* tcpServer.Start, and tcpServer = nil if there is nothing to listen for.
StartTCP(l) ==
    /\ main = "start"
    /\ StartListener(l)
    /\ UNCHANGED <<muxVars, mainVars>>

TCPStarted ==
    /\ Goto("start", "run")
    /\ \A l \in Routes \cup Jumps : loop[l] # "off"
    /\ UNCHANGED <<sockets, muxVars, tcpVars>>

\* The port is in use; Start shuts down what it has started.
StartTCPFails ==
    /\ main = "start"
    /\ \E l \in Ports : NextListener(l)
    /\ main' = "tcp1" /\ failed' = TRUE
    /\ UNCHANGED <<sockets, muxVars, tcpVars>>

\* main's select: a signal or a reload, or the error of httpServer.Start.
Stop ==
    /\ Goto("run", "http1")
    /\ UNCHANGED <<sockets, muxVars, tcpVars>>

ServerError == main = "run" /\ http = "failed" /\ Exit

-----------------------------------------------------------------------------
\* shutdownApp.
ShutdownHTTP ==
    /\ \/ Goto("http1", "http2") /\ CloseDone
       \/ Goto("http2", "http3") /\ CloseMux(cfg.listen)
       \/ Goto("http3", "tcp1") /\ CloseServer
    /\ UNCHANGED tcpVars

\* A Start that failed calls Shutdown itself, before shutdownApp does.
ShutdownTCP ==
    /\ \/ Goto("tcp1", "tcp2") /\ Cancel
       \/ /\ main = "tcp2" /\ UNCHANGED mainVars
          /\ \E l \in Ports : StopListener(l)
       \/ Goto("tcp2", "tcp3") /\ listeners = {} /\ UNCHANGED <<sockets, tcpVars>>
       \/ /\ Goto("tcp3", IF failed /\ ~done THEN "http1" ELSE "manager")
          /\ LoopsEnded
          /\ UNCHANGED <<sockets, tcpVars>>
    /\ UNCHANGED muxVars

\* manager.Shutdown (see TunnelMgr), of which only the client factory matters.
ShutdownManager ==
    /\ Goto("manager", "down")
    /\ Clear
    /\ UNCHANGED muxVars

StartFailed == main = "down" /\ failed /\ Exit

MainStep ==
    \/ Load \/ LoadFails \/ TCPStarted \/ StartTCPFails \/ ServerError
    \/ \E l \in Ports : StartTCP(l)
    \/ ShutdownHTTP \/ ShutdownTCP \/ ShutdownManager \/ StartFailed

Client ==
    /\ main # "exited"
    /\ \E c \in Conns, l \in Ports : Connect(c, l)
    /\ UNCHANGED <<muxVars, tcpVars, mainVars>>

\* Steps of the goroutines of one server, which end with the process.
HTTPs(A) == main # "exited" /\ A /\ UNCHANGED <<tcpVars, mainVars>>
TCPs(A) == main # "exited" /\ A /\ UNCHANGED <<muxVars, mainVars>>

Next == MainStep \/ Stop \/ Client \/ HTTPs(MuxStep(cfg.listen)) \/ TCPs(TCPStep)

Spec == Init /\ [][Next]_vars

\* What the goroutine that has connection c does without its client.
HandlerStep(c) ==
    \/ HTTPs(Enqueue(c) \/ EnqueueAbandoned(c) \/ Track(c))
    \/ TCPs(JumpStep(c))

\* Goroutines that can go on do.  A client need not send a byte, nor a user a
\* signal; a stream and a TLS or TCP copy may last.
Fairness ==
    /\ WF_vars(MainStep)
    /\ WF_vars(HTTPs(StartStep(cfg.listen)))
    /\ WF_vars(HTTPs(ServeStep))
    /\ WF_vars(\E l \in Ports : TCPs(AcceptLoopEnds(l)))
    /\ \A c \in Conns : WF_vars(HandlerStep(c))

FairSpec == Spec /\ Fairness

-----------------------------------------------------------------------------
(* Properties.                                                             *)

\* The types, and httpConns holds the connections that are "queued", once.
ServersTypeOK ==
    /\ open \subseteq Ports
    /\ at \in [Conns -> Ports \cup {None}]
    /\ conn \in [Conns -> {"away", "backlog", "route", "over"}
                          \cup HTTPStages \cup JumpStages]
    /\ http \in StartStages /\ serve \in {"off", "start", "loop", "ended"}
    /\ queue \in Seq(Conns) /\ Len(queue) <= QueueCap
    /\ \A i, j \in DOMAIN queue :
          conn[queue[i]] = "queued" /\ (queue[i] = queue[j] => i = j)
    /\ done \in BOOLEAN /\ muxDone \in BOOLEAN /\ srvClosed \in BOOLEAN
    /\ cancelled \in BOOLEAN /\ failed \in BOOLEAN
    /\ cfg \in Configs
    /\ loop \in [Ports -> {"off", "run", "ended"}]
    /\ listeners \subseteq Ports /\ stopped \subseteq Ports
    /\ pod \in {"absent", "pending", "ready"}
    /\ cache \in [Contexts -> Conns \cup {None}]
    /\ client \in [Conns -> Conns \cup {None}]
    /\ main \in Phases

\* What a stage of a connection means to Listener.
Life(stage) ==
    CASE stage = "away" -> "away"
      [] stage = "backlog" -> "waiting"
      [] stage \in {"peek", "enqueue", "queued", "taken"} -> "accepted"
      [] stage = "over" -> "over"
      [] OTHER -> "handled"

L == INSTANCE Listener WITH life <- [c \in Conns |-> Life(conn[c])]

\* The two servers treat their connections as Listener says: each is accepted
\* once, handled by one handler and closed once.
ListenerSpec == L!Spec

\* A configuration that passed Validate never makes the app take a port from
\* itself: where a listener is about to be opened, none is open.
NoSelfConflict ==
    /\ main = "start" => \A l \in Ports : NextListener(l) => l \notin open
    /\ http = "listen" => cfg.listen \notin open

\* After shutdownApp no accept loop of the TCP server runs and no TCP port is
\* open, wherever Start failed; the HTTP port is still open only if Shutdown
\* did not see the listener that Start was about to set.
PortsReleased ==
    main \in {"manager", "down"} =>
        /\ \A l \in Ports : loop[l] # "run"
        /\ open \subseteq {cfg.listen}
        /\ muxDone => open = {}

\* Connections through one context use one client, although they look for it
\* before they take the lock; only Clear, at the very end, can change that.
OneClient ==
    main # "down" => \A c, d \in Conns :
        /\ {conn[c], conn[d]} \subseteq JumpStages \ {"lookup", "build"}
        /\ Context(c) = Context(d)
        => client[c] = client[d]

\* Connections do not wait for ever between the accept loop and net/http: each
\* is tracked, or closed, or left in the queue because the server shuts down.
QueueDrains ==
    []<>(\A c \in Conns :
            /\ conn[c] \notin {"enqueue", "taken"}
            /\ conn[c] = "queued" => done)

\* No goroutine of the app outlives its shutdown for ever: shutdownApp returns
\* (wg.Wait waits for loops that end), every jump connection ends, whatever it
\* waits for, and once the listener is closed Start and Serve return.  Nothing
\* undoes done and cancelled, so "again and again" is "finally" here.
ShutdownQuiesces ==
    []<>(done \/ cancelled =>
            \/ main = "exited"
            \/ /\ main = "down"
               /\ \A c \in Conns : conn[c] \notin JumpStages
               /\ muxDone => http = "returned" /\ serve = "ended")
=============================================================================
