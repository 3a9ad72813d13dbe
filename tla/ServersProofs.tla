---------------------------- MODULE ServersProofs ---------------------------
(***************************************************************************)
(* Proofs about Servers, for any connections, ports, contexts and          *)
(* configurations and any capacity of the queue: its types, that listeners *)
(* are neither fought over nor left open, that no one waits for what can't *)
(* come, that a context has one client, and that both servers implement    *)
(* Listener.                                                               *)
(***************************************************************************)
EXTENDS Servers, TLAPS

\* The parts of ServersTypeOK, by module; what handleJumpConnection looks up
\* is there, so that it uses a known context.
Stages == {"away", "backlog", "route", "over"} \cup HTTPStages \cup JumpStages

SocketsOK ==
    /\ open \subseteq Ports
    /\ at \in [Conns -> Ports \cup {None}]
    /\ conn \in [Conns -> Stages]
    /\ \A c \in Conns : conn[c] \in JumpStages => at[c] \in Jumps

QueueOK ==
    /\ queue \in Seq(Conns) /\ Len(queue) <= QueueCap
    /\ \A i, j \in DOMAIN queue :
          conn[queue[i]] = "queued" /\ (queue[i] = queue[j] => i = j)

MuxOK ==
    /\ http \in StartStages /\ serve \in {"off", "start", "loop", "ended"}
    /\ done \in BOOLEAN /\ muxDone \in BOOLEAN /\ srvClosed \in BOOLEAN

TCPOK ==
    /\ cfg \in Configs /\ cancelled \in BOOLEAN
    /\ loop \in [Ports -> {"off", "run", "ended"}]
    /\ listeners \subseteq Ports /\ stopped \subseteq Ports
    /\ pod \in {"absent", "pending", "ready"}
    /\ cache \in [Contexts -> Conns \cup {None}]
    /\ client \in [Conns -> Conns \cup {None}]

MainOK == main \in Phases /\ failed \in BOOLEAN

TypeParts == SocketsOK /\ QueueOK /\ MuxOK /\ TCPOK /\ MainOK

LEMMA PartsAreTypes == TypeParts => ServersTypeOK
  BY DEF ServersTypeOK, TypeParts, SocketsOK, QueueOK, MuxOK, TCPOK, MainOK, Stages

\* What goes from one stage to another outside the queue disturbs nothing.
LEMMA MoveKeepsTypes ==
    ASSUME SocketsOK, QueueOK, NEW c \in Conns, NEW from, NEW to \in Stages,
           from # "queued", Move(c, from, to), queue' = queue, cfg' = cfg,
           to \in JumpStages => from \in JumpStages \/ at[c] \in Jumps
    PROVE  SocketsOK' /\ QueueOK'
  BY DEF SocketsOK, QueueOK, Move, Jumps

\* Nor does what ends outside the queue.
LEMMA EndKeepsTypes ==
    ASSUME SocketsOK, QueueOK, NEW S, \A c \in S : conn[c] # "queued", End(S),
           open' \subseteq Ports, queue' = queue, cfg' = cfg
    PROVE  SocketsOK' /\ QueueOK'
  BY DEF SocketsOK, QueueOK, End, Stages, JumpStages, Jumps

LEMMA SameKeepsTypes ==
    ASSUME SocketsOK, QueueOK, UNCHANGED <<at, conn, queue, cfg>>,
           open' \subseteq Ports
    PROVE  SocketsOK' /\ QueueOK'
  BY DEF SocketsOK, QueueOK, Jumps

\* The context of a jump connection is one of Contexts.
LEMMA ContextIsKnown ==
    ASSUME SocketsOK, TCPOK, NEW c \in Conns, conn[c] \in JumpStages
    PROVE  Context(c) \in Contexts
  BY ContextsAssumption DEF SocketsOK, TCPOK, Context, Via, Jumps

\* The types hold when main starts.
LEMMA InitTypes == Init => TypeParts
<1> SUFFICES ASSUME Init PROVE TypeParts
  OBVIOUS
<1>1. SocketsOK
  BY DEF Init, SocketsOK, Stages, JumpStages
<1>2. QueueOK
  <2>1. queue = <<>>
    BY DEF Init, MuxInit
  <2> QED
    BY <2>1, QueueAssumption DEF QueueOK
<1>3. MuxOK
  BY DEF Init, MuxInit, MuxOK, StartStages
<1>4. TCPOK
  BY DEF Init, TCPInit, TCPOK
<1>5. MainOK
  BY DEF Init, MainOK, Phases
<1> QED
  BY <1>1, <1>2, <1>3, <1>4, <1>5 DEF TypeParts

\* The accept loop, the handlers and net/http keep them.
LEMMA HTTPTypes ==
    ASSUME TypeParts, HTTPs(MuxStep(cfg.listen)) PROVE TypeParts'
<1> USE DEF TypeParts
<1>1. TCPOK' /\ MainOK' /\ cfg' = cfg
  BY DEF HTTPs, TCPOK, MainOK, tcpVars, mainVars
<1>2. CASE NewMuxListener(cfg.listen)
  <2>1. SocketsOK' /\ QueueOK'
    BY <1>1, <1>2, SameKeepsTypes DEF NewMuxListener, Listen, SocketsOK
  <2> QED
    BY <1>1, <1>2, <2>1 DEF NewMuxListener, MuxOK, StartStages
<1>3. CASE NewMuxListenerFails \/ SetListener \/ SetServer \/ AcceptFails(cfg.listen)
           \/ ServeStarts \/ ServeEnds
  <2>1. UNCHANGED sockets /\ queue' = queue /\ MuxOK'
    BY <1>3 DEF NewMuxListenerFails, SetListener, SetServer, AcceptFails,
                ServeStarts, ServeEnds, MuxOK, StartStages
  <2> QED
    BY <1>1, <2>1, SameKeepsTypes DEF sockets, SocketsOK
<1>4. CASE ServeAccepts
  <2>1. SocketsOK'
    BY <1>1, <1>4 DEF ServeAccepts, Move, SocketsOK, QueueOK, Stages, HTTPStages,
                      JumpStages, Jumps
  <2>2. QueueOK'
    <3>1. /\ queue' \in Seq(Conns) /\ Len(queue') = Len(queue) - 1
          /\ \A i \in DOMAIN queue' :
                i + 1 \in DOMAIN queue /\ queue'[i] = queue[i + 1] /\ i + 1 # 1
      BY <1>4 DEF ServeAccepts, QueueOK
    <3>2. Head(queue) = queue[1] /\ 1 \in DOMAIN queue
      BY <1>4 DEF ServeAccepts, QueueOK
    <3>3. \A c \in Conns : c # queue[1] => conn'[c] = conn[c]
      BY <1>4, <3>2 DEF ServeAccepts, Move, SocketsOK
    <3>4. \A i \in DOMAIN queue' : queue[i + 1] # queue[1] /\ queue[i + 1] \in Conns
      BY <3>1, <3>2 DEF QueueOK
    <3>5. \A i \in DOMAIN queue' : conn'[queue'[i]] = "queued"
      BY <3>1, <3>3, <3>4 DEF QueueOK
    <3>6. \A i, j \in DOMAIN queue' : queue'[i] = queue'[j] => i = j
      BY <3>1 DEF QueueOK
    <3>7. Len(queue') <= QueueCap
      BY <3>1, QueueAssumption DEF QueueOK
    <3> QED
      BY <3>1, <3>5, <3>6, <3>7 DEF QueueOK
  <2> QED
    BY <1>1, <1>4, <2>1, <2>2 DEF ServeAccepts, MuxOK
<1>5. ASSUME NEW c \in Conns, Enqueue(c) PROVE TypeParts'
  <2>1. SocketsOK'
    BY <1>1, <1>5 DEF Enqueue, Move, SocketsOK, Stages, HTTPStages, JumpStages, Jumps
  <2>2. QueueOK'
    BY <1>5, QueueAssumption DEF Enqueue, Move, SocketsOK, QueueOK
  <2> QED
    BY <1>1, <1>5, <2>1, <2>2 DEF Enqueue, MuxOK
<1>6. ASSUME NEW c \in Conns, AcceptHTTP(c, cfg.listen) \/ Peek(c) \/ Track(c)
      PROVE TypeParts'
  <2>1. SocketsOK' /\ QueueOK'
    BY <1>1, <1>6, MoveKeepsTypes
       DEF AcceptHTTP, Accept, Peek, Track, muxVars, Stages, HTTPStages, JumpStages
  <2> QED
    BY <1>1, <1>6, <2>1 DEF AcceptHTTP, Peek, Track, muxVars, MuxOK
<1>7. ASSUME NEW c \in Conns, EnqueueAbandoned(c) \/ HandlerEnds(c) PROVE TypeParts'
  <2>1. SocketsOK' /\ QueueOK'
    BY <1>1, <1>7, EndKeepsTypes DEF EnqueueAbandoned, HandlerEnds, Return, muxVars, SocketsOK
  <2> QED
    BY <1>1, <1>7, <2>1 DEF EnqueueAbandoned, HandlerEnds, muxVars, MuxOK
<1> QED
  BY <1>2, <1>3, <1>4, <1>5, <1>6, <1>7 DEF HTTPs, MuxStep, StartStep, ServeStep

\* The accept loops, the jump handler and the cluster keep them.
LEMMA TCPTypes ==
    ASSUME TypeParts, TCPs(TCPStep) PROVE TypeParts'
<1> USE DEF TypeParts
<1>1. MuxOK' /\ MainOK' /\ queue' = queue /\ cfg' = cfg
  <2>1. UNCHANGED <<muxVars, mainVars>>
    BY DEF TCPs
  <2>2. cfg' = cfg
    BY DEF TCPs, TCPStep, JumpStep, AcceptLoopEnds, AcceptTCP, RouteEnds, FastPath,
           SlowPath, Discover, Create, PodIsReady, OpenStream, JumpFails,
           JumpCancelled, StreamEnds, JumpReturns, PodChanges, tcpVars
  <2> QED
    BY <2>1, <2>2 DEF MuxOK, MainOK, muxVars, mainVars
<1>2. ASSUME NEW l \in Ports, AcceptLoopEnds(l) PROVE TypeParts'
  BY <1>1, <1>2, SameKeepsTypes DEF AcceptLoopEnds, sockets, SocketsOK, TCPOK
<1>3. ASSUME NEW l \in Ports, NEW c \in Conns, AcceptTCP(c, l) PROVE TypeParts'
  <2>1. SocketsOK' /\ QueueOK'
    BY <1>1, <1>3, MoveKeepsTypes DEF AcceptTCP, Accept, Stages, JumpStages
  <2> QED
    BY <1>1, <1>3, <2>1 DEF AcceptTCP, tcpVars, TCPOK
<1>4. ASSUME NEW c \in Conns,
             RouteEnds(c) \/ JumpFails(c) \/ JumpCancelled(c) \/ StreamEnds(c)
      PROVE TypeParts'
  <2>1. End({c}) /\ open' = open /\ conn[c] # "queued"
    BY <1>4 DEF RouteEnds, JumpFails, JumpCancelled, StreamEnds, JumpReturns, Return,
                JumpStages
  <2>2. SocketsOK' /\ QueueOK'
    BY <1>1, <2>1, EndKeepsTypes DEF SocketsOK
  <2>3. TCPOK'
    BY <1>4 DEF RouteEnds, JumpFails, JumpCancelled, StreamEnds, JumpReturns,
                tcpVars, TCPOK
  <2> QED
    BY <1>1, <2>2, <2>3
<1>5. ASSUME NEW c \in Conns, FastPath(c) PROVE TypeParts'
  <2>1. SocketsOK' /\ QueueOK'
    BY <1>1, <1>5, MoveKeepsTypes DEF FastPath, UseClient, Stages, JumpStages
  <2>2. Context(c) \in Contexts
    BY <1>5, ContextIsKnown DEF FastPath, JumpStages
  <2>3. client' \in [Conns -> Conns \cup {None}]
    BY <1>5, <2>2 DEF FastPath, UseClient, TCPOK
  <2> QED
    BY <1>1, <1>5, <2>1, <2>3 DEF FastPath, TCPOK
<1>6. ASSUME NEW c \in Conns, SlowPath(c) PROVE TypeParts'
  <2>1. SocketsOK' /\ QueueOK'
    BY <1>1, <1>6, MoveKeepsTypes DEF SlowPath, UseClient, Stages, JumpStages
  <2>2. Context(c) \in Contexts
    BY <1>6, ContextIsKnown DEF SlowPath, JumpStages
  <2>3. client' \in [Conns -> Conns \cup {None}]
    BY <1>6, <2>2 DEF SlowPath, UseClient, TCPOK
  <2>4. cache' \in [Contexts -> Conns \cup {None}]
    BY <1>6 DEF SlowPath, TCPOK
  <2> QED
    BY <1>1, <1>6, <2>1, <2>3, <2>4 DEF SlowPath, TCPOK
<1>7. ASSUME NEW c \in Conns, Discover(c) \/ Create(c) \/ PodIsReady(c) \/ OpenStream(c)
      PROVE TypeParts'
  <2>1. SocketsOK' /\ QueueOK'
    BY <1>1, <1>7, MoveKeepsTypes
       DEF Discover, MustCreate, Create, PodIsReady, OpenStream, Stages, JumpStages
  <2>2. TCPOK'
    BY <1>7 DEF Discover, Create, PodIsReady, OpenStream, tcpVars, TCPOK
  <2> QED
    BY <1>1, <2>1, <2>2
<1>8. CASE PodChanges
  BY <1>1, <1>8, SameKeepsTypes DEF PodChanges, sockets, SocketsOK, TCPOK
<1> QED
  BY <1>2, <1>3, <1>4, <1>5, <1>6, <1>7, <1>8 DEF TCPs, TCPStep, JumpStep

\* main, with what it starts and shuts down, and clients keep them.
LEMMA MainTypes ==
    ASSUME TypeParts, MainStep \/ Stop \/ Client PROVE TypeParts'
<1> USE DEF TypeParts
<1>1. CASE Load \/ TCPStarted \/ StartTCPFails \/ Stop
  <2>1. UNCHANGED sockets /\ queue' = queue /\ cfg' = cfg
    BY <1>1 DEF Load, TCPStarted, StartTCPFails, Stop, muxVars, tcpVars
  <2>2. UNCHANGED tcpVars
    BY <1>1 DEF Load, TCPStarted, StartTCPFails, Stop
  <2>3. TCPOK'
    BY <2>1, <2>2 DEF TCPOK, tcpVars
  <2>4. CASE Load \/ Stop
    <3>1. MuxOK'
      BY <2>4 DEF Load, Stop, muxVars, MuxOK, StartStages
    <3>2. MainOK'
      BY <2>4 DEF Load, Stop, Goto, MainOK, Phases
    <3> QED
      BY <2>1, <2>3, <3>1, <3>2, SameKeepsTypes DEF sockets, SocketsOK
  <2>5. CASE TCPStarted \/ StartTCPFails
    <3>1. MuxOK'
      BY <2>5 DEF TCPStarted, StartTCPFails, muxVars, MuxOK
    <3>2. MainOK'
      BY <2>5 DEF TCPStarted, StartTCPFails, Goto, MainOK, Phases
    <3> QED
      BY <2>1, <2>3, <3>1, <3>2, SameKeepsTypes DEF sockets, SocketsOK
  <2> QED
    BY <1>1, <2>4, <2>5
<1>2. CASE Exit
  <2>1. SocketsOK'
    BY <1>2 DEF Exit, End, SocketsOK, Stages, JumpStages
  <2>2. QueueOK'
    BY <1>2, QueueAssumption DEF Exit, QueueOK
  <2> QED
    BY <1>2, <2>1, <2>2 DEF Exit, MuxOK, tcpVars, TCPOK, MainOK, Phases
<1>3. ASSUME NEW l \in Ports, StartTCP(l) PROVE TypeParts'
  <2>1. SocketsOK' /\ QueueOK'
    BY <1>3, SameKeepsTypes DEF StartTCP, StartListener, Listen, muxVars, SocketsOK
  <2> QED
    BY <1>3, <2>1 DEF StartTCP, StartListener, muxVars, mainVars, MuxOK, TCPOK, MainOK
<1>4. CASE ShutdownHTTP
  <2>1. MainOK' /\ TCPOK' /\ cfg' = cfg
    BY <1>4 DEF ShutdownHTTP, Goto, tcpVars, MainOK, TCPOK, Phases
  <2>2. CASE CloseDone
    BY <2>1, <2>2, SameKeepsTypes DEF CloseDone, sockets, SocketsOK, MuxOK
  <2>3. CASE CloseMux(cfg.listen)
    <3>1. CASE HasListener
      <4>1. SocketsOK' /\ QueueOK'
        BY <2>1, <2>3, <3>1, EndKeepsTypes DEF CloseMux, CloseListener, SocketsOK
      <4> QED
        BY <2>1, <2>3, <3>1, <4>1 DEF CloseMux, MuxOK
    <3>2. CASE ~HasListener
      BY <2>1, <2>3, <3>2, SameKeepsTypes DEF CloseMux, sockets, SocketsOK, muxVars, MuxOK
    <3> QED
      BY <3>1, <3>2
  <2>4. CASE CloseServer
    <3>1. CASE HasServer
      <4>1. SocketsOK' /\ QueueOK'
        BY <2>1, <2>4, <3>1, EndKeepsTypes DEF CloseServer, SocketsOK
      <4> QED
        BY <2>1, <2>4, <3>1, <4>1 DEF CloseServer, MuxOK
    <3>2. CASE ~HasServer
      BY <2>1, <2>4, <3>2, SameKeepsTypes DEF CloseServer, sockets, SocketsOK, muxVars, MuxOK
    <3> QED
      BY <3>1, <3>2
  <2> QED
    BY <1>4, <2>2, <2>3, <2>4 DEF ShutdownHTTP
<1>5. CASE ShutdownTCP
  <2>1. MainOK' /\ MuxOK' /\ queue' = queue /\ cfg' = cfg
    BY <1>5 DEF ShutdownTCP, Cancel, StopListener, Goto, mainVars, muxVars, tcpVars,
                MainOK, MuxOK, Phases
  <2>2. CASE Cancel
    BY <2>1, <2>2, SameKeepsTypes DEF Cancel, sockets, SocketsOK, TCPOK
  <2>3. ASSUME NEW l \in Ports, StopListener(l) PROVE TypeParts'
    <3>1. SocketsOK' /\ QueueOK'
      BY <2>1, <2>3, EndKeepsTypes DEF StopListener, CloseListener, SocketsOK
    <3> QED
      BY <2>1, <2>3, <3>1 DEF StopListener, TCPOK
  <2>4. CASE UNCHANGED <<sockets, tcpVars>>
    BY <2>1, <2>4, SameKeepsTypes DEF sockets, SocketsOK, tcpVars, TCPOK
  <2> QED
    BY <1>5, <2>2, <2>3, <2>4 DEF ShutdownTCP
<1>6. CASE ShutdownManager
  <2>1. UNCHANGED sockets /\ MuxOK' /\ MainOK' /\ queue' = queue /\ cfg' = cfg
    BY <1>6 DEF ShutdownManager, Clear, Goto, muxVars, MuxOK, MainOK, Phases
  <2>2. TCPOK'
    BY <1>6 DEF ShutdownManager, Clear, TCPOK
  <2> QED
    BY <2>1, <2>2, SameKeepsTypes DEF sockets, SocketsOK
<1>7. CASE Client
  <2>1. SocketsOK' /\ QueueOK'
    BY <1>7 DEF Client, Connect, muxVars, tcpVars, SocketsOK, QueueOK, Stages,
                JumpStages, Jumps
  <2> QED
    BY <1>7, <2>1 DEF Client, muxVars, tcpVars, mainVars, MuxOK, TCPOK, MainOK
<1> QED
  BY <1>1, <1>2, <1>3, <1>4, <1>5, <1>6, <1>7
     DEF MainStep, LoadFails, ServerError, StartFailed

\* All steps keep them.
LEMMA StepTypes == TypeParts /\ [Next]_vars => TypeParts'
<1> SUFFICES ASSUME TypeParts, [Next]_vars PROVE TypeParts'
  OBVIOUS
<1>1. CASE UNCHANGED vars
  BY <1>1 DEF vars, mainVars, muxVars, tcpVars, sockets, TypeParts, SocketsOK,
              QueueOK, MuxOK, TCPOK, MainOK, Jumps
<1> QED
  BY <1>1, HTTPTypes, TCPTypes, MainTypes DEF Next

\* The variables keep their types, and the queue holds what is queued, once.
THEOREM ServersTypeCorrect == Spec => []ServersTypeOK
  BY InitTypes, StepTypes, PartsAreTypes, PTL DEF Spec

-----------------------------------------------------------------------------
(* Listeners.  A port is open because Start of one of the servers opened   *)
(* it, and the ports of the two servers differ if Validate accepts them.   *)

Opened == {"set", "accept", "returned"}

PhasesOK ==
    /\ main \notin {"load", "exited"} => Validate(cfg)
    /\ main \in {"load", "exited"} =>
          open = {} /\ \A c \in Conns : conn[c] \in {"away", "over"}
    /\ main = "load" => http = "off"
    /\ main \in {"tcp3", "manager", "down"} => listeners = {}
    /\ main \in {"manager", "down"} => \A l \in Ports : loop[l] # "run"

PortsOK ==
    /\ \A l \in open : \/ l \in listeners
                       \/ l = cfg.listen /\ http \in Opened \cup {"bound"}
    /\ \A l \in listeners : l \in Routes \cup Jumps /\ loop[l] # "off"
    /\ muxDone => http \in Opened /\ cfg.listen \notin open
    /\ \A c \in Conns : conn[c] = "backlog" => at[c] \in open

Wiring == TypeParts /\ PhasesOK /\ PortsOK

\* Validate keeps the TCP ports apart from the HTTP port.
LEMMA PortsDiffer ==
    ASSUME Validate(cfg), NEW l \in Routes \cup Jumps PROVE l # cfg.listen
  BY DEF Validate, ValidTCP, ValidLocalPorts, Routes, Jumps

LEMMA InitWiring == Init => Wiring
  BY InitTypes DEF Init, MuxInit, TCPInit, Wiring, PhasesOK, PortsOK

\* Steps of the HTTP server.
LEMMA HTTPWiring ==
    ASSUME Wiring, HTTPs(MuxStep(cfg.listen)) PROVE PhasesOK' /\ PortsOK'
<1> USE DEF Wiring, TypeParts, PhasesOK, PortsOK
<1>1. UNCHANGED <<main, listeners, loop, cfg>> /\ main # "exited"
  BY DEF HTTPs, tcpVars, mainVars
<1> USE DEF Opened
<1>2. CASE NewMuxListener(cfg.listen)
  BY <1>1, <1>2 DEF NewMuxListener, Listen, Opened, Routes, Jumps
<1>3. CASE NewMuxListenerFails \/ SetListener \/ SetServer \/ AcceptFails(cfg.listen)
           \/ ServeStarts \/ ServeEnds
  BY <1>1, <1>3 DEF NewMuxListenerFails, SetListener, SetServer, AcceptFails,
                    ServeStarts, ServeEnds, sockets, Opened, Routes, Jumps
<1>4. CASE ServeAccepts
  BY <1>1, <1>4 DEF ServeAccepts, Move, SocketsOK, QueueOK, Routes, Jumps
<1>5. ASSUME NEW c \in Conns,
             AcceptHTTP(c, cfg.listen) \/ Peek(c) \/ Enqueue(c) \/ Track(c)
      PROVE PhasesOK' /\ PortsOK'
  <2>1. \E from \in Stages, to \in Stages \ {"away", "backlog"} :
           Move(c, from, to) /\ from \notin {"away", "over"}
    BY <1>5 DEF AcceptHTTP, Accept, Peek, Enqueue, Track, Stages, HTTPStages
  <2>2. UNCHANGED <<open, at, http, muxDone>>
    BY <1>5 DEF AcceptHTTP, Accept, Peek, Enqueue, Track, Move, muxVars
  <2> QED
    BY <1>1, <2>1, <2>2 DEF Move, SocketsOK, Routes, Jumps
<1>6. ASSUME NEW c \in Conns, EnqueueAbandoned(c) \/ HandlerEnds(c)
      PROVE PhasesOK' /\ PortsOK'
  BY <1>1, <1>6 DEF EnqueueAbandoned, HandlerEnds, Return, End, muxVars, Routes, Jumps
<1> QED
  BY <1>2, <1>3, <1>4, <1>5, <1>6 DEF HTTPs, MuxStep, StartStep, ServeStep

\* Steps of the TCP server.
LEMMA TCPWiring ==
    ASSUME Wiring, TCPs(TCPStep) PROVE PhasesOK' /\ PortsOK'
<1> USE DEF Wiring, TypeParts, PhasesOK, PortsOK
<1>1. UNCHANGED <<main, http, muxDone>> /\ main # "exited"
  BY DEF TCPs, muxVars, mainVars
<1>2. ASSUME NEW l \in Ports, AcceptLoopEnds(l) PROVE PhasesOK' /\ PortsOK'
  BY <1>1, <1>2 DEF AcceptLoopEnds, sockets, Routes, Jumps, TCPOK
<1>3. ASSUME NEW l \in Ports, NEW c \in Conns, AcceptTCP(c, l)
      PROVE PhasesOK' /\ PortsOK'
  BY <1>1, <1>3 DEF AcceptTCP, Accept, Move, SocketsOK, tcpVars, Routes, Jumps
<1>4. ASSUME NEW c \in Conns,
             RouteEnds(c) \/ JumpFails(c) \/ JumpCancelled(c) \/ StreamEnds(c)
      PROVE PhasesOK' /\ PortsOK'
  BY <1>1, <1>4 DEF RouteEnds, JumpFails, JumpCancelled, StreamEnds, JumpReturns,
                    Return, End, tcpVars, Routes, Jumps
<1>5. ASSUME NEW c \in Conns, FastPath(c) \/ SlowPath(c) PROVE PhasesOK' /\ PortsOK'
  BY <1>1, <1>5 DEF FastPath, SlowPath, UseClient, Move, SocketsOK, Routes, Jumps
<1>6. ASSUME NEW c \in Conns, Discover(c) \/ Create(c) \/ PodIsReady(c) \/ OpenStream(c)
      PROVE PhasesOK' /\ PortsOK'
  BY <1>1, <1>6 DEF Discover, Create, PodIsReady, OpenStream, Move, SocketsOK, tcpVars,
                    Routes, Jumps
<1>7. CASE PodChanges
  BY <1>1, <1>7 DEF PodChanges, sockets, Routes, Jumps
<1> QED
  BY <1>2, <1>3, <1>4, <1>5, <1>6, <1>7 DEF TCPs, TCPStep, JumpStep

\* Steps of main and of clients.
LEMMA MainWiring ==
    ASSUME Wiring, MainStep \/ Stop \/ Client PROVE PhasesOK' /\ PortsOK'
<1> USE DEF Wiring, TypeParts, PhasesOK, PortsOK
<1>1. CASE Load
  BY <1>1 DEF Load, Goto, sockets, tcpVars, Opened, Routes, Jumps
<1>2. CASE TCPStarted \/ StartTCPFails \/ Stop
  BY <1>2 DEF TCPStarted, StartTCPFails, Stop, Goto, sockets, muxVars, tcpVars, Routes, Jumps
<1>3. CASE Exit
  BY <1>3 DEF Exit, End, tcpVars, Routes, Jumps
<1>4. ASSUME NEW l \in Ports, StartTCP(l) PROVE PhasesOK' /\ PortsOK'
  <2>1. Validate(cfg) /\ l \in Routes \cup Jumps /\ loop[l] = "off"
    BY <1>4 DEF StartTCP, StartListener, NextListener
  <2>2. l # cfg.listen
    BY <2>1, PortsDiffer
  <2> QED
    BY <1>4, <2>1, <2>2 DEF StartTCP, StartListener, Listen, muxVars, mainVars, TCPOK,
                            Routes, Jumps
<1>5. CASE ShutdownHTTP
  BY <1>5 DEF ShutdownHTTP, Goto, CloseDone, CloseMux, CloseServer, CloseListener, End,
              HasListener, Opened, sockets, muxVars, tcpVars, SocketsOK, Routes, Jumps
<1>6. CASE ShutdownTCP
  <2>1. UNCHANGED <<http, muxDone, cfg, loop>>
    BY <1>6 DEF ShutdownTCP, Cancel, StopListener, muxVars, tcpVars
  <2>2. ASSUME NEW l \in Ports, main = "tcp2", UNCHANGED mainVars, StopListener(l)
        PROVE PhasesOK' /\ PortsOK'
    BY <2>1, <2>2 DEF StopListener, CloseListener, End, mainVars, Routes, Jumps, SocketsOK
  <2>3. CASE UNCHANGED <<sockets, listeners>> /\ Goto("tcp1", "tcp2")
    BY <2>1, <2>3 DEF Goto, sockets, Routes, Jumps
  <2>4. CASE Goto("tcp2", "tcp3") /\ listeners = {} /\ UNCHANGED <<sockets, tcpVars>>
    BY <2>1, <2>4 DEF Goto, sockets, tcpVars, Routes, Jumps
  <2>5. CASE /\ Goto("tcp3", IF failed /\ ~done THEN "http1" ELSE "manager")
             /\ LoopsEnded
             /\ UNCHANGED <<sockets, tcpVars>>
    BY <2>1, <2>5 DEF Goto, LoopsEnded, sockets, tcpVars, Routes, Jumps
  <2> QED
    BY <1>6, <2>2, <2>3, <2>4, <2>5 DEF ShutdownTCP, Cancel
<1>7. CASE ShutdownManager
  BY <1>7 DEF ShutdownManager, Goto, Clear, sockets, muxVars, Routes, Jumps
<1>8. CASE Client
  BY <1>8 DEF Client, Connect, muxVars, tcpVars, mainVars, SocketsOK, Routes, Jumps
<1> QED
  BY <1>1, <1>2, <1>3, <1>4, <1>5, <1>6, <1>7, <1>8
     DEF MainStep, LoadFails, ServerError, StartFailed

\* All steps keep the listeners wired.
LEMMA StepWiring == Wiring /\ [Next]_vars => Wiring'
<1> SUFFICES ASSUME Wiring, [Next]_vars PROVE PhasesOK' /\ PortsOK'
  BY StepTypes DEF Wiring
<1>1. CASE UNCHANGED vars
  BY <1>1 DEF vars, mainVars, muxVars, tcpVars, sockets, Wiring, PhasesOK, PortsOK,
              Routes, Jumps
<1> QED
  BY <1>1, HTTPWiring, TCPWiring, MainWiring DEF Next

LEMMA WiringHolds == Spec => []Wiring
  BY InitWiring, StepWiring, PTL DEF Spec

\* No valid configuration makes the app take a port from itself.
THEOREM NoPortIsTakenTwice == Spec => []NoSelfConflict
<1>1. Wiring => NoSelfConflict
  <2> SUFFICES ASSUME Wiring PROVE NoSelfConflict
    OBVIOUS
  <2> USE DEF Wiring, PhasesOK, PortsOK
  <2>1. ASSUME main = "start", NEW l \in Ports, NextListener(l) PROVE l \notin open
    <3>1. Validate(cfg) /\ l \in Routes \cup Jumps /\ loop[l] = "off"
      BY <2>1 DEF NextListener
    <3> QED
      BY <3>1, PortsDiffer
  <2>2. ASSUME http = "listen" PROVE cfg.listen \notin open
    <3>1. SUFFICES ASSUME cfg.listen \in open PROVE FALSE
      OBVIOUS
    <3>2. cfg.listen \in Routes \cup Jumps /\ Validate(cfg)
      BY <2>2, <3>1 DEF Opened
    <3> QED
      BY <3>2, PortsDiffer
  <2> QED
    BY <2>1, <2>2 DEF NoSelfConflict
<1> QED
  BY <1>1, WiringHolds, PTL

\* The shutdown leaves no accept loop and no TCP port behind, wherever a Start
\* failed, and no HTTP port that it saw.
THEOREM ShutdownReleasesPorts == Spec => []PortsReleased
<1>1. Wiring => PortsReleased
  <2> SUFFICES ASSUME Wiring, main \in {"manager", "down"}
               PROVE  /\ \A l \in Ports : loop[l] # "run"
                      /\ open \subseteq {cfg.listen}
                      /\ muxDone => open = {}
    BY DEF PortsReleased
  <2> QED
    BY DEF Wiring, PhasesOK, PortsOK
<1> QED
  BY <1>1, WiringHolds, PTL

-----------------------------------------------------------------------------
(* Waiting.  Who waits for a goroutine waits for one that will come.       *)

\* net/http's goroutine runs as soon as a connection can be peeked at, nothing
\* ends it before s.done is closed, and a listener stays with its loop until
\* the loop has been told to stop.
WaitInv ==
    /\ serve = "off" <=> http \notin {"accept", "returned"}
    /\ serve = "ended" \/ srvClosed \/ muxDone \/ main \in {"http2", "http3"} => done
    /\ \A c \in Conns : conn[c] \in HTTPStages => serve # "off"
    /\ main # "exited" /\ http \in Opened \cup {"bound"} => cfg.listen \in open \/ muxDone
    /\ \A l \in Ports : loop[l] # "off" => l \in Routes \cup Jumps /\ main # "load"
    /\ main # "exited" =>
          \A l \in Ports : loop[l] = "run" => l \in open \cap listeners \/ l \in stopped

\* A connection on its way to net/http has somebody who takes it, or may be
\* dropped; an accept loop without its listener has been told to stop, and
\* wg.Wait waits only for loops that were told and whose listener is closed.
EveryWaitHasAnEnd ==
    main # "exited" =>
        /\ \A c \in Conns : conn[c] \in {"enqueue", "queued"} => serve \in {"start", "loop"} \/ done
        /\ http = "accept" /\ cfg.listen \notin open => done
        /\ \A l \in Ports :
              loop[l] = "run" /\ (l \notin open \/ main = "tcp3") => l \in stopped \ open

\* Steps of the HTTP server.
LEMMA HTTPWaits ==
    ASSUME Wiring, WaitInv, HTTPs(MuxStep(cfg.listen)) PROVE WaitInv'
<1> USE DEF WaitInv, Opened
<1>1. UNCHANGED <<main, listeners, loop, cfg, stopped>> /\ main # "exited"
  BY DEF HTTPs, tcpVars, mainVars
<1>2. UNCHANGED <<Routes, Jumps>>
  BY <1>1 DEF Routes, Jumps
<1>3. CASE NewMuxListener(cfg.listen)
  BY <1>1, <1>2, <1>3 DEF NewMuxListener, Listen
<1>4. CASE NewMuxListenerFails \/ SetListener \/ SetServer \/ AcceptFails(cfg.listen)
           \/ ServeStarts \/ ServeEnds
  BY <1>1, <1>2, <1>4 DEF NewMuxListenerFails, SetListener, SetServer, AcceptFails,
                          ServeStarts, ServeEnds, sockets
<1>5. ASSUME UNCHANGED <<open, http, serve, done, muxDone, srvClosed>>,
             \A c \in Conns : conn'[c] \in HTTPStages => serve # "off"
      PROVE  WaitInv'
  BY <1>1, <1>2, <1>5
<1>6. CASE ServeAccepts
  BY <1>5, <1>6 DEF ServeAccepts, Move
<1>7. ASSUME NEW c \in Conns, AcceptHTTP(c, cfg.listen) \/ Peek(c) \/ Enqueue(c) \/ Track(c)
      PROVE  WaitInv'
  <2>1. UNCHANGED <<open, http, serve, done, muxDone, srvClosed>>
    BY <1>7 DEF AcceptHTTP, Accept, Peek, Enqueue, Track, Move, muxVars
  <2>2. serve # "off"
    BY <1>7 DEF AcceptHTTP, Peek, Enqueue, Track, Move, HTTPStages
  <2> QED
    BY <1>5, <2>1, <2>2
<1>8. ASSUME NEW c \in Conns, EnqueueAbandoned(c) \/ HandlerEnds(c) PROVE WaitInv'
  <2>1. UNCHANGED <<open, http, serve, done, muxDone, srvClosed>>
    BY <1>8 DEF EnqueueAbandoned, HandlerEnds, Return, muxVars
  <2>2. serve # "off"
    BY <1>8 DEF EnqueueAbandoned, HandlerEnds, Return, HTTPStages
  <2> QED
    BY <1>5, <2>1, <2>2
<1> QED
  BY <1>3, <1>4, <1>6, <1>7, <1>8 DEF HTTPs, MuxStep, StartStep, ServeStep

\* Steps of the TCP server: none of its stages is one of the HTTP server's.
LEMMA TCPWaits ==
    ASSUME Wiring, WaitInv, TCPs(TCPStep) PROVE WaitInv'
<1> USE DEF WaitInv
<1>1. UNCHANGED <<main, http, serve, done, muxDone, srvClosed>>
  BY DEF TCPs, muxVars, mainVars
<1>2. ASSUME UNCHANGED <<open, cfg, loop, listeners, stopped>>,
             \A c \in Conns : conn'[c] \in HTTPStages => conn[c] \in HTTPStages
      PROVE  WaitInv'
  <2>1. UNCHANGED <<Routes, Jumps>>
    BY <1>2 DEF Routes, Jumps
  <2> QED
    BY <1>1, <1>2, <2>1
<1>3. ASSUME NEW l \in Ports, AcceptLoopEnds(l) PROVE WaitInv'
  <2>1. UNCHANGED <<Routes, Jumps, cfg, open, conn, listeners, stopped>>
    BY <1>3 DEF AcceptLoopEnds, Routes, Jumps, sockets
  <2>2. loop[l] = "run" /\ loop' = [loop EXCEPT ![l] = "ended"] /\ DOMAIN loop = Ports
    BY <1>3 DEF AcceptLoopEnds, Wiring, TypeParts, TCPOK
  <2> QED
    BY <1>1, <2>1, <2>2
<1>4. ASSUME NEW c \in Conns, NEW from, NEW to, to \notin HTTPStages, Move(c, from, to),
             UNCHANGED <<cfg, loop, listeners, stopped>>
      PROVE  WaitInv'
  BY <1>2, <1>4 DEF Move, Wiring, TypeParts, SocketsOK
<1>5. ASSUME NEW c \in Conns, NEW S, Return(c, S), UNCHANGED <<cfg, loop, listeners, stopped>>
      PROVE  WaitInv'
  BY <1>2, <1>5 DEF Return, End, HTTPStages
<1>6. ASSUME NEW l \in Ports, NEW c \in Conns, AcceptTCP(c, l) PROVE WaitInv'
  BY <1>4, <1>6 DEF AcceptTCP, Accept, tcpVars, HTTPStages
<1>7. ASSUME NEW c \in Conns,
             RouteEnds(c) \/ JumpFails(c) \/ JumpCancelled(c) \/ StreamEnds(c)
      PROVE  WaitInv'
  BY <1>5, <1>7 DEF RouteEnds, JumpFails, JumpCancelled, StreamEnds, JumpReturns, tcpVars
<1>8. ASSUME NEW c \in Conns, FastPath(c) \/ SlowPath(c) PROVE WaitInv'
  BY <1>4, <1>8 DEF FastPath, SlowPath, UseClient, HTTPStages
<1>9. ASSUME NEW c \in Conns, Discover(c) \/ Create(c) \/ PodIsReady(c) \/ OpenStream(c)
      PROVE  WaitInv'
  BY <1>4, <1>9 DEF Discover, Create, PodIsReady, OpenStream, tcpVars, HTTPStages
<1>10. CASE PodChanges
  BY <1>2, <1>10 DEF PodChanges, sockets
<1> QED
  BY <1>3, <1>6, <1>7, <1>8, <1>9, <1>10 DEF TCPs, TCPStep, JumpStep

\* Steps of main and of clients.
LEMMA MainWaits ==
    ASSUME Wiring, WaitInv, MainStep \/ Stop \/ Client PROVE WaitInv'
<1> USE DEF WaitInv
<1>1. CASE Load
  BY <1>1 DEF Load, Goto, sockets, tcpVars, Opened, Routes, Jumps, Wiring, PhasesOK
<1>2. CASE TCPStarted \/ StartTCPFails \/ Stop
  BY <1>2 DEF TCPStarted, StartTCPFails, Stop, Goto, sockets, muxVars, tcpVars, Routes, Jumps
<1>3. CASE Exit
  BY <1>3 DEF Exit, End, tcpVars, Routes, Jumps, HTTPStages
<1>4. ASSUME NEW l \in Ports, StartTCP(l) PROVE WaitInv'
  <2>1. /\ l \in Routes \cup Jumps /\ UNCHANGED <<Routes, Jumps>>
        /\ open' = open \cup {l} /\ listeners' = listeners \cup {l}
        /\ loop' = [loop EXCEPT ![l] = "run"] /\ DOMAIN loop = Ports
        /\ main = "start"
    BY <1>4 DEF StartTCP, StartListener, NextListener, Listen, Routes, Jumps, Wiring,
                TypeParts, TCPOK
  <2>2. UNCHANGED <<conn, cfg, stopped, http, serve, done, muxDone, srvClosed, main>>
    BY <1>4 DEF StartTCP, StartListener, Listen, muxVars, mainVars
  <2> QED
    BY <2>1, <2>2
<1>5. CASE ShutdownHTTP
  <2>1. UNCHANGED <<cfg, loop, listeners, stopped, Routes, Jumps, http, serve>>
    BY <1>5 DEF ShutdownHTTP, CloseDone, CloseMux, CloseServer, tcpVars, muxVars, Routes, Jumps
  <2>2. CASE Goto("http1", "http2") /\ CloseDone
    BY <2>1, <2>2 DEF Goto, CloseDone, sockets
  <2>3. CASE Goto("http2", "http3") /\ CloseMux(cfg.listen)
    <3>1. done /\ done' /\ srvClosed' = srvClosed /\ main # "exited" /\ main' = "http3"
      BY <2>3 DEF Goto, CloseMux, muxVars
    <3>2. \A c \in Conns : conn'[c] \in HTTPStages => conn[c] \in HTTPStages
      BY <2>3 DEF CloseMux, CloseListener, End, HTTPStages, sockets
    <3>3. Validate(cfg)
      BY <2>3 DEF Wiring, PhasesOK, Goto
    <3>4. \A l \in Routes \cup Jumps : l # cfg.listen
      BY <3>3, PortsDiffer
    <3>5. \/ open' = open \ {cfg.listen} /\ muxDone'
          \/ UNCHANGED <<open, muxDone>> /\ ~HasListener
      BY <2>3 DEF CloseMux, CloseListener, sockets, muxVars
    <3> QED
      BY <2>1, <3>1, <3>2, <3>4, <3>5
  <2>4. CASE Goto("http3", "tcp1") /\ CloseServer
    <3>1. done /\ done' /\ muxDone' = muxDone /\ open' = open
      BY <2>4 DEF Goto, CloseServer, muxVars, sockets
    <3>2. \A c \in Conns : conn'[c] \in HTTPStages => conn[c] \in HTTPStages
      BY <2>4 DEF CloseServer, End, HTTPStages, sockets
    <3> QED
      BY <2>1, <2>4, <3>1, <3>2 DEF Goto
  <2> QED
    BY <1>5, <2>2, <2>3, <2>4 DEF ShutdownHTTP
<1>6. CASE ShutdownTCP
  <2>1. UNCHANGED <<http, serve, done, muxDone, srvClosed, cfg, loop, Routes, Jumps>>
    BY <1>6 DEF ShutdownTCP, Cancel, StopListener, muxVars, tcpVars, Routes, Jumps
  <2>2. ASSUME NEW l \in Ports, main = "tcp2", UNCHANGED mainVars, StopListener(l)
        PROVE  WaitInv'
    <3>1. /\ l \in listeners /\ stopped' = stopped \cup {l} /\ open' = open \ {l}
          /\ listeners' = listeners \ {l} /\ main' = main
      BY <2>2 DEF StopListener, CloseListener, mainVars
    <3>2. l \in Routes \cup Jumps /\ Validate(cfg)
      BY <2>2, <3>1 DEF Wiring, PhasesOK, PortsOK
    <3>3. l # cfg.listen
      BY <3>2, PortsDiffer
    <3>4. \A c \in Conns : conn'[c] \in HTTPStages => conn[c] \in HTTPStages
      BY <2>2 DEF StopListener, CloseListener, End, HTTPStages
    <3> QED
      BY <2>1, <3>1, <3>3, <3>4
  <2>3. ASSUME UNCHANGED <<open, conn, listeners, stopped>>,
               main # "exited", main' \notin {"load", "http2", "http3"}
        PROVE  WaitInv'
    BY <2>1, <2>3
  <2>4. CASE Goto("tcp1", "tcp2") /\ Cancel
    BY <2>3, <2>4 DEF Goto, Cancel, sockets
  <2>5. CASE Goto("tcp2", "tcp3") /\ listeners = {} /\ UNCHANGED <<sockets, tcpVars>>
    BY <2>3, <2>5 DEF Goto, sockets, tcpVars
  <2>6. CASE /\ Goto("tcp3", IF failed /\ ~done THEN "http1" ELSE "manager")
             /\ LoopsEnded
             /\ UNCHANGED <<sockets, tcpVars>>
    BY <2>3, <2>6 DEF Goto, sockets, tcpVars
  <2> QED
    BY <1>6, <2>2, <2>4, <2>5, <2>6 DEF ShutdownTCP
<1>7. CASE ShutdownManager
  BY <1>7 DEF ShutdownManager, Goto, Clear, sockets, muxVars, Routes, Jumps
<1>8. CASE Client
  <2>1. UNCHANGED <<open, http, serve, done, muxDone, srvClosed, cfg, loop, listeners, stopped, main>>
    BY <1>8 DEF Client, Connect, muxVars, tcpVars, mainVars
  <2>2. UNCHANGED <<Routes, Jumps>>
    BY <2>1 DEF Routes, Jumps
  <2>3. \A c \in Conns : conn'[c] \in HTTPStages => conn[c] \in HTTPStages
    BY <1>8 DEF Client, Connect, HTTPStages, Wiring, TypeParts, SocketsOK
  <2> QED
    BY <2>1, <2>2, <2>3
<1> QED
  BY <1>1, <1>2, <1>3, <1>4, <1>5, <1>6, <1>7, <1>8
     DEF MainStep, LoadFails, ServerError, StartFailed

\* Nobody waits for what cannot come: the safety half of QueueDrains and of
\* ShutdownQuiesces, for any number of connections and of listeners, and
\* wherever a Start failed.
THEOREM NobodyWaitsInVain == Spec => []EveryWaitHasAnEnd
<1>1. Init => WaitInv
  BY DEF Init, MuxInit, TCPInit, WaitInv, Opened, HTTPStages
<1>2. Wiring /\ WaitInv /\ [Next]_vars => WaitInv'
  <2>1. ASSUME WaitInv, UNCHANGED vars PROVE WaitInv'
    BY <2>1 DEF vars, sockets, muxVars, tcpVars, mainVars, WaitInv, Routes, Jumps
  <2> QED
    BY <2>1, HTTPWaits, TCPWaits, MainWaits DEF Next
<1>3. Wiring /\ WaitInv => EveryWaitHasAnEnd
  <2> SUFFICES ASSUME Wiring, WaitInv, main # "exited" PROVE EveryWaitHasAnEnd
    BY DEF EveryWaitHasAnEnd
  <2>1. ASSUME NEW c \in Conns, conn[c] \in {"enqueue", "queued"}
        PROVE  serve \in {"start", "loop"} \/ done
    <3>1. serve # "off"
      BY <2>1 DEF WaitInv, HTTPStages
    <3> QED
      BY <3>1 DEF WaitInv, Wiring, TypeParts, MuxOK
  <2>2. http = "accept" /\ cfg.listen \notin open => done
    BY DEF WaitInv, Opened
  <2>3. ASSUME NEW l \in Ports, loop[l] = "run", l \notin open \/ main = "tcp3"
        PROVE  l \in stopped \ open
    <3>1. l \in Routes \cup Jumps /\ Validate(cfg)
      BY <2>3 DEF WaitInv, Wiring, PhasesOK, TypeParts, TCPOK
    <3>2. l # cfg.listen
      BY <3>1, PortsDiffer
    <3>3. main = "tcp3" => listeners = {}
      BY DEF Wiring, PhasesOK
    <3> QED
      BY <2>3, <3>2, <3>3 DEF WaitInv, Wiring, PortsOK
  <2> QED
    BY <2>1, <2>2, <2>3 DEF EveryWaitHasAnEnd
<1> QED
  BY <1>1, <1>2, <1>3, WiringHolds, PTL DEF Spec

-----------------------------------------------------------------------------
(* The client factory.  Until Clear, whoever has passed it uses what the   *)
(* cache holds for the context.                                            *)

Users == JumpStages \ {"lookup", "build"}

ClientsOK ==
    main # "down" =>
        \A c \in Conns :
            conn[c] \in Users =>
                cache[Context(c)] # None /\ client[c] = cache[Context(c)]

LEMMA StepClients == TypeParts /\ ClientsOK /\ [Next]_vars => ClientsOK'
<1> SUFFICES ASSUME TypeParts, ClientsOK, [Next]_vars PROVE ClientsOK'
  OBVIOUS
<1> USE DEF TypeParts, ClientsOK, Users, JumpStages, Context, Via
<1>1. CASE UNCHANGED vars
  BY <1>1 DEF vars, mainVars, tcpVars, sockets
<1>2. CASE HTTPs(MuxStep(cfg.listen))
  <2>1. UNCHANGED <<main, cfg, cache, client>>
    BY <1>2 DEF HTTPs, tcpVars, mainVars
  <2>2. \A c \in Conns : conn'[c] \in Users => conn[c] = conn'[c] /\ at'[c] = at[c]
    BY <1>2 DEF HTTPs, MuxStep, StartStep, ServeStep, NewMuxListener, Listen,
                NewMuxListenerFails, SetListener, SetServer, AcceptFails, ServeStarts,
                ServeAccepts, ServeEnds, AcceptHTTP, Accept, Peek, Enqueue,
                EnqueueAbandoned, Track, HandlerEnds, Return, End, Move, sockets, SocketsOK
  <2> QED
    BY <2>1, <2>2
<1>3. CASE TCPs(TCPStep)
  <2>1. UNCHANGED main
    BY <1>3 DEF TCPs, mainVars
  <2>2. ASSUME NEW l \in Ports, AcceptLoopEnds(l) PROVE ClientsOK'
    BY <2>1, <2>2 DEF AcceptLoopEnds, sockets
  <2>3. ASSUME NEW l \in Ports, NEW c \in Conns, AcceptTCP(c, l) PROVE ClientsOK'
    BY <2>1, <2>3 DEF AcceptTCP, Accept, Move, SocketsOK, tcpVars
  <2>4. ASSUME NEW c \in Conns,
               RouteEnds(c) \/ JumpFails(c) \/ JumpCancelled(c) \/ StreamEnds(c)
        PROVE ClientsOK'
    BY <2>1, <2>4 DEF RouteEnds, JumpFails, JumpCancelled, StreamEnds, JumpReturns,
                      Return, End, tcpVars, TCPOK
  <2>5. ASSUME NEW c \in Conns, FastPath(c) PROVE ClientsOK'
    BY <2>1, <2>5 DEF FastPath, UseClient, Move, SocketsOK, TCPOK
  <2>6. ASSUME NEW c \in Conns, SlowPath(c) PROVE ClientsOK'
    <3>1. Context(c) \in Contexts
      BY <2>6, ContextIsKnown DEF SlowPath
    <3>2. CASE cache[Context(c)] # None
      BY <2>1, <2>6, <3>2 DEF SlowPath, UseClient, Move, SocketsOK, TCPOK
    <3>3. CASE cache[Context(c)] = None
      <4>1. /\ cache' = [cache EXCEPT ![Context(c)] = c]
            /\ client' = [client EXCEPT ![c] = c]
            /\ conn' = [conn EXCEPT ![c] = "discover"]
            /\ UNCHANGED <<cfg, at, main>>
        BY <2>1, <2>6, <3>3 DEF SlowPath, UseClient, Move
      <4>2. cache'[Context(c)] = c /\ client'[c] = c /\ c # None
        BY <3>1, <4>1, NoneAssumption DEF TCPOK
      <4>3. ASSUME NEW d \in Conns, conn'[d] \in Users, d # c, main # "down"
            PROVE  /\ cache'[Context(d)] # None
                   /\ client'[d] = cache'[Context(d)]
        <5>1. conn[d] \in Users
          BY <4>1, <4>3 DEF SocketsOK
        <5>2. cache[Context(d)] # None /\ client[d] = cache[Context(d)]
          BY <4>3, <5>1
        <5>3. Context(d) # Context(c)
          BY <3>3, <5>2
        <5>4. cache'[Context(d)] = cache[Context(d)] /\ client'[d] = client[d]
          BY <4>1, <4>3, <5>3 DEF TCPOK
        <5> QED
          BY <5>2, <5>4
      <4> QED
        BY <4>1, <4>2, <4>3
    <3> QED
      BY <3>2, <3>3
  <2>7. ASSUME NEW c \in Conns, Discover(c) \/ Create(c) \/ PodIsReady(c) \/ OpenStream(c)
        PROVE ClientsOK'
    BY <2>1, <2>7 DEF Discover, Create, PodIsReady, OpenStream, Move, SocketsOK, tcpVars
  <2>8. CASE PodChanges
    BY <2>1, <2>8 DEF PodChanges, sockets
  <2> QED
    BY <1>3, <2>2, <2>3, <2>4, <2>5, <2>6, <2>7, <2>8 DEF TCPs, TCPStep, JumpStep
<1>4. CASE MainStep \/ Stop \/ Client
  <2>1. CASE Exit
    BY <2>1 DEF Exit, End
  <2>2. CASE ShutdownManager
    BY <2>2 DEF ShutdownManager, Goto
  <2>3. CASE Load \/ TCPStarted \/ StartTCPFails \/ Stop
    BY <2>3 DEF Load, TCPStarted, StartTCPFails, Stop, Goto, sockets, tcpVars
  <2>4. ASSUME NEW l \in Ports, StartTCP(l) PROVE ClientsOK'
    BY <2>4 DEF StartTCP, StartListener, Listen, mainVars
  <2>5. CASE ShutdownHTTP
    <3>1. UNCHANGED <<cfg, cache, client>> /\ main # "down"
      BY <2>5 DEF ShutdownHTTP, Goto, tcpVars
    <3>2. \A c \in Conns : conn'[c] \in Users => conn[c] = conn'[c] /\ at'[c] = at[c]
      BY <2>5 DEF ShutdownHTTP, CloseDone, CloseMux, CloseServer, CloseListener, End, sockets
    <3> QED
      BY <3>1, <3>2
  <2>6. CASE ShutdownTCP
    <3>1. UNCHANGED <<cfg, cache, client>> /\ main # "down"
      BY <2>6 DEF ShutdownTCP, Cancel, StopListener, Goto, mainVars, tcpVars
    <3>2. \A c \in Conns : conn'[c] \in Users => conn[c] = conn'[c] /\ at'[c] = at[c]
      BY <2>6 DEF ShutdownTCP, Cancel, StopListener, CloseListener, End, sockets
    <3> QED
      BY <3>1, <3>2
  <2>7. CASE Client
    BY <2>7 DEF Client, Connect, SocketsOK, mainVars, tcpVars
  <2> QED
    BY <1>4, <2>1, <2>2, <2>3, <2>4, <2>5, <2>6, <2>7
       DEF MainStep, LoadFails, ServerError, StartFailed
<1> QED
  BY <1>1, <1>2, <1>3, <1>4 DEF Next

\* Connections through one context use one client.
THEOREM OneClientEach == Spec => []OneClient
<1>1. Init => ClientsOK
  BY DEF Init, ClientsOK, Users, JumpStages
<1>2. ClientsOK => OneClient
  BY DEF ClientsOK, OneClient, Users
<1> QED
  BY <1>1, <1>2, InitTypes, StepTypes, StepClients, PTL DEF Spec
-----------------------------------------------------------------------------
(* The servers implement Listener.  A connection changes its stage with    *)
(* Move or with End; what these are for Listener depends on the stages.    *)

lives == [c \in Conns |-> Life(conn[c])]

LEMMA LivesAreFelt ==
    ASSUME UNCHANGED <<open, at>>, lives' = lives PROVE UNCHANGED L!vars
  BY DEF L!vars, lives

LEMMA MoveOfLife ==
    ASSUME SocketsOK, NEW c \in Conns, NEW from, NEW to \in Stages, Move(c, from, to)
    PROVE  lives' = [lives EXCEPT ![c] = Life(to)]
  BY DEF SocketsOK, Move, lives

\* A move between stages that are the same to Listener, or from accepted to
\* handled.
LEMMA MoveMaps ==
    ASSUME SocketsOK, NEW c \in Conns, NEW from, NEW to \in Stages, Move(c, from, to),
           \/ Life(from) = Life(to)
           \/ Life(from) = "accepted" /\ Life(to) = "handled"
    PROVE  [L!Next]_L!vars
<1>1. /\ lives' = [lives EXCEPT ![c] = Life(to)]
      /\ lives[c] = Life(from) /\ UNCHANGED <<open, at>>
  BY MoveOfLife DEF Move, lives
<1>2. CASE Life(from) = Life(to)
  <2>1. lives' = lives
    BY <1>1, <1>2 DEF lives
  <2> QED
    BY <1>1, <2>1, LivesAreFelt
<1>3. CASE Life(from) = "accepted" /\ Life(to) = "handled"
  <2>1. L!Handle(c)
    BY <1>1, <1>3 DEF L!Handle, lives
  <2> QED
    BY <2>1 DEF L!Next
<1> QED
  BY <1>2, <1>3

\* Accept, to a stage that counts as accepted or as handled.
LEMMA AcceptMaps ==
    ASSUME SocketsOK, NEW c \in Conns, NEW l \in Ports, NEW to \in Stages,
           Accept(c, l, to), Life(to) \in {"accepted", "handled"}
    PROVE  [L!Next]_L!vars
<1>1. /\ lives' = [lives EXCEPT ![c] = Life(to)]
      /\ conn[c] = "backlog" /\ at[c] \in open /\ UNCHANGED <<open, at>>
  BY MoveOfLife DEF Accept, Move
<1>2. lives[c] = "waiting"
  BY <1>1 DEF lives, Life
<1>3. L!Accept(c)
  BY <1>1, <1>2 DEF L!Accept, lives
<1> QED
  BY <1>3 DEF L!Next

LEMMA EndOfLife ==
    ASSUME SocketsOK, NEW S, End(S)
    PROVE  lives' = [c \in Conns |-> IF c \in S THEN "over" ELSE lives[c]]
  BY DEF End, lives, Life

\* What is closed after it was accepted.
LEMMA EndMaps ==
    ASSUME SocketsOK, NEW S \in SUBSET Conns, End(S), UNCHANGED open,
           \A c \in S : conn[c] \notin {"away", "backlog", "over"}
    PROVE  [L!Next]_L!vars
<1>1. \A c \in S : lives[c] \in {"accepted", "handled"}
  BY DEF lives, Life
<1>2. L!End(S)
  BY <1>1, EndOfLife DEF L!End, L!Over, End, lives
<1> QED
  BY <1>2 DEF L!Next

\* A listener that closes takes what waits there with it; closing one that is
\* closed changes nothing.
LEMMA CloseMaps ==
    ASSUME SocketsOK, PortsOK, NEW l \in Ports, CloseListener(l)
    PROVE  [L!Next]_L!vars
<1> DEFINE W == {c \in Conns : conn[c] = "backlog" /\ at[c] = l}
<1>1. /\ open' = open \ {l} /\ End(W)
      /\ lives' = [c \in Conns |-> IF c \in W THEN "over" ELSE lives[c]]
  BY EndOfLife DEF CloseListener
<1>2. CASE l \in open
  <2>1. W = {c \in Conns : lives[c] = "waiting" /\ at[c] = l}
    BY DEF lives, Life
  <2>2. L!Close(l)
    BY <1>1, <1>2, <2>1 DEF L!Close, L!Over, End, lives
  <2> QED
    BY <2>2 DEF L!Next
<1>3. CASE l \notin open
  <2>1. W = {}
    BY <1>3 DEF PortsOK
  <2>2. open' = open /\ at' = at /\ lives' = lives
    BY <1>1, <1>3, <2>1 DEF End, SocketsOK, lives
  <2> QED
    BY <2>2, LivesAreFelt
<1> QED
  BY <1>2, <1>3

LEMMA OpenMaps ==
    ASSUME NEW l \in Ports, Listen(l) PROVE [L!Next]_L!vars
<1>1. L!Open(l)
  BY DEF Listen, L!Open
<1> QED
  BY <1>1 DEF L!Next

LEMMA SameMaps ==
    ASSUME UNCHANGED sockets PROVE [L!Next]_L!vars
  BY DEF sockets, L!vars

LEMMA HTTPMaps ==
    ASSUME Wiring, HTTPs(MuxStep(cfg.listen)) PROVE [L!Next]_L!vars
<1> USE DEF Wiring, TypeParts
<1>1. CASE NewMuxListener(cfg.listen)
  BY <1>1, OpenMaps DEF NewMuxListener, Listen
<1>2. CASE NewMuxListenerFails \/ SetListener \/ SetServer \/ AcceptFails(cfg.listen)
           \/ ServeStarts \/ ServeEnds
  BY <1>2, SameMaps DEF NewMuxListenerFails, SetListener, SetServer, AcceptFails,
                        ServeStarts, ServeEnds
<1>3. CASE ServeAccepts
  <2>1. Head(queue) \in Conns
    BY <1>3 DEF ServeAccepts, QueueOK
  <2> QED
    BY <1>3, <2>1, MoveMaps DEF ServeAccepts, Life, Stages, HTTPStages
<1>4. ASSUME NEW c \in Conns, AcceptHTTP(c, cfg.listen) PROVE [L!Next]_L!vars
  <2>1. cfg.listen \in Ports
    BY <1>4 DEF AcceptHTTP, Accept, SocketsOK
  <2> QED
    BY <1>4, <2>1, AcceptMaps DEF AcceptHTTP, Life, Stages, HTTPStages
<1>5. ASSUME NEW c \in Conns, Peek(c) \/ Enqueue(c) \/ Track(c) PROVE [L!Next]_L!vars
  BY <1>5, MoveMaps DEF Peek, Enqueue, Track, Life, Stages, HTTPStages
<1>6. ASSUME NEW c \in Conns, EnqueueAbandoned(c) \/ HandlerEnds(c) PROVE [L!Next]_L!vars
  BY <1>6, EndMaps DEF EnqueueAbandoned, HandlerEnds, Return
<1> QED
  BY <1>1, <1>2, <1>3, <1>4, <1>5, <1>6 DEF HTTPs, MuxStep, StartStep, ServeStep

LEMMA TCPMaps ==
    ASSUME Wiring, TCPs(TCPStep) PROVE [L!Next]_L!vars
<1> USE DEF Wiring, TypeParts
<1>1. ASSUME NEW l \in Ports, NEW c \in Conns, AcceptTCP(c, l) PROVE [L!Next]_L!vars
  BY <1>1, AcceptMaps DEF AcceptTCP, Life, Stages, JumpStages
<1>2. ASSUME NEW c \in Conns,
             RouteEnds(c) \/ JumpFails(c) \/ JumpCancelled(c) \/ StreamEnds(c)
      PROVE [L!Next]_L!vars
  BY <1>2, EndMaps DEF RouteEnds, JumpFails, JumpCancelled, StreamEnds, JumpReturns,
                       Return, JumpStages
<1>3. ASSUME NEW c \in Conns,
             \/ FastPath(c) \/ SlowPath(c) \/ Discover(c) \/ Create(c)
             \/ PodIsReady(c) \/ OpenStream(c)
      PROVE [L!Next]_L!vars
  BY <1>3, MoveMaps DEF FastPath, SlowPath, UseClient, Discover, MustCreate, Create,
                        PodIsReady, OpenStream, Life, Stages, JumpStages
<1>4. ASSUME NEW l \in Ports, AcceptLoopEnds(l) PROVE [L!Next]_L!vars
  BY <1>4, SameMaps DEF AcceptLoopEnds
<1>5. CASE PodChanges
  BY <1>5, SameMaps DEF PodChanges
<1> QED
  BY <1>1, <1>2, <1>3, <1>4, <1>5 DEF TCPs, TCPStep, JumpStep

LEMMA MainMaps ==
    ASSUME Wiring, MainStep \/ Stop \/ Client PROVE [L!Next]_L!vars
<1> USE DEF Wiring, TypeParts
<1>1. CASE Load \/ TCPStarted \/ StartTCPFails \/ Stop \/ ShutdownManager
  BY <1>1, SameMaps DEF Load, TCPStarted, StartTCPFails, Stop, ShutdownManager, Clear
<1>2. CASE Exit
  <2>1. L!Exit
    BY <1>2, EndOfLife DEF Exit, End, L!Exit, L!Over, lives
  <2> QED
    BY <2>1 DEF L!Next
<1>3. ASSUME NEW l \in Ports, StartTCP(l) PROVE [L!Next]_L!vars
  BY <1>3, OpenMaps DEF StartTCP, StartListener
<1>4. CASE ShutdownHTTP
  <2>1. CASE CloseDone
    BY <2>1, SameMaps DEF CloseDone
  <2>2. CASE CloseMux(cfg.listen)
    <3>1. CASE cfg.listen \in Ports
      BY <2>2, <3>1, SameMaps, CloseMaps DEF CloseMux
    <3>2. CASE cfg.listen \notin Ports
      <4>1. open \ {cfg.listen} = open
        BY <3>2 DEF SocketsOK
      <4>2. \A c \in Conns : ~(conn[c] = "backlog" /\ at[c] = cfg.listen)
        BY <3>2 DEF PortsOK, SocketsOK
      <4>3. CASE CloseListener(cfg.listen)
        <5>1. open' = open /\ at' = at
          BY <4>1, <4>2, <4>3 DEF CloseListener, End, SocketsOK
        <5>2. conn' = conn
          BY <4>2, <4>3 DEF CloseListener, End, SocketsOK
        <5> QED
          BY <5>1, <5>2, SameMaps DEF sockets
      <4> QED
        BY <2>2, <4>3, SameMaps DEF CloseMux
    <3> QED
      BY <3>1, <3>2
  <2>3. CASE CloseServer
    <3>1. CASE HasServer
      BY <2>3, <3>1, EndMaps DEF CloseServer
    <3>2. CASE ~HasServer
      BY <2>3, <3>2, SameMaps DEF CloseServer
    <3> QED
      BY <3>1, <3>2
  <2> QED
    BY <1>4, <2>1, <2>2, <2>3 DEF ShutdownHTTP
<1>5. CASE ShutdownTCP
  <2>1. ASSUME NEW l \in Ports, StopListener(l) PROVE [L!Next]_L!vars
    BY <2>1, CloseMaps DEF StopListener
  <2>2. CASE UNCHANGED sockets
    BY <2>2, SameMaps
  <2> QED
    BY <1>5, <2>1, <2>2 DEF ShutdownTCP, Cancel
<1>6. CASE Client
  <2>1. PICK c \in Conns, l \in Ports : Connect(c, l)
    BY <1>6 DEF Client
  <2>2. lives[c] = "away" /\ lives' = [lives EXCEPT ![c] = "waiting"]
    BY <2>1 DEF Connect, SocketsOK, lives, Life
  <2>3. L!Connect(c, l)
    BY <2>1, <2>2 DEF Connect, L!Connect, lives
  <2> QED
    BY <2>3 DEF L!Next
<1> QED
  BY <1>1, <1>2, <1>3, <1>4, <1>5, <1>6 DEF MainStep, LoadFails, ServerError, StartFailed

\* The servers implement Listener: a connection is accepted once, given to one
\* handler and closed once, and only what waits at a port is lost when it
\* closes.
THEOREM ServersImplementListener == Spec => ListenerSpec
<1>1. Init => L!Init
  <2> SUFFICES ASSUME Init PROVE L!Init
    OBVIOUS
  <2>1. lives = [c \in Conns |-> "away"]
    BY DEF Init, lives, Life
  <2> QED
    BY <2>1 DEF Init, L!Init, lives
<1>2. Wiring /\ [Next]_vars => [L!Next]_L!vars
  <2> SUFFICES ASSUME Wiring, [Next]_vars PROVE [L!Next]_L!vars
    OBVIOUS
  <2>1. CASE UNCHANGED vars
    BY <2>1, SameMaps DEF vars
  <2> QED
    BY <2>1, HTTPMaps, TCPMaps, MainMaps DEF Next
<1> QED
  BY <1>1, <1>2, WiringHolds, PTL DEF Spec, ListenerSpec, L!Spec
=============================================================================
