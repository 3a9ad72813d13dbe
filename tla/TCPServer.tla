------------------------------ MODULE TCPServer -----------------------------
(***************************************************************************)
(* The TCP server (internal/tcpserver): a listener and an accept loop for  *)
(* each local port of tcp.k8s.routes and tcp.k8s.jump, the jump handler    *)
(* (jump_handler.go), and the client factory it uses (k8sutil/client.go).  *)
(* Stages of a connection:                                                 *)
(*   "route"     handleConnection, whose inside is TunnelMgr               *)
(*   "lookup"    handleJumpConnection: the fast path of the client factory *)
(*   "build"     its slow path, under the write lock                       *)
(*   "discover"  discoverJumpPod: asks the cluster for the pod             *)
(*   "create"    the pod was not found                                     *)
(*   "wait"      WaitForPodReady, after a successful Create                *)
(*   "exec"      has a pod, opens the stream                               *)
(*   "stream"    StreamWithContext copies                                  *)
(***************************************************************************)
EXTENDS Sockets, Config

CONSTANT Contexts    \* Kubernetes contexts that routes name

VARIABLES
    cfg,        \* the configuration
    loop,       \* loop[l]: the accept loop of port l
    listeners,  \* the keys of s.listeners
    stopped,    \* the ports whose stopChan is closed
    cancelled,  \* s.ctx is cancelled
    pod,        \* the jump pod in the cluster: "absent", "pending" (may or may
                \* not run yet, is not ready) or "ready"
    cache,      \* cache[x]: who built the cached client of context x, or None
    client      \* client[c]: who built the client that c uses, or None

tcpVars == <<cfg, loop, listeners, stopped, cancelled, pod, cache, client>>

JumpStages == {"lookup", "build", "discover", "create", "wait", "exec", "stream"}

Routes == DOMAIN cfg.routes
Jumps == DOMAIN cfg.jump
Via(c) == cfg.jump[at[c]]
Context(c) == Via(c).context

TCPInit ==
    /\ loop = [l \in Ports |-> "off"]
    /\ listeners = {} /\ stopped = {} /\ cancelled = FALSE
    /\ pod = "absent"
    /\ cache = [x \in Contexts |-> None]
    /\ client = [c \in Conns |-> None]

-----------------------------------------------------------------------------
\* startListener: Listen, store it, start its accept loop.  Start opens the
\* routes before the jump routes, each map in any order.
NextListener(l) ==
    \/ l \in Routes /\ loop[l] = "off"
    \/ l \in Jumps /\ loop[l] = "off" /\ \A r \in Routes : loop[r] # "off"

StartListener(l) ==
    /\ NextListener(l)
    /\ Listen(l)
    /\ listeners' = listeners \cup {l}
    /\ loop' = [loop EXCEPT ![l] = "run"]
    /\ UNCHANGED <<cfg, stopped, cancelled, pod, cache, client>>

AcceptTCP(c, l) ==
    /\ loop[l] = "run"
    /\ Accept(c, l, IF l \in Jumps THEN "lookup" ELSE "route")
    /\ UNCHANGED tcpVars

AcceptLoopEnds(l) ==
    /\ loop[l] = "run" /\ l \notin open
    /\ l \in stopped \/ cancelled
    /\ loop' = [loop EXCEPT ![l] = "ended"]
    /\ UNCHANGED <<sockets, cfg, listeners, stopped, cancelled, pod, cache, client>>

RouteEnds(c) ==
    /\ Return(c, {"route"})
    /\ UNCHANGED tcpVars

-----------------------------------------------------------------------------
\* Server.Shutdown: cancel, then under s.mu each listener, then wg.Wait.
Cancel ==
    /\ cancelled' = TRUE
    /\ UNCHANGED <<sockets, cfg, loop, listeners, stopped, pod, cache, client>>

StopListener(l) ==
    /\ l \in listeners
    /\ stopped' = stopped \cup {l}
    /\ CloseListener(l)
    /\ listeners' = listeners \ {l}
    /\ UNCHANGED <<cfg, loop, cancelled, pod, cache, client>>

\* Mutant: Shutdown has no wg.Wait.
LoopsNotAwaited == TRUE

LoopsEnded == \A l \in Ports : loop[l] # "run"

-----------------------------------------------------------------------------
\* ClientFactory.GetClientForContext, for the context of c's route.
UseClient(c, from, builder) ==
    /\ Move(c, from, "discover")
    /\ client' = [client EXCEPT ![c] = builder]

FastPath(c) ==
    /\ conn[c] = "lookup"
    /\ \/ /\ cache[Context(c)] # None
          /\ UseClient(c, "lookup", cache[Context(c)])
       \/ /\ cache[Context(c)] = None
          /\ Move(c, "lookup", "build")
          /\ UNCHANGED client
    /\ UNCHANGED <<cfg, loop, listeners, stopped, cancelled, pod, cache>>

\* Mutant: the cache is not looked at again under the write lock.
SlowPathUnchecked(c) ==
    /\ conn[c] = "build"
    /\ UseClient(c, "build", c)
    /\ cache' = [cache EXCEPT ![Context(c)] = c]
    /\ UNCHANGED <<cfg, loop, listeners, stopped, cancelled, pod>>

\* The write lock is held from the second look at the cache to the store.
SlowPath(c) ==
    /\ conn[c] = "build"
    /\ IF cache[Context(c)] # None
       THEN UseClient(c, "build", cache[Context(c)]) /\ UNCHANGED cache
       ELSE /\ UseClient(c, "build", c)
            /\ cache' = [cache EXCEPT ![Context(c)] = c]
    /\ UNCHANGED <<cfg, loop, listeners, stopped, cancelled, pod>>

\* ClientFactory.Clear, which does not ask who is about to build a client.
Clear ==
    /\ cache' = [x \in Contexts |-> None]
    /\ UNCHANGED <<sockets, cfg, loop, listeners, stopped, cancelled, pod, client>>

-----------------------------------------------------------------------------
\* ensureJumpPodExists asks whether via.pod exists only if it may create it.
MustCreate(c) == Via(c).create # "none" /\ pod = "absent"

\* FindReadyPod takes a ready pod if there is one, else any running one; if
\* none runs, JumpFails.
PodIsFound == pod # "absent"

\* discoverJumpPod
Discover(c) ==
    /\ conn[c] = "discover"
    /\ IF Via(c).pod # ""
       THEN Move(c, "discover", IF MustCreate(c) THEN "create" ELSE "exec")
       ELSE PodIsFound /\ Move(c, "discover", "exec")
    /\ UNCHANGED tcpVars

\* Create answers AlreadyExists if another connection, or somebody else, was
\* faster: then nobody waits for the pod here.
Create(c) ==
    /\ Move(c, "create", IF pod = "absent" THEN "wait" ELSE "exec")
    /\ pod' = IF pod = "absent" THEN "pending" ELSE pod
    /\ UNCHANGED <<cfg, loop, listeners, stopped, cancelled, cache, client>>

PodIsReady(c) ==
    /\ pod = "ready"
    /\ Move(c, "wait", "exec")
    /\ UNCHANGED tcpVars

BuildForwardCommand(c) == IsValidTargetHost(Via(c).host)

\* The API server refuses a pod whose container does not run yet, which a
\* pending one may do: then JumpFails.
OpenStream(c) ==
    /\ conn[c] = "exec"
    /\ BuildForwardCommand(c) /\ pod # "absent" /\ ~cancelled
    /\ Move(c, "exec", "stream")
    /\ UNCHANGED tcpVars

\* HandleConnection returns from one of the stages S.
JumpReturns(c, S) ==
    /\ Return(c, S)
    /\ client' = [client EXCEPT ![c] = None]
    /\ UNCHANGED <<cfg, loop, listeners, stopped, cancelled, pod, cache>>

\* Every call to the API can fail, and WaitForPodReady times out.
JumpFails(c) == JumpReturns(c, JumpStages \ {"lookup", "stream"})

\* The client (connReadWriter cancels the stream when Read fails) or the pod.
StreamEnds(c) == JumpReturns(c, {"stream"})

\* Mutant: the stream is opened with a context of its own.
JumpCancelledBefore(c) ==
    /\ cancelled
    /\ JumpReturns(c, JumpStages \ {"lookup", "build", "stream"})

\* Everything after the lookup of the client watches s.ctx.
JumpCancelled(c) ==
    /\ cancelled
    /\ JumpReturns(c, JumpStages \ {"lookup", "build"})

JumpStep(c) ==
    \/ FastPath(c) \/ SlowPath(c) \/ Discover(c) \/ Create(c) \/ PodIsReady(c)
    \/ OpenStream(c) \/ JumpFails(c) \/ JumpCancelled(c)

\* The cluster, which others use as well (external).  What it does while no
\* connection needs the pod makes no difference.
PodChanges ==
    /\ \E c \in Conns : conn[c] \in {"discover", "create", "wait", "exec"}
    /\ \/ pod = "absent" /\ pod' = "pending"
       \/ pod = "pending" /\ pod' = "ready"
       \/ pod # "absent" /\ pod' = "absent"
    /\ UNCHANGED <<sockets, cfg, loop, listeners, stopped, cancelled, cache, client>>

TCPStep ==
    \/ \E l \in Ports : AcceptLoopEnds(l) \/ \E c \in Conns : AcceptTCP(c, l)
    \/ \E c \in Conns : RouteEnds(c) \/ JumpStep(c) \/ StreamEnds(c)
    \/ PodChanges
=============================================================================
