----------------------------- MODULE TunnelMgr -----------------------------
(***************************************************************************)
(* The tunnel manager of internal/tunnelmgr and the connection handlers of *)
(* internal/httpserver and internal/tcpserver, composed with Tunnel.       *)
(*                                                                         *)
(* The manager keeps one registry of tunnels per protocol, m.tunnels and   *)
(* m.tcpTunnels, each with its mutex.  GetOrCreate* hands tunnels out of   *)
(* them, the idle cleanup loop stops and removes idle ones, Shutdown stops *)
(* and removes all.  A handler keeps the tunnel it was handed, whatever    *)
(* the manager does with it meanwhile.                                     *)
(*                                                                         *)
(* A caller of Tunnel is here one attempt of one handler: HTTP, TLS, TCP,  *)
(* or the second attempt of an HTTP request.                               *)
(***************************************************************************)
EXTENDS Tunnel, Naturals

CONSTANTS
    Hosts,              \* HTTP and TLS routes, by hostname
    Ports,              \* TCP routes, by local port
    HTTP, TLS, TCP,     \* the callers that are handlers of each protocol
    Retry,              \* the callers that are second attempts ...
    First,              \* ... and the first attempt each belongs to
    HTTPIdleTimeout,    \* config.HTTP.IdleTimeout, in ticks
    TCPIdleTimeout      \* config.TCP.IdleTimeout, 0 when not configured

ASSUME HandlersAssumption ==
    /\ Callers = HTTP \cup TLS \cup TCP \cup Retry
    /\ First \in [Retry -> HTTP]
    /\ \A p, q \in Retry : First[p] = First[q] => p = q
    /\ HTTP \cap TLS = {} /\ HTTP \cap TCP = {} /\ TLS \cap TCP = {}
    /\ Retry \cap (HTTP \cup TLS \cup TCP) = {}
    /\ Recovering = HTTP \cup Retry
ASSUME RoutesAssumption == Hosts \cap Ports = {} /\ None \notin Hosts \cup Ports
ASSUME TimeoutsAssumption == HTTPIdleTimeout \in Nat /\ TCPIdleTimeout \in Nat

VARIABLES
    reg,        \* m.tunnels and m.tcpTunnels
    route,      \* the hostname or port each tunnel was created for
    age,        \* ticks since t.lastAccess
    handed,     \* ticks since the manager last handed the tunnel out
    retrying,   \* the second attempts that ServeHTTP has reached
    cleaner,    \* idleCleanupLoop
    down        \* how far Shutdown has come

mgrVars == <<reg, route, age, handed, retrying, cleaner, down>>
vars == <<tunnelVars, mgrVars>>

Keys == Hosts \cup Ports
KeysOf(d) == IF d = "http" THEN Hosts ELSE Ports

\* The TCP idle timeout falls back to the one of HTTP.
IdleTimeout(k) ==
    IF k \in Ports /\ TCPIdleTimeout # 0 THEN TCPIdleTimeout ELSE HTTPIdleTimeout

\* Ages saturate one tick after the longest timeout.
MaxAge == 1 + (IF TCPIdleTimeout > HTTPIdleTimeout THEN TCPIdleTimeout ELSE HTTPIdleTimeout)

ShutdownStages == {"no", "cancelled", "http", "between", "tcp", "waiting", "down"}

RegistryTypeOK ==
    /\ reg \in [Keys -> Tunnels \cup {None}]
    /\ route \in [Tunnels -> Keys \cup {None}]
    /\ age \in [Tunnels -> 0..MaxAge]
    /\ handed \in [Tunnels -> 0..MaxAge]
    /\ retrying \subseteq Retry
    /\ cleaner \in [at : {"rest", "http", "between", "tcp", "ended"},
                    left : SUBSET Keys, victim : Keys \cup {None}]
    /\ down \in ShutdownStages

MgrTypeOK == TypeOK /\ RegistryTypeOK

MgrInit ==
    /\ Init
    /\ reg = [k \in Keys |-> None]
    /\ route = [t \in Tunnels |-> None]
    /\ age = [t \in Tunnels |-> 0]
    /\ handed = [t \in Tunnels |-> 0]
    /\ retrying = {}
    /\ cleaner = [at |-> "rest", left |-> {}, victim |-> None]
    /\ down = "no"

-----------------------------------------------------------------------------
(* Handing tunnels out.                                                    *)

\* The mutex of a registry is held by the cleanup loop and by Shutdown over
\* several sections of the tunnels' own mutexes; GetOrCreate* is one action.
Locked(d) == cleaner.at = d \/ down = d
Domain(k) == IF k \in Hosts THEN "http" ELSE "tcp"

\* A registered tunnel is handed out again unless it is stopping or failed.
Kept(k) == reg[k] # None /\ state[reg[k]] \notin {"stopping", "failed"}

Serves(p, k) ==
    \/ p \in HTTP \cup TLS /\ k \in Hosts
    \/ p \in TCP /\ k \in Ports
    \/ p \in retrying /\ k = route[on[First[p]]]

Touched(t) == [age EXCEPT ![t] = 0]

\* Mutant: a registered tunnel is handed out again without Touch.
GetOrCreateUntouched(p, k) ==
    /\ ~Locked(Domain(k))
    /\ Serves(p, k)
    /\ \E t \in Tunnels :
        /\ IF Kept(k) THEN t = reg[k] ELSE route[t] = None
        /\ Acquire(p, t)
        /\ reg' = [reg EXCEPT ![k] = t]
        /\ route' = [route EXCEPT ![t] = k]
        /\ age' = IF Kept(k) THEN age ELSE Touched(t)
        /\ handed' = [handed EXCEPT ![t] = 0]
    /\ UNCHANGED <<retrying, cleaner, down>>

\* What GetOrCreateTunnel and GetOrCreateTCPTunnel have in common.  A tunnel
\* object is new when it was created for no route yet.
GetOrCreate(p, k) ==
    /\ ~Locked(Domain(k))
    /\ Serves(p, k)
    /\ \E t \in Tunnels :
        /\ IF Kept(k) THEN t = reg[k] ELSE route[t] = None
        /\ Acquire(p, t)
        /\ reg' = [reg EXCEPT ![k] = t]
        /\ route' = [route EXCEPT ![t] = k]
        /\ age' = Touched(t)
        /\ handed' = [handed EXCEPT ![t] = 0]
    /\ UNCHANGED <<retrying, cleaner, down>>

\* The client factory has no client for the route's context: the handler
\* answers with an error, and the failed tunnel is gone from the registry.
NoClient(p, k) ==
    /\ ~Locked(Domain(k))
    /\ At(p, "new")
    /\ Serves(p, k)
    /\ ~Kept(k)
    /\ reg' = [reg EXCEPT ![k] = None]
    /\ UNCHANGED <<tunnelVars, route, age, handed, retrying, cleaner, down>>

-----------------------------------------------------------------------------
(* ServeHTTP, handleTLSConnection and handleConnection.                    *)

\* HTTP and TLS handlers touch the tunnel, then read its port.
UsePort(p) ==
    /\ LocalPort(p)
    /\ age' = IF p \in TCP THEN age ELSE Touched(on[p])
    /\ UNCHANGED <<reg, route, handed, retrying, cleaner, down>>

\* TCP handlers touch the tunnel when they are connected.
Connect(p) ==
    /\ DialOK(p)
    /\ age' = IF p \in TCP THEN Touched(on[p]) ELSE age
    /\ UNCHANGED <<reg, route, handed, retrying, cleaner, down>>

PortOpen(p) == port[p] # None /\ fwPhase[port[p]] = "listening"

\* A TLS or TCP handler fails to connect when nothing listens on the port; a
\* proxied request also fails when the pod breaks the connection off.  The
\* second attempt of a request reports the failure to its client only.
ConnectFail(p) ==
    /\ ~(p \in TLS \cup TCP /\ PortOpen(p))
    /\ IF p \in Retry THEN DialAbandoned(p) ELSE DialFail(p)
    /\ UNCHANGED mgrVars

\* The client of a proxied request went away: proxyRequest returns nil.
ClientGone(p) ==
    /\ DialAbandoned(p)
    /\ UNCHANGED mgrVars

\* ServeHTTP goes on to its second attempt when MarkFailed returns.
MarkAndRetry(p) ==
    LET panics == state[on[p]] \in {"running", "starting"} /\ stopChan[on[p]] \in stopClosed
    IN
    /\ MarkFailed(p)
    /\ retrying' = IF panics THEN retrying ELSE retrying \cup {q \in Retry : First[q] = p}
    /\ UNCHANGED <<reg, route, age, handed, cleaner, down>>

TunnelOnly(p) ==
    /\ \/ IsRunning(p) \/ StartStep(p) \/ CtxDone(p) \/ CopyDone(p)
       \/ ForwarderStep(p) \/ MonitorErrors(p)
    /\ UNCHANGED mgrVars

-----------------------------------------------------------------------------
(* idleCleanupLoop.                                                        *)

\* cleanupIdleHTTPTunnels, then cleanupIdleTCPTunnels, lock their registry
\* and go through its tunnels in any order.
SweepBegin(d) ==
    /\ cleaner.at = IF d = "http" THEN "rest" ELSE "between"
    /\ down # d
    /\ cleaner' = [at |-> d, left |-> {k \in KeysOf(d) : reg[k] # None}, victim |-> None]
    /\ UNCHANGED <<tunnelVars, reg, route, age, handed, retrying, down>>

\* IsRunning and IdleDuration are asked before Stop is called ...
SweepCheck(k) ==
    /\ k \in cleaner.left
    /\ cleaner.victim = None
    /\ cleaner' = IF state[reg[k]] = "running" /\ age[reg[k]] > IdleTimeout(k)
                    THEN [cleaner EXCEPT !.victim = k]
                    ELSE [cleaner EXCEPT !.left = @ \ {k}]
    /\ UNCHANGED <<tunnelVars, reg, route, age, handed, retrying, down>>

\* Mutant: the tunnel is stopped on the strength of the earlier IsRunning.
SweepStopUnchecked(k) ==
    LET t == reg[k] IN
    /\ cleaner.victim = k
    /\ CloseStop(None, stopChan[t])
    /\ state' = [state EXCEPT ![t] = "idle"]
    /\ UNCHANGED <<localPort, lastError, stopChan, readyChan, callerVars, forwarderVars,
                   monitor, readyClosed>>
    /\ reg' = [reg EXCEPT ![k] = None]
    /\ cleaner' = [cleaner EXCEPT !.left = @ \ {k}, !.victim = None]
    /\ UNCHANGED <<route, age, handed, retrying, down>>

\* ... and the tunnel is removed even if it does not run any more.
SweepStop(k) ==
    /\ cleaner.victim = k
    /\ IF state[reg[k]] = "running" THEN Stop(reg[k]) ELSE UNCHANGED tunnelVars
    /\ reg' = [reg EXCEPT ![k] = None]
    /\ cleaner' = [cleaner EXCEPT !.left = @ \ {k}, !.victim = None]
    /\ UNCHANGED <<route, age, handed, retrying, down>>

\* Mutant: the loop forgets the TCP tunnels.
SweepEndEarly(d) ==
    /\ cleaner.at = d
    /\ cleaner.left = {}
    /\ cleaner' = [cleaner EXCEPT !.at = "rest"]
    /\ UNCHANGED <<tunnelVars, reg, route, age, handed, retrying, down>>

SweepEnd(d) ==
    /\ cleaner.at = d
    /\ cleaner.left = {}
    /\ cleaner' = [cleaner EXCEPT !.at = IF d = "http" THEN "between" ELSE "rest"]
    /\ UNCHANGED <<tunnelVars, reg, route, age, handed, retrying, down>>

\* The loop ends when it sees m.ctx done; a tick that is due as well may win.
CleanupLoopEnds ==
    /\ cleaner.at = "rest"
    /\ down # "no"
    /\ cleaner' = [cleaner EXCEPT !.at = "ended"]
    /\ UNCHANGED <<tunnelVars, reg, route, age, handed, retrying, down>>

SweepStep ==
    \/ \E d \in {"http", "tcp"} : SweepBegin(d) \/ SweepEnd(d)
    \/ \E k \in Keys : SweepCheck(k) \/ SweepStop(k)
    \/ CleanupLoopEnds

Tick ==
    LET older(ages) == [t \in Tunnels |->
            IF route[t] # None /\ ages[t] < MaxAge THEN ages[t] + 1 ELSE ages[t]]
    IN
    /\ age' = older(age)
    /\ handed' = older(handed)
    /\ UNCHANGED <<tunnelVars, reg, route, retrying, cleaner, down>>

-----------------------------------------------------------------------------
(* Shutdown.  Handlers that are still at work are not waited for.          *)

ShutdownMove(from, to) ==
    /\ down = from
    /\ down' = to
    /\ UNCHANGED <<tunnelVars, reg, route, age, handed, retrying, cleaner>>

ShutdownBegin == ShutdownMove("no", "cancelled")

ShutdownLock(d) ==
    /\ cleaner.at # d
    /\ ShutdownMove(IF d = "http" THEN "cancelled" ELSE "between", d)

\* Only running tunnels are stopped.
ShutdownStop(k) ==
    /\ down = Domain(k)
    /\ reg[k] # None
    /\ IF state[reg[k]] = "running" THEN Stop(reg[k]) ELSE UNCHANGED tunnelVars
    /\ reg' = [reg EXCEPT ![k] = None]
    /\ UNCHANGED <<route, age, handed, retrying, cleaner, down>>

\* Mutant: m.wg.Wait() comes before the last unlock.
ShutdownUnlockLate(d) ==
    /\ \A k \in KeysOf(d) : reg[k] = None
    /\ d = "tcp" => cleaner.at = "ended"
    /\ ShutdownMove(d, IF d = "http" THEN "between" ELSE "waiting")

ShutdownUnlock(d) ==
    /\ \A k \in KeysOf(d) : reg[k] = None
    /\ ShutdownMove(d, IF d = "http" THEN "between" ELSE "waiting")

\* m.wg.Wait()
ShutdownEnd == cleaner.at = "ended" /\ ShutdownMove("waiting", "down")

ShutdownStep ==
    \/ \E d \in {"http", "tcp"} : ShutdownLock(d) \/ ShutdownUnlock(d)
    \/ \E k \in Keys : ShutdownStop(k)
    \/ ShutdownEnd

-----------------------------------------------------------------------------
GetOrCreateTunnel(p) == \E k \in Hosts : GetOrCreate(p, k) \/ NoClient(p, k)
GetOrCreateTCPTunnel(p) == \E k \in Ports : GetOrCreate(p, k) \/ NoClient(p, k)

\* From the hand-out to the end of the connection.
UseTunnel(p) ==
    \/ UsePort(p) \/ Connect(p) \/ ConnectFail(p) \/ MarkAndRetry(p)
    \/ TunnelOnly(p)

ServeHTTP(p) ==
    p \in HTTP \cup Retry /\ (GetOrCreateTunnel(p) \/ UseTunnel(p) \/ ClientGone(p))

HandleTLSConnection(p) == p \in TLS /\ (GetOrCreateTunnel(p) \/ UseTunnel(p))

HandleConnection(p) == p \in TCP /\ (GetOrCreateTCPTunnel(p) \/ UseTunnel(p))

HandlerStep(p) == ServeHTTP(p) \/ HandleTLSConnection(p) \/ HandleConnection(p)

MgrNext ==
    /\ ~crashed
    /\ \/ \E p \in Callers : HandlerStep(p)
       \/ SweepStep
       \/ Tick
       \/ ShutdownBegin \/ ShutdownStep

MgrSpec == MgrInit /\ [][MgrNext]_vars

\* The ticker fires every 30 seconds, time passes, goroutines are scheduled; a
\* select takes every case that is ready again and again, and a sync.Mutex
\* starves nobody.  Nothing is assumed of clients and of the cluster.
MgrFairness ==
    /\ WF_vars(~crashed /\ SweepStep)
    /\ WF_vars(~crashed /\ Tick)
    /\ WF_vars(~crashed /\ ShutdownStep)
    /\ SF_vars(~crashed /\ CleanupLoopEnds)
    /\ \A d \in {"http", "tcp"} : SF_vars(~crashed /\ ShutdownLock(d))

MgrFairSpec == MgrSpec /\ MgrFairness

\* The behaviours in which Shutdown is not called.
MgrUpSpec == MgrInit /\ [][MgrNext /\ down' = "no"]_vars /\ MgrFairness

\* The behaviours before the ticker fires for the first time.
MgrEarlySpec == MgrInit /\ [][~crashed /\ \E p \in Callers : HandlerStep(p)]_vars

-----------------------------------------------------------------------------
(* Properties.                                                             *)

\* The cleanup loop never stops a tunnel that was handed out within the idle
\* timeout: it decides and stops under the mutex under which GetOrCreate*
\* finds and touches the tunnel, so no hand-out falls in between.
HandedOutIsKept ==
    \A k \in Keys : cleaner.victim = k => handed[reg[k]] > IdleTimeout(k)

\* A registered tunnel does not stay running and untouched for ever.
IdleCollected ==
    \A k \in Keys, t \in Tunnels :
        reg[k] = t /\ state[t] = "running" /\ age[t] > IdleTimeout(k)
        ~> reg[k] # t \/ state[t] # "running" \/ age[t] <= IdleTimeout(k) \/ crashed

\* Shutdown returns: it and the cleanup loop it waits for never wait for each
\* other's mutexes.
ShutdownReturns == down = "cancelled" ~> down = "down" \/ crashed

\* The second attempt of a request is not sent to the port on which the first
\* has failed: ServeHTTP marks the tunnel failed "so GetOrCreateTunnel creates a
\* fresh one" and retries "once with the new tunnel".
RetriesElsewhere ==
    \A r \in Retry : port[r] # None => port[r] # port[First[r]]

\* No sequence of connections, idle stops and shutdown ends the process: the
\* tests say of a second Stop that it "should be safe (no panic from double
\* close)", of MarkFailed on a failed tunnel that it does "not panic".
NeverPanics == ~crashed
=============================================================================
