------------------------------- MODULE Tunnel -------------------------------
(***************************************************************************)
(* The life of the Tunnel objects of internal/tunnel: one Tunnel is one    *)
(* port-forward to a pod.  Its fields are shared by every connection       *)
(* goroutine that was handed the tunnel; its mutex t.mu is held only for   *)
(* short sections that never block, so each section is one action here.    *)
(* Everything a goroutine does outside t.mu (the assignments of stopChan   *)
(* and readyChan, the closes in waitForReady) is an action of its own.     *)
(*                                                                         *)
(* A caller is one connection goroutine: it is handed a tunnel, checks     *)
(* IsRunning, calls Start if need be, dials the local port, and calls      *)
(* MarkFailed when the dial fails.  A caller runs startPortForward at most *)
(* once, so the forwarder, the stop and ready channels and the local port  *)
(* that a start creates are named after the caller that created them.      *)
(*                                                                         *)
(* Here the client is the most general one: a caller may be handed any     *)
(* tunnel at any time and Stop may be called at any time.  TunnelMgr       *)
(* replaces this client by the manager and the three connection handlers.  *)
(***************************************************************************)

CONSTANTS
    Callers,    \* connection goroutines
    Tunnels,    \* Tunnel objects
    Recovering, \* the callers run by net/http, which recovers their panics
    None        \* a nil channel, an unset port, no tunnel

ASSUME NoneAssumption == None \notin Callers /\ None \notin Tunnels
ASSUME RecoveringAssumption == Recovering \subseteq Callers

VARIABLES
    state,          \* t.state
    localPort,      \* t.localPort: the caller whose forwarder owns the port
    lastError,      \* t.lastError, nil or not
    stopChan,       \* t.stopChan: the caller that made the channel
    readyChan,      \* t.readyChan, likewise
    pc,             \* where each caller is
    on,             \* the tunnel each caller was handed
    err,            \* the error a caller is about to pass to setFailed
    selReady,       \* the ready channel a caller's select waits on
    port,           \* the local port a caller dials
    fwPhase,        \* the forwarder of each caller (client-go PortForwarder)
    fwStop,         \* the stop channel that forwarder was given
    fwReady,        \* the ready channel that forwarder was given
    monitor,        \* the monitorErrors goroutine of each caller's start
    stopClosed,     \* the stop channels that are closed
    readyClosed,    \* the ready channels that are closed
    crashed         \* a panic nobody recovers ended the process

objectVars    == <<state, localPort, lastError, stopChan, readyChan>>
callerVars    == <<pc, on, err, selReady, port>>
forwarderVars == <<fwPhase, fwStop, fwReady>>
channelVars   == <<stopClosed, readyClosed, crashed>>
tunnelVars    == <<objectVars, callerVars, forwarderVars, monitor, channelVars>>

\* StateStopping is overwritten before Stop releases t.mu; it is left behind
\* only by a Stop that panics.
States == {"idle", "starting", "running", "stopping", "failed"}

\* The program counters of a caller inside startPortForward.
StarterPCs == {"discover", "makeStop", "makeReady", "forward", "select",
               "wait", "setRunning", "fail", "giveUp"}

PCs == {"new", "check", "start", "await", "ready", "dial", "mark", "copy",
        "done"} \cup StarterPCs

\* ForwardPorts of client-go: it dials, listens and closes the ready channel,
\* then waits for the stop channel (it returns nil) or for the loss of the
\* connection to the pod (it returns an error).
ForwarderPhases == {"none", "dialing", "listening", "stopped", "refused", "lost"}
Returned(p) == fwPhase[p] \in {"stopped", "refused", "lost"}
Listened(p) == fwPhase[p] \in {"listening", "stopped", "lost"}
ReturnedError(p) == fwPhase[p] \in {"refused", "lost"}

TypeOK ==
    /\ state \in [Tunnels -> States]
    /\ localPort \in [Tunnels -> Callers \cup {None}]
    /\ lastError \in [Tunnels -> {"nil", "error"}]
    /\ stopChan \in [Tunnels -> Callers \cup {None}]
    /\ readyChan \in [Tunnels -> Callers \cup {None}]
    /\ pc \in [Callers -> PCs]
    /\ on \in [Callers -> Tunnels \cup {None}]
    /\ err \in [Callers -> {"nil", "error"}]
    /\ selReady \in [Callers -> Callers \cup {None}]
    /\ port \in [Callers -> Callers \cup {None}]
    /\ fwPhase \in [Callers -> ForwarderPhases]
    /\ fwStop \in [Callers -> Callers \cup {None}]
    /\ fwReady \in [Callers -> Callers \cup {None}]
    /\ monitor \in [Callers -> {"off", "watching", "done"}]
    /\ stopClosed \subseteq Callers
    /\ readyClosed \subseteq Callers
    /\ crashed \in BOOLEAN

Init ==
    /\ state = [t \in Tunnels |-> "idle"]
    /\ localPort = [t \in Tunnels |-> None]
    /\ lastError = [t \in Tunnels |-> "nil"]
    /\ stopChan = [t \in Tunnels |-> None]
    /\ readyChan = [t \in Tunnels |-> None]
    /\ pc = [p \in Callers |-> "new"]
    /\ on = [p \in Callers |-> None]
    /\ err = [p \in Callers |-> "nil"]
    /\ selReady = [p \in Callers |-> None]
    /\ port = [p \in Callers |-> None]
    /\ fwPhase = [p \in Callers |-> "none"]
    /\ fwStop = [p \in Callers |-> None]
    /\ fwReady = [p \in Callers |-> None]
    /\ monitor = [p \in Callers |-> "off"]
    /\ stopClosed = {}
    /\ readyClosed = {}
    /\ crashed = FALSE

-----------------------------------------------------------------------------
At(p, here) == pc[p] = here
GoTo(p, there) == pc' = [pc EXCEPT ![p] = there]

\* close(c) of a stop channel by p: closing it twice panics.  A panic in a
\* caller that net/http runs ends that caller only.
CloseStop(p, c) ==
    /\ stopClosed' = stopClosed \cup {c}
    /\ crashed' = (c \in stopClosed /\ p \notin Recovering)

-----------------------------------------------------------------------------
(* What a connection handler does with the tunnel it was handed.           *)

Acquire(p, t) ==
    /\ At(p, "new")
    /\ GoTo(p, "check")
    /\ on' = [on EXCEPT ![p] = t]
    /\ UNCHANGED <<objectVars, err, selReady, port, forwarderVars, monitor, channelVars>>

IsRunning(p) ==
    /\ At(p, "check")
    /\ GoTo(p, IF state[on[p]] = "running" THEN "ready" ELSE "start")
    /\ UNCHANGED <<objectVars, on, err, selReady, port, forwarderVars, monitor, channelVars>>

\* The port is read once and dialled afterwards.
LocalPort(p) ==
    /\ At(p, "ready")
    /\ GoTo(p, "dial")
    /\ port' = [port EXCEPT ![p] = localPort[on[p]]]
    /\ UNCHANGED <<objectVars, on, err, selReady, forwarderVars, monitor, channelVars>>

DialOK(p) ==
    /\ At(p, "dial")
    /\ port[p] # None
    /\ fwPhase[port[p]] = "listening"
    /\ GoTo(p, "copy")
    /\ UNCHANGED <<objectVars, on, err, selReady, port, forwarderVars, monitor, channelVars>>

\* Nothing listens on the port any more, the dial times out, or the
\* forwarder accepts and the pod behind it does not answer.
DialFail(p) ==
    /\ At(p, "dial")
    /\ GoTo(p, "mark")
    /\ UNCHANGED <<objectVars, on, err, selReady, port, forwarderVars, monitor, channelVars>>

\* The same without MarkFailed: the client of a proxied request went away, or
\* the request was on its second and last attempt.
DialAbandoned(p) ==
    /\ At(p, "dial")
    /\ GoTo(p, "done")
    /\ UNCHANGED <<objectVars, on, err, selReady, port, forwarderVars, monitor, channelVars>>

MarkFailed(p) ==
    LET t == on[p] IN
    /\ At(p, "mark")
    /\ GoTo(p, "done")
    /\ \/ /\ state[t] \in {"running", "starting"}
          /\ state' = [state EXCEPT ![t] = "failed"]
          /\ lastError' = [lastError EXCEPT ![t] = "error"]
          /\ IF stopChan[t] = None THEN UNCHANGED <<stopClosed, crashed>>
                                   ELSE CloseStop(p, stopChan[t])
       \/ /\ state[t] \notin {"running", "starting"}
          /\ UNCHANGED <<state, lastError, stopClosed, crashed>>
    /\ UNCHANGED <<localPort, stopChan, readyChan, on, err, selReady, port,
                   forwarderVars, monitor, readyClosed>>

\* The bidirectional copy, or the proxied exchange, comes to its end.
CopyDone(p) ==
    /\ At(p, "copy")
    /\ GoTo(p, "done")
    /\ UNCHANGED <<objectVars, on, err, selReady, port, forwarderVars, monitor, channelVars>>

-----------------------------------------------------------------------------
(* Start and awaitReady.                                                   *)

\* Mutant: Start does not look whether another start is in progress.
StartRegardless(p) ==
    LET t == on[p] IN
    /\ At(p, "start")
    /\ \/ /\ state[t] = "running"
          /\ GoTo(p, "ready")
          /\ UNCHANGED state
       \/ /\ state[t] # "running"
          /\ GoTo(p, "discover")
          /\ state' = [state EXCEPT ![t] = "starting"]
    /\ UNCHANGED <<localPort, lastError, stopChan, readyChan, on, err, selReady,
                   port, forwarderVars, monitor, channelVars>>

\* Start under t.mu: return at once, join the start in progress, or become
\* the starter.
Start(p) ==
    LET t == on[p] IN
    /\ At(p, "start")
    /\ \/ /\ state[t] = "running"
          /\ GoTo(p, "ready")
          /\ UNCHANGED state
       \/ /\ state[t] = "starting"
          /\ GoTo(p, "await")
          /\ UNCHANGED state
       \/ /\ state[t] \notin {"running", "starting"}
          /\ GoTo(p, "discover")
          /\ state' = [state EXCEPT ![t] = "starting"]
    /\ UNCHANGED <<localPort, lastError, stopChan, readyChan, on, err, selReady,
                   port, forwarderVars, monitor, channelVars>>

\* A tick of awaitReady that ends the wait.  A failed tunnel makes Start
\* return t.lastError, which is success to the caller when it is nil.
AwaitPoll(p) ==
    LET t == on[p] IN
    /\ At(p, "await")
    /\ \/ /\ state[t] = "running"
          /\ GoTo(p, "ready")
       \/ /\ state[t] = "failed"
          /\ GoTo(p, IF lastError[t] = "nil" THEN "ready" ELSE "done")
       \/ /\ state[t] = "idle"
          /\ GoTo(p, "start")
    /\ UNCHANGED <<objectVars, on, err, selReady, port, forwarderVars, monitor, channelVars>>

AwaitCtxDone(p) ==
    /\ At(p, "await")
    /\ GoTo(p, "done")
    /\ UNCHANGED <<objectVars, on, err, selReady, port, forwarderVars, monitor, channelVars>>

-----------------------------------------------------------------------------
(* startPortForward.                                                       *)

\* discoverTargetPod finds a pod and RoundTripperFor a transport ...
Discover(p) ==
    /\ At(p, "discover")
    /\ GoTo(p, "makeStop")
    /\ UNCHANGED <<objectVars, on, err, selReady, port, forwarderVars, monitor, channelVars>>

\* ... or one of the calls fails, for any reason including a cancelled
\* context.
DiscoverFail(p) ==
    /\ At(p, "discover")
    /\ GoTo(p, "fail")
    /\ err' = [err EXCEPT ![p] = "error"]
    /\ UNCHANGED <<objectVars, on, selReady, port, forwarderVars, monitor, channelVars>>

\* Mutant: the stop channel is not made, t.stopChan stays nil.
MakeNoStopChan(p) ==
    /\ At(p, "makeStop")
    /\ GoTo(p, "makeReady")
    /\ UNCHANGED <<objectVars, on, err, selReady, port, forwarderVars, monitor, channelVars>>

\* The two channels are assigned without t.mu.
MakeStopChan(p) ==
    /\ At(p, "makeStop")
    /\ GoTo(p, "makeReady")
    /\ stopChan' = [stopChan EXCEPT ![on[p]] = p]
    /\ UNCHANGED <<state, localPort, lastError, readyChan, on, err, selReady, port,
                   forwarderVars, monitor, channelVars>>

MakeReadyChan(p) ==
    /\ At(p, "makeReady")
    /\ GoTo(p, "forward")
    /\ readyChan' = [readyChan EXCEPT ![on[p]] = p]
    /\ UNCHANGED <<state, localPort, lastError, stopChan, on, err, selReady, port,
                   forwarderVars, monitor, channelVars>>

\* portforward.New reads the two fields back; ForwardPorts runs in its own
\* goroutine.
NewForwarder(p) ==
    /\ At(p, "forward")
    /\ GoTo(p, "select")
    /\ fwPhase' = [fwPhase EXCEPT ![p] = "dialing"]
    /\ fwStop' = [fwStop EXCEPT ![p] = stopChan[on[p]]]
    /\ fwReady' = [fwReady EXCEPT ![p] = readyChan[on[p]]]
    /\ UNCHANGED <<objectVars, on, err, selReady, port, monitor, channelVars>>

NewForwarderFail(p) ==
    /\ At(p, "forward")
    /\ GoTo(p, "fail")
    /\ err' = [err EXCEPT ![p] = "error"]
    /\ UNCHANGED <<objectVars, on, selReady, port, forwarderVars, monitor, channelVars>>

\* waitForReady evaluates t.readyChan once, when the select is entered.
EnterSelect(p) ==
    /\ At(p, "select")
    /\ GoTo(p, "wait")
    /\ selReady' = [selReady EXCEPT ![p] = readyChan[on[p]]]
    /\ UNCHANGED <<objectVars, on, err, port, forwarderVars, monitor, channelVars>>

\* case <-t.readyChan, then GetPorts, which asks whether the forwarder's own
\* ready channel is closed.
WaitReady(p) ==
    /\ At(p, "wait")
    /\ selReady[p] \in readyClosed
    /\ \/ /\ fwReady[p] \in readyClosed
          /\ GoTo(p, "setRunning")
          /\ UNCHANGED err
       \/ /\ fwReady[p] \notin readyClosed
          /\ GoTo(p, "fail")
          /\ err' = [err EXCEPT ![p] = "error"]
    /\ UNCHANGED <<objectVars, on, selReady, port, forwarderVars, monitor, channelVars>>

\* case err := <-errChan: ForwardPorts returned before the select saw the
\* ready channel.
WaitReturned(p) ==
    /\ At(p, "wait")
    /\ Returned(p)
    /\ GoTo(p, "fail")
    /\ err' = [err EXCEPT ![p] = IF ReturnedError(p) THEN "error" ELSE "nil"]
    /\ UNCHANGED <<objectVars, on, selReady, port, forwarderVars, monitor, channelVars>>

\* case <-ctx.Done(): whatever t.stopChan now holds is closed, without t.mu.
WaitCtxDone(p) ==
    /\ At(p, "wait")
    /\ GoTo(p, IF stopChan[on[p]] \in stopClosed THEN "done" ELSE "giveUp")
    /\ CloseStop(p, stopChan[on[p]])
    /\ UNCHANGED <<objectVars, on, err, selReady, port, forwarderVars, monitor, readyClosed>>

\* Mutant: the timeout branch does not close the stop channel.
WaitTimeoutLeaks(p) ==
    /\ At(p, "wait")
    /\ GoTo(p, "fail")
    /\ err' = [err EXCEPT ![p] = "error"]
    /\ UNCHANGED <<objectVars, on, selReady, port, forwarderVars, monitor, channelVars>>

\* case <-time.After(PortForwardReadyTimeout)
WaitTimeout(p) ==
    /\ At(p, "wait")
    /\ GoTo(p, IF stopChan[on[p]] \in stopClosed THEN "done" ELSE "fail")
    /\ err' = [err EXCEPT ![p] = "error"]
    /\ CloseStop(p, stopChan[on[p]])
    /\ UNCHANGED <<objectVars, on, selReady, port, forwarderVars, monitor, readyClosed>>

\* The end of handleReady: whatever the state became meanwhile, it is
\* overwritten.  A forwarder that has not listened yet reports port 0.
SetRunning(p) ==
    LET t == on[p] IN
    /\ At(p, "setRunning")
    /\ GoTo(p, "ready")
    /\ localPort' = [localPort EXCEPT ![t] = IF Listened(p) THEN p ELSE None]
    /\ state' = [state EXCEPT ![t] = "running"]
    /\ monitor' = [monitor EXCEPT ![p] = "watching"]
    /\ UNCHANGED <<lastError, stopChan, readyChan, on, err, selReady, port,
                   forwarderVars, channelVars>>

\* Mutants of setFailed: the error is not recorded; the stop channel is closed
\* whatever the caller did with it.
SetFailedSilently(p) ==
    /\ At(p, "fail")
    /\ GoTo(p, "done")
    /\ state' = [state EXCEPT ![on[p]] = "failed"]
    /\ UNCHANGED <<localPort, lastError, stopChan, readyChan, on, err, selReady, port,
                   forwarderVars, monitor, channelVars>>

SetFailedCloses(p) ==
    LET t == on[p] IN
    /\ At(p, "fail")
    /\ GoTo(p, "done")
    /\ state' = [state EXCEPT ![t] = "failed"]
    /\ lastError' = [lastError EXCEPT ![t] = err[p]]
    /\ IF stopChan[t] = None THEN UNCHANGED <<stopClosed, crashed>>
                             ELSE CloseStop(p, stopChan[t])
    /\ UNCHANGED <<localPort, stopChan, readyChan, on, err, selReady, port,
                   forwarderVars, monitor, readyClosed>>

\* setFailed, the last thing a failing starter does.
SetFailed(p) ==
    LET t == on[p] IN
    /\ At(p, "fail")
    /\ GoTo(p, "done")
    /\ state' = [state EXCEPT ![t] = "failed"]
    /\ lastError' = [lastError EXCEPT ![t] = err[p]]
    /\ UNCHANGED <<localPort, stopChan, readyChan, on, err, selReady, port,
                   forwarderVars, monitor, channelVars>>

\* Mutant: the ctx.Done() branch does not reset the state.
GiveUpStarting(p) ==
    /\ At(p, "giveUp")
    /\ GoTo(p, "done")
    /\ UNCHANGED <<objectVars, on, err, selReady, port, forwarderVars, monitor, channelVars>>

\* The end of the ctx.Done() branch.
GiveUp(p) ==
    /\ At(p, "giveUp")
    /\ GoTo(p, "done")
    /\ state' = [state EXCEPT ![on[p]] = "idle"]
    /\ UNCHANGED <<localPort, lastError, stopChan, readyChan, on, err, selReady,
                   port, forwarderVars, monitor, channelVars>>

-----------------------------------------------------------------------------
(* The background goroutines: ForwardPorts and monitorErrors.              *)

ForwarderRefused(p) ==
    /\ fwPhase[p] = "dialing"
    /\ fwPhase' = [fwPhase EXCEPT ![p] = "refused"]
    /\ UNCHANGED <<objectVars, callerVars, fwStop, fwReady, monitor, channelVars>>

\* ForwardPorts looks at its stop channel only after it has listened and
\* closed the ready channel.
ForwarderListens(p) ==
    /\ fwPhase[p] = "dialing"
    /\ fwPhase' = [fwPhase EXCEPT ![p] = "listening"]
    /\ readyClosed' = readyClosed \cup {fwReady[p]}
    /\ crashed' = (fwReady[p] \in readyClosed)
    /\ UNCHANGED <<objectVars, callerVars, fwStop, fwReady, monitor, stopClosed>>

ForwarderStopped(p) ==
    /\ fwPhase[p] = "listening"
    /\ fwStop[p] \in stopClosed
    /\ fwPhase' = [fwPhase EXCEPT ![p] = "stopped"]
    /\ UNCHANGED <<objectVars, callerVars, fwStop, fwReady, monitor, channelVars>>

ForwarderLost(p) ==
    /\ fwPhase[p] = "listening"
    /\ fwPhase' = [fwPhase EXCEPT ![p] = "lost"]
    /\ UNCHANGED <<objectVars, callerVars, fwStop, fwReady, monitor, channelVars>>

\* Mutant: the error is received and dropped.
MonitorErrorsDrops(p) ==
    /\ monitor[p] = "watching"
    /\ Returned(p)
    /\ monitor' = [monitor EXCEPT ![p] = "done"]
    /\ UNCHANGED <<objectVars, callerVars, forwarderVars, channelVars>>

\* monitorErrors: an error fails the tunnel, whoever runs it by now; a nil
\* return is ignored.
MonitorErrors(p) ==
    LET t == on[p] IN
    /\ monitor[p] = "watching"
    /\ Returned(p)
    /\ monitor' = [monitor EXCEPT ![p] = "done"]
    /\ \/ /\ ReturnedError(p)
          /\ state' = [state EXCEPT ![t] = "failed"]
          /\ lastError' = [lastError EXCEPT ![t] = "error"]
       \/ /\ ~ReturnedError(p)
          /\ UNCHANGED <<state, lastError>>
    /\ UNCHANGED <<localPort, stopChan, readyChan, callerVars, forwarderVars, channelVars>>

\* Stop, called by the manager when a tunnel is idle or at shutdown.
Stop(t) ==
    /\ state[t] = "running"
    /\ IF stopChan[t] = None THEN UNCHANGED <<stopClosed, crashed>>
                             ELSE CloseStop(None, stopChan[t])
    /\ state' = [state EXCEPT ![t] = IF crashed' THEN "stopping" ELSE "idle"]
    /\ UNCHANGED <<localPort, lastError, stopChan, readyChan, callerVars,
                   forwarderVars, monitor, readyClosed>>

-----------------------------------------------------------------------------
\* A call of Start by p, from its first lock of t.mu to its return.
StartStep(p) ==
    \/ Start(p) \/ AwaitPoll(p)
    \/ Discover(p) \/ DiscoverFail(p)
    \/ MakeStopChan(p) \/ MakeReadyChan(p)
    \/ NewForwarder(p) \/ NewForwarderFail(p)
    \/ EnterSelect(p) \/ WaitReady(p) \/ WaitReturned(p) \/ WaitTimeout(p)
    \/ SetRunning(p) \/ SetFailed(p) \/ GiveUp(p)

CtxDone(p) == AwaitCtxDone(p) \/ WaitCtxDone(p)

UseStep(p) ==
    \/ IsRunning(p) \/ LocalPort(p)
    \/ DialOK(p) \/ DialFail(p) \/ DialAbandoned(p) \/ MarkFailed(p)

ForwarderStep(p) ==
    \/ ForwarderRefused(p) \/ ForwarderListens(p)
    \/ ForwarderStopped(p) \/ ForwarderLost(p)

\* Everything that goes on in a tunnel that has been handed out; the client
\* adds Acquire, CopyDone and Stop.
TunnelStep ==
    \E p \in Callers :
        StartStep(p) \/ CtxDone(p) \/ UseStep(p) \/ ForwarderStep(p) \/ MonitorErrors(p)

ClientStep ==
    \/ \E p \in Callers, t \in Tunnels : Acquire(p, t)
    \/ \E p \in Callers : CopyDone(p)
    \/ \E t \in Tunnels : Stop(t)

Next == ~crashed /\ (TunnelStep \/ ClientStep)

Spec == Init /\ [][Next]_tunnelVars

\* The Go scheduler runs every goroutine, the timers of waitForReady fire, a
\* dial ends and a closed stop channel wakes its forwarder.  No deadline of
\* the caller's context is needed (an HTTP request has none), and neither is
\* an answer of the cluster beyond the end of its API calls.
Fairness ==
    \A p \in Callers :
        /\ WF_tunnelVars(~crashed /\ StartStep(p))
        /\ WF_tunnelVars(~crashed /\ UseStep(p))
        /\ WF_tunnelVars(~crashed /\ MonitorErrors(p))
        /\ WF_tunnelVars(~crashed /\ ForwarderStopped(p))

FairSpec == Spec /\ Fairness

-----------------------------------------------------------------------------
(* Properties.  Until a tunnel has run for the first time, its start is    *)
(* well behaved; afterwards a caller that still holds the port of an       *)
(* earlier run can interfere with a later start.                            *)

InStart(p) == pc[p] \in StarterPCs

\* Some start of t has succeeded: its monitorErrors goroutine was launched.
Ran(t) == \E p \in Callers : on[p] = t /\ monitor[p] # "off"

\* Start elects one starter among the callers that race for a tunnel that
\* has not run yet (the check and the assignment of t.state in Start are one
\* section of t.mu, and every way out of startPortForward leaves Starting).
FirstStartExclusive ==
    \A t \in Tunnels : ~Ran(t) =>
        /\ \A p, q \in Callers :
              on[p] = t /\ on[q] = t /\ InStart(p) /\ InStart(q) => p = q
        /\ state[t] = "starting" <=> \E p \in Callers : on[p] = t /\ InStart(p)

\* No caller goes on to the local port of a tunnel before a port-forward of
\* that tunnel has been ready: Start, its own or the one it joined through
\* awaitReady, does not return nil earlier.
NoEarlyUse ==
    \A p \in Callers : pc[p] \in {"ready", "dial", "copy", "mark"} => Ran(on[p])

\* A forwarder that a failed or abandoned first start leaves behind has been
\* told to stop: its pod connection and its local listener do not outlive
\* the start.
NoLeakedFirstStart ==
    \A p \in Callers :
        /\ ~Ran(on[p])
        /\ fwPhase[p] \in {"dialing", "listening"}
        /\ ~InStart(p)
        => fwStop[p] \in stopClosed

\* No channel is closed twice before some tunnel has run: the closes of the
\* ctx.Done() and timeout branches of waitForReady meet an open channel.
NoPanicBeforeRan == crashed => \E t \in Tunnels : Ran(t)

\* Every call of Start returns, or the process is gone: the time.After branch
\* bounds the starter, and the starter's end releases the waiters of
\* awaitReady whatever the order of their retries.
StartReturns ==
    \A p \in Callers :
        pc[p] \in StarterPCs \cup {"start", "await"}
            ~> pc[p] \in {"ready", "dial", "copy", "mark", "done"} \/ crashed

\* A running tunnel whose forwarder has lost its pod does not stay Running on
\* that forwarder's port: monitorErrors sees to it.
LossNoticed ==
    \A t \in Tunnels, p \in Callers :
        state[t] = "running" /\ localPort[t] = p /\ fwPhase[p] = "lost"
        ~> state[t] # "running" \/ localPort[t] # p \/ crashed
=============================================================================
