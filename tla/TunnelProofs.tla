---------------------------- MODULE TunnelProofs ----------------------------
(***************************************************************************)
(* Proofs about Tunnel, for any number of callers and tunnels: its type    *)
(* correctness, the safety of the first start of a tunnel, and for all its *)
(* starts that none is forgotten and that a lost forwarder is watched.     *)
(***************************************************************************)
EXTENDS Tunnel, TLAPS

\* Where a caller has not yet made its stop channel, its ready channel, its
\* forwarder.
NoStopYet == {"new", "check", "start", "await", "discover", "makeStop"}
NoReadyYet == NoStopYet \cup {"makeReady"}
NoForwarderYet == NoReadyYet \cup {"forward"}

\* Where a starter relies on its stop channel, its ready channel, its
\* forwarder.
WithStop == {"makeReady", "forward", "select", "wait", "setRunning"}
WithReady == {"forward", "select", "wait", "setRunning"}
WithForwarder == {"select", "wait", "setRunning"}

\* Channels and forwarders belong to the tunnel of the caller that made them,
\* and exist from the moment they are made.
Ownership ==
    /\ \A p \in Callers : pc[p] = "new" <=> on[p] = None
    /\ \A t \in Tunnels : stopChan[t] # None =>
            on[stopChan[t]] = t /\ pc[stopChan[t]] \notin NoStopYet
    /\ \A t \in Tunnels : readyChan[t] # None =>
            on[readyChan[t]] = t /\ pc[readyChan[t]] \notin NoReadyYet
    /\ \A p \in Callers : pc[p] \in WithStop => stopChan[on[p]] # None
    /\ \A p \in Callers : pc[p] \in WithReady => readyChan[on[p]] # None

ForwarderOwnership ==
    /\ \A p \in Callers : pc[p] \in NoForwarderYet => fwPhase[p] = "none" /\ monitor[p] = "off"
    /\ \A p \in Callers : pc[p] \in WithForwarder => fwPhase[p] # "none"
    /\ \A p \in Callers : fwPhase[p] # "none" => fwStop[p] # None /\ fwReady[p] # None
    /\ \A p \in Callers : fwStop[p] # None =>
            on[fwStop[p]] = on[p] /\ pc[fwStop[p]] \notin NoStopYet
    /\ \A p \in Callers : fwReady[p] # None =>
            on[fwReady[p]] = on[p] /\ pc[fwReady[p]] \notin NoReadyYet
    /\ \A p \in Callers : fwPhase[p] = "stopped" => fwStop[p] \in stopClosed
    /\ \A c \in stopClosed : pc[c] \notin NoStopYet
    /\ \A c \in readyClosed : pc[c] \notin NoReadyYet

OwnInv == TypeOK /\ Ownership /\ ForwarderOwnership

\* No channel and no forwarder exists before the first start.
LEMMA InitOwn == Init => OwnInv
<1> SUFFICES ASSUME Init PROVE OwnInv
  OBVIOUS
<1>1. TypeOK
  BY DEF Init, TypeOK, States, PCs, ForwarderPhases
<1>2. Ownership
  BY DEF Init, Ownership, WithStop, WithReady
<1>3. ForwarderOwnership
  BY DEF Init, ForwarderOwnership, WithForwarder
<1> QED
  BY <1>1, <1>2, <1>3 DEF OwnInv

\* Closing the channel of a caller keeps the closed channels a set of channels.
LEMMA CloseStopTypeOK ==
    ASSUME NEW p, NEW c \in Callers, TypeOK, CloseStop(p, c)
    PROVE  stopClosed' \subseteq Callers /\ crashed' \in BOOLEAN
  BY DEF CloseStop, TypeOK

\* Every section of a caller, a forwarder and a monitor, and Stop, keep the
\* types; that a starter closes a channel and not nil rests on Ownership.
LEMMA StepTypeOK == OwnInv /\ [Next]_tunnelVars => TypeOK'
<1> SUFFICES ASSUME TypeOK, Ownership, ForwarderOwnership, [Next]_tunnelVars
             PROVE  TypeOK'
  BY DEF OwnInv
<1> USE NoneAssumption DEF TypeOK, objectVars, callerVars, forwarderVars, channelVars,
     States, PCs, StarterPCs, ForwarderPhases, At, GoTo
<1>1. ASSUME NEW p \in Callers, NEW t \in Tunnels, Acquire(p, t) PROVE TypeOK'
  BY <1>1 DEF Acquire
<1>2. ASSUME NEW p \in Callers, CopyDone(p) PROVE TypeOK'
  BY <1>2 DEF CopyDone
<1>3. ASSUME NEW t \in Tunnels, Stop(t) PROVE TypeOK'
<2>1. CASE stopChan[t] = None
  BY <1>3, <2>1 DEF Stop
<2>2. CASE stopChan[t] # None
  <3>1. CloseStop(None, stopChan[t])
    BY <1>3, <2>2 DEF Stop
  <3>2. crashed' \in BOOLEAN /\ stopClosed' \subseteq Callers
    BY <2>2, <3>1, CloseStopTypeOK
  <3> QED
    BY <1>3, <3>2 DEF Stop
<2> QED
  BY <2>1, <2>2
<1>4. ASSUME NEW p \in Callers, IsRunning(p) PROVE TypeOK'
  BY <1>4 DEF IsRunning
<1>5. ASSUME NEW p \in Callers, LocalPort(p) PROVE TypeOK'
  BY <1>5 DEF LocalPort, Ownership
<1>6. ASSUME NEW p \in Callers, DialOK(p) \/ DialFail(p) \/ DialAbandoned(p) PROVE TypeOK'
  BY <1>6 DEF DialOK, DialFail, DialAbandoned
<1>7. ASSUME NEW p \in Callers, MarkFailed(p) PROVE TypeOK'
<2>1. on[p] \in Tunnels
  BY <1>7 DEF MarkFailed, Ownership
<2>2. CASE UNCHANGED <<stopClosed, crashed>>
  BY <1>7, <2>1, <2>2 DEF MarkFailed
<2>3. CASE stopChan[on[p]] # None /\ CloseStop(p, stopChan[on[p]])
  <3>1. crashed' \in BOOLEAN /\ stopClosed' \subseteq Callers
    BY <2>1, <2>3, CloseStopTypeOK
  <3> QED
    BY <1>7, <2>1, <3>1 DEF MarkFailed
<2> QED
  BY <1>7, <2>2, <2>3 DEF MarkFailed
<1>8. ASSUME NEW p \in Callers, Start(p) PROVE TypeOK'
  BY <1>8 DEF Start
<1>9. ASSUME NEW p \in Callers, AwaitPoll(p) \/ AwaitCtxDone(p) PROVE TypeOK'
  BY <1>9 DEF AwaitPoll, AwaitCtxDone
<1>10. ASSUME NEW p \in Callers, Discover(p) \/ DiscoverFail(p) \/ NewForwarderFail(p) PROVE TypeOK'
  BY <1>10 DEF Discover, DiscoverFail, NewForwarderFail
<1>11. ASSUME NEW p \in Callers, MakeStopChan(p) PROVE TypeOK'
  BY <1>11 DEF MakeStopChan
<1>12. ASSUME NEW p \in Callers, MakeReadyChan(p) PROVE TypeOK'
  BY <1>12 DEF MakeReadyChan
<1>13. ASSUME NEW p \in Callers, NewForwarder(p) PROVE TypeOK'
  BY <1>13 DEF NewForwarder, Ownership
<1>14. ASSUME NEW p \in Callers, EnterSelect(p) PROVE TypeOK'
  BY <1>14 DEF EnterSelect, Ownership
<1>15. ASSUME NEW p \in Callers, WaitReady(p) \/ WaitReturned(p) PROVE TypeOK'
  BY <1>15 DEF WaitReady, WaitReturned
<1>16. ASSUME NEW p \in Callers, WaitCtxDone(p) \/ WaitTimeout(p) PROVE TypeOK'
<2>1. stopChan[on[p]] \in Callers
  BY <1>16 DEF WaitCtxDone, WaitTimeout, Ownership, WithStop
<2>2. crashed' \in BOOLEAN /\ stopClosed' \subseteq Callers
  BY <1>16, <2>1, CloseStopTypeOK DEF WaitCtxDone, WaitTimeout
<2> QED
  BY <1>16, <2>2 DEF WaitCtxDone, WaitTimeout
<1>17. ASSUME NEW p \in Callers, SetRunning(p) PROVE TypeOK'
  BY <1>17 DEF SetRunning
<1>18. ASSUME NEW p \in Callers, SetFailed(p) \/ GiveUp(p) PROVE TypeOK'
  BY <1>18 DEF SetFailed, GiveUp
<1>19. ASSUME NEW p \in Callers, ForwarderStep(p) PROVE TypeOK'
<2>1. CASE ForwarderListens(p)
  <3>1. fwReady[p] \in Callers
    BY <2>1 DEF ForwarderListens, ForwarderOwnership
  <3>2. crashed' \in BOOLEAN
    BY <2>1 DEF ForwarderListens
  <3> QED
    BY <2>1, <3>1, <3>2 DEF ForwarderListens
<2>2. CASE ~ForwarderListens(p)
  BY <1>19, <2>2 DEF ForwarderStep, ForwarderRefused, ForwarderStopped, ForwarderLost
<2> QED
  BY <2>1, <2>2
<1>20. ASSUME NEW p \in Callers, MonitorErrors(p) PROVE TypeOK'
  BY <1>20 DEF MonitorErrors
<1>21. CASE UNCHANGED tunnelVars
  BY <1>21 DEF tunnelVars
<1> QED
  BY <1>1, <1>2, <1>3, <1>4, <1>5, <1>6, <1>7, <1>8, <1>9, <1>10, <1>11, <1>12, <1>13,
     <1>14, <1>15, <1>16, <1>17, <1>18, <1>19, <1>20, <1>21
     DEF Next, TunnelStep, ClientStep, StartStep, CtxDone, UseStep

\* The channels of a tunnel stay those of callers that were handed it.
LEMMA StepOwnership == OwnInv /\ [Next]_tunnelVars => Ownership'
<1> SUFFICES ASSUME TypeOK, Ownership, ForwarderOwnership, [Next]_tunnelVars
             PROVE  Ownership'
  BY DEF OwnInv
<1> USE NoneAssumption DEF TypeOK, Ownership, objectVars, callerVars, forwarderVars,
     channelVars, At, GoTo, NoStopYet, NoReadyYet, WithStop, WithReady
<1>1. ASSUME NEW p \in Callers, NEW t \in Tunnels, Acquire(p, t)
      PROVE  Ownership'
  BY <1>1 DEF Acquire
<1>2. ASSUME NEW p \in Callers, IsRunning(p) \/ LocalPort(p) \/ DialOK(p) \/ DialFail(p) \/ DialAbandoned(p)
             \/ CopyDone(p)
      PROVE  Ownership'
  BY <1>2 DEF IsRunning, LocalPort, DialOK, DialFail, DialAbandoned, CopyDone
<1>3. ASSUME NEW p \in Callers, MarkFailed(p)
      PROVE  Ownership'
  BY <1>3 DEF MarkFailed, CloseStop
<1>4. ASSUME NEW p \in Callers, Start(p) \/ AwaitPoll(p) \/ AwaitCtxDone(p)
      PROVE  Ownership'
  BY <1>4 DEF Start, AwaitPoll, AwaitCtxDone
<1>5. ASSUME NEW p \in Callers, Discover(p) \/ DiscoverFail(p) \/ NewForwarderFail(p)
      PROVE  Ownership'
  BY <1>5 DEF Discover, DiscoverFail, NewForwarderFail
<1>6. ASSUME NEW p \in Callers, MakeStopChan(p)
      PROVE  Ownership'
  BY <1>6 DEF MakeStopChan
<1>7. ASSUME NEW p \in Callers, MakeReadyChan(p)
      PROVE  Ownership'
  BY <1>7 DEF MakeReadyChan
<1>8. ASSUME NEW p \in Callers, NewForwarder(p)
      PROVE  Ownership'
  BY <1>8 DEF NewForwarder
<1>9. ASSUME NEW p \in Callers, EnterSelect(p) \/ WaitReady(p) \/ WaitReturned(p)
      PROVE  Ownership'
  BY <1>9 DEF EnterSelect, WaitReady, WaitReturned
<1>10. ASSUME NEW p \in Callers, WaitCtxDone(p) \/ WaitTimeout(p)
      PROVE  Ownership'
  BY <1>10 DEF WaitCtxDone, WaitTimeout, CloseStop
<1>11. ASSUME NEW p \in Callers, SetRunning(p)
      PROVE  Ownership'
  BY <1>11 DEF SetRunning
<1>12. ASSUME NEW p \in Callers, SetFailed(p) \/ GiveUp(p)
      PROVE  Ownership'
  BY <1>12 DEF SetFailed, GiveUp
<1>13. ASSUME NEW p \in Callers, ForwarderRefused(p) \/ ForwarderStopped(p) \/ ForwarderLost(p)
      PROVE  Ownership'
  BY <1>13 DEF ForwarderRefused, ForwarderStopped, ForwarderLost
<1>14. ASSUME NEW p \in Callers, ForwarderListens(p)
      PROVE  Ownership'
  BY <1>14 DEF ForwarderListens
<1>15. ASSUME NEW p \in Callers, MonitorErrors(p)
      PROVE  Ownership'
  BY <1>15 DEF MonitorErrors
<1>16. ASSUME NEW t \in Tunnels, Stop(t)
      PROVE  Ownership'
  BY <1>16 DEF Stop, CloseStop
<1>17. CASE UNCHANGED tunnelVars
  BY <1>17 DEF tunnelVars
<1> QED
  BY <1>1, <1>2, <1>3, <1>4, <1>5, <1>6, <1>7, <1>8, <1>9, <1>10,
     <1>11, <1>12, <1>13, <1>14, <1>15, <1>16, <1>17
     DEF Next, TunnelStep, ClientStep, StartStep, CtxDone, UseStep, ForwarderStep

\* The channels of a forwarder stay those of its caller's tunnel, and it exists
\* as long as its starter waits for it.
LEMMA StepForwarderOwnership == OwnInv /\ [Next]_tunnelVars => ForwarderOwnership'
<1> SUFFICES ASSUME TypeOK, Ownership, ForwarderOwnership, [Next]_tunnelVars
             PROVE  ForwarderOwnership'
  BY DEF OwnInv
<1> USE NoneAssumption DEF TypeOK, Ownership, ForwarderOwnership, objectVars, callerVars,
     forwarderVars, channelVars, At, GoTo, NoStopYet, NoReadyYet, NoForwarderYet,
     WithStop, WithReady, WithForwarder
<1>1. ASSUME NEW p \in Callers, NEW t \in Tunnels, Acquire(p, t)
      PROVE  ForwarderOwnership'
  BY <1>1 DEF Acquire
<1>2. ASSUME NEW p \in Callers, IsRunning(p) \/ LocalPort(p) \/ DialOK(p) \/ DialFail(p) \/ DialAbandoned(p)
             \/ CopyDone(p)
      PROVE  ForwarderOwnership'
  BY <1>2 DEF IsRunning, LocalPort, DialOK, DialFail, DialAbandoned, CopyDone
<1>3. ASSUME NEW p \in Callers, MarkFailed(p)
      PROVE  ForwarderOwnership'
  BY <1>3 DEF MarkFailed, CloseStop
<1>4. ASSUME NEW p \in Callers, Start(p) \/ AwaitPoll(p) \/ AwaitCtxDone(p)
      PROVE  ForwarderOwnership'
  BY <1>4 DEF Start, AwaitPoll, AwaitCtxDone
<1>5. ASSUME NEW p \in Callers, Discover(p) \/ DiscoverFail(p) \/ NewForwarderFail(p)
      PROVE  ForwarderOwnership'
  BY <1>5 DEF Discover, DiscoverFail, NewForwarderFail
<1>6. ASSUME NEW p \in Callers, MakeStopChan(p)
      PROVE  ForwarderOwnership'
  BY <1>6 DEF MakeStopChan
<1>7. ASSUME NEW p \in Callers, MakeReadyChan(p)
      PROVE  ForwarderOwnership'
  BY <1>7 DEF MakeReadyChan
<1>8. ASSUME NEW p \in Callers, NewForwarder(p)
      PROVE  ForwarderOwnership'
  BY <1>8 DEF NewForwarder
<1>9. ASSUME NEW p \in Callers, EnterSelect(p) \/ WaitReady(p) \/ WaitReturned(p)
      PROVE  ForwarderOwnership'
  BY <1>9 DEF EnterSelect, WaitReady, WaitReturned
<1>10. ASSUME NEW p \in Callers, WaitCtxDone(p) \/ WaitTimeout(p)
      PROVE  ForwarderOwnership'
  BY <1>10 DEF WaitCtxDone, WaitTimeout, CloseStop
<1>11. ASSUME NEW p \in Callers, SetRunning(p)
      PROVE  ForwarderOwnership'
  BY <1>11 DEF SetRunning
<1>12. ASSUME NEW p \in Callers, SetFailed(p) \/ GiveUp(p)
      PROVE  ForwarderOwnership'
  BY <1>12 DEF SetFailed, GiveUp
<1>13. ASSUME NEW p \in Callers, ForwarderRefused(p) \/ ForwarderStopped(p) \/ ForwarderLost(p)
      PROVE  ForwarderOwnership'
  BY <1>13 DEF ForwarderRefused, ForwarderStopped, ForwarderLost
<1>14. ASSUME NEW p \in Callers, ForwarderListens(p)
      PROVE  ForwarderOwnership'
  BY <1>14 DEF ForwarderListens
<1>15. ASSUME NEW p \in Callers, MonitorErrors(p)
      PROVE  ForwarderOwnership'
  BY <1>15 DEF MonitorErrors
<1>16. ASSUME NEW t \in Tunnels, Stop(t)
      PROVE  ForwarderOwnership'
  BY <1>16 DEF Stop, CloseStop
<1>17. CASE UNCHANGED tunnelVars
  BY <1>17 DEF tunnelVars
<1> QED
  BY <1>1, <1>2, <1>3, <1>4, <1>5, <1>6, <1>7, <1>8, <1>9, <1>10,
     <1>11, <1>12, <1>13, <1>14, <1>15, <1>16, <1>17
     DEF Next, TunnelStep, ClientStep, StartStep, CtxDone, UseStep, ForwarderStep
-----------------------------------------------------------------------------
(* The first start.  What holds of a tunnel until one of its starts has    *)
(* succeeded: nobody uses it, so nobody calls MarkFailed or Stop on it,    *)
(* hence its one starter is alone and owns both channels, which are open.  *)

\* t, and what its waiters may read in it.
FirstState(t) ==
    /\ state[t] # "running"
    /\ state[t] = "failed" => lastError[t] = "error"
    /\ state[t] = "starting" <=> \E p \in Callers : on[p] = t /\ InStart(p)
    /\ \A p, q \in Callers : on[p] = t /\ on[q] = t /\ InStart(p) /\ InStart(q) => p = q

\* A starter of t, its channels and its forwarder.
FirstCaller(t, p) ==
    /\ pc[p] \notin {"ready", "dial", "copy", "mark"}
    /\ pc[p] = "fail" => err[p] = "error"
    /\ pc[p] \in WithStop => stopChan[t] = p /\ p \notin stopClosed
    /\ pc[p] \in WithReady => readyChan[t] = p
    /\ pc[p] = "forward" \/ fwPhase[p] = "dialing" => p \notin readyClosed
    /\ pc[p] \in {"wait", "setRunning"} => selReady[p] = p

FirstForwarder(p) ==
    /\ fwPhase[p] # "none" => fwStop[p] = p /\ fwReady[p] = p
    /\ fwPhase[p] \in {"dialing", "listening"} /\ pc[p] \notin WithForwarder
            => p \in stopClosed

FirstStart ==
    \A t \in Tunnels : ~Ran(t) =>
        /\ FirstState(t)
        /\ \A p \in Callers : on[p] = t => FirstCaller(t, p) /\ FirstForwarder(p)

IInv == OwnInv /\ FirstStart /\ NoPanicBeforeRan

\* Before anything happens no start can have misbehaved.
LEMMA InitFirst == Init => FirstStart /\ NoPanicBeforeRan
<1> SUFFICES ASSUME Init PROVE FirstStart /\ NoPanicBeforeRan
  OBVIOUS
<1>1. \A t \in Tunnels : FirstState(t)
  BY DEF Init, FirstState, InStart, StarterPCs
<1>2. \A p \in Callers, t \in Tunnels : on[p] # t
  BY NoneAssumption DEF Init
<1> QED
  BY <1>1, <1>2 DEF Init, FirstStart, NoPanicBeforeRan

\* A tunnel that has run stays so: callers keep their tunnel and monitors are
\* not reset.
LEMMA RanStable ==
    ASSUME OwnInv, [Next]_tunnelVars, NEW t \in Tunnels, Ran(t)
    PROVE  Ran(t)'
<1> USE NoneAssumption DEF OwnInv, TypeOK, Ownership, ForwarderOwnership, NoForwarderYet,
     NoReadyYet, NoStopYet, Ran, objectVars, callerVars, At, GoTo
<1>1. ASSUME NEW p \in Callers, NEW u \in Tunnels, Acquire(p, u)
      PROVE  Ran(t)'
  BY <1>1 DEF Acquire
<1>2. ASSUME NEW p \in Callers, IsRunning(p) \/ LocalPort(p) \/ DialOK(p) \/ DialFail(p) \/ DialAbandoned(p)
             \/ CopyDone(p)
      PROVE  Ran(t)'
  BY <1>2 DEF IsRunning, LocalPort, DialOK, DialFail, DialAbandoned, CopyDone
<1>3. ASSUME NEW p \in Callers, MarkFailed(p)
      PROVE  Ran(t)'
  BY <1>3 DEF MarkFailed, CloseStop
<1>4. ASSUME NEW p \in Callers, Start(p) \/ AwaitPoll(p) \/ AwaitCtxDone(p)
      PROVE  Ran(t)'
  BY <1>4 DEF Start, AwaitPoll, AwaitCtxDone
<1>5. ASSUME NEW p \in Callers, Discover(p) \/ DiscoverFail(p) \/ NewForwarderFail(p)
      PROVE  Ran(t)'
  BY <1>5 DEF Discover, DiscoverFail, NewForwarderFail
<1>6. ASSUME NEW p \in Callers, MakeStopChan(p)
      PROVE  Ran(t)'
  BY <1>6 DEF MakeStopChan
<1>7. ASSUME NEW p \in Callers, MakeReadyChan(p)
      PROVE  Ran(t)'
  BY <1>7 DEF MakeReadyChan
<1>8. ASSUME NEW p \in Callers, NewForwarder(p)
      PROVE  Ran(t)'
  BY <1>8 DEF NewForwarder
<1>9. ASSUME NEW p \in Callers, EnterSelect(p) \/ WaitReady(p) \/ WaitReturned(p)
      PROVE  Ran(t)'
  BY <1>9 DEF EnterSelect, WaitReady, WaitReturned
<1>10. ASSUME NEW p \in Callers, WaitCtxDone(p) \/ WaitTimeout(p)
      PROVE  Ran(t)'
  BY <1>10 DEF WaitCtxDone, WaitTimeout, CloseStop
<1>11. ASSUME NEW p \in Callers, SetRunning(p)
      PROVE  Ran(t)'
  BY <1>11 DEF SetRunning
<1>12. ASSUME NEW p \in Callers, SetFailed(p) \/ GiveUp(p)
      PROVE  Ran(t)'
  BY <1>12 DEF SetFailed, GiveUp
<1>13. ASSUME NEW p \in Callers, ForwarderRefused(p) \/ ForwarderStopped(p) \/ ForwarderLost(p)
      PROVE  Ran(t)'
  BY <1>13 DEF ForwarderRefused, ForwarderStopped, ForwarderLost
<1>14. ASSUME NEW p \in Callers, ForwarderListens(p)
      PROVE  Ran(t)'
  BY <1>14 DEF ForwarderListens
<1>15. ASSUME NEW p \in Callers, MonitorErrors(p)
      PROVE  Ran(t)'
  BY <1>15 DEF MonitorErrors
<1>16. ASSUME NEW u \in Tunnels, Stop(u)
      PROVE  Ran(t)'
  BY <1>16 DEF Stop, CloseStop
<1>17. CASE UNCHANGED tunnelVars
  BY <1>17 DEF tunnelVars
<1> QED
  BY <1>1, <1>2, <1>3, <1>4, <1>5, <1>6, <1>7, <1>8, <1>9, <1>10,
     <1>11, <1>12, <1>13, <1>14, <1>15, <1>16, <1>17
     DEF Next, TunnelStep, ClientStep, StartStep, CtxDone, UseStep, ForwarderStep

\* Whoever closes or uses a channel of a tunnel that has not run: its starter.
LEMMA StepFirst == IInv /\ [Next]_tunnelVars => FirstStart'
<1> SUFFICES ASSUME TypeOK, Ownership, ForwarderOwnership, FirstStart, [Next]_tunnelVars,
                    NEW u \in Tunnels, ~Ran(u)', ~Ran(u)
             PROVE  /\ FirstState(u)'
                    /\ \A q \in Callers : on'[q] = u => FirstCaller(u, q)' /\ FirstForwarder(q)'
  BY RanStable DEF IInv, OwnInv, FirstStart
<1> DEFINE Goal == /\ FirstState(u)'
                   /\ \A q \in Callers : on'[q] = u => FirstCaller(u, q)' /\ FirstForwarder(q)'
<1> USE NoneAssumption DEF TypeOK, Ownership, ForwarderOwnership, FirstStart, FirstState,
     FirstCaller, FirstForwarder, Ran, InStart, StarterPCs, objectVars, callerVars,
     forwarderVars, channelVars, At, GoTo, NoStopYet, NoReadyYet, NoForwarderYet,
     WithStop, WithReady, WithForwarder
<1>1. ASSUME NEW p \in Callers, NEW t \in Tunnels, Acquire(p, t)
      PROVE  Goal
  BY <1>1 DEF Acquire
<1>2. ASSUME NEW p \in Callers, IsRunning(p) \/ LocalPort(p) \/ DialOK(p) \/ DialFail(p) \/ DialAbandoned(p)
             \/ CopyDone(p)
      PROVE  Goal
  BY <1>2, SMTT(30) DEF IsRunning, LocalPort, DialOK, DialFail, DialAbandoned, CopyDone
<1>3. ASSUME NEW p \in Callers, MarkFailed(p)
      PROVE  Goal
  BY <1>3 DEF MarkFailed, CloseStop
<1>4. ASSUME NEW p \in Callers, Start(p) \/ AwaitPoll(p) \/ AwaitCtxDone(p)
      PROVE  Goal
  BY <1>4 DEF Start, AwaitPoll, AwaitCtxDone
<1>5. ASSUME NEW p \in Callers, Discover(p) \/ DiscoverFail(p) \/ NewForwarderFail(p)
      PROVE  Goal
  BY <1>5 DEF Discover, DiscoverFail, NewForwarderFail
<1>6. ASSUME NEW p \in Callers, MakeStopChan(p)
      PROVE  Goal
  BY <1>6 DEF MakeStopChan
<1>7. ASSUME NEW p \in Callers, MakeReadyChan(p)
      PROVE  Goal
  BY <1>7 DEF MakeReadyChan
<1>8. ASSUME NEW p \in Callers, NewForwarder(p)
      PROVE  Goal
  BY <1>8 DEF NewForwarder
<1>9. ASSUME NEW p \in Callers, EnterSelect(p) \/ WaitReady(p) \/ WaitReturned(p)
      PROVE  Goal
  BY <1>9, SMTT(30) DEF EnterSelect, WaitReady, WaitReturned, Listened, Returned, ReturnedError
<1>10. ASSUME NEW p \in Callers, WaitCtxDone(p) \/ WaitTimeout(p)
      PROVE  Goal
  BY <1>10 DEF WaitCtxDone, WaitTimeout, CloseStop
<1>11. ASSUME NEW p \in Callers, SetRunning(p)
      PROVE  Goal
  BY <1>11 DEF SetRunning
<1>12. ASSUME NEW p \in Callers, SetFailed(p) \/ GiveUp(p)
      PROVE  Goal
<2>1. on[p] \in Tunnels /\ InStart(p) /\ ~InStart(p)'
  BY <1>12 DEF SetFailed, GiveUp
<2>2. FirstState(u)'
  <3>1. CASE on[p] = u
    <4>1. \A q \in Callers : on[q] = u /\ InStart(q) => q = p
      BY <2>1, <3>1
    <4>2. on' = on /\ \A q \in Callers : q # p => pc'[q] = pc[q]
      BY <1>12 DEF SetFailed, GiveUp
    <4>3. ~ \E q \in Callers : on'[q] = u /\ InStart(q)'
      BY <2>1, <4>1, <4>2
    <4>4. state'[u] \in {"failed", "idle"} /\ (state'[u] = "failed" => lastError'[u] = "error")
      BY <1>12, <3>1 DEF SetFailed, GiveUp
    <4> QED
      BY <4>3, <4>4
  <3>2. CASE on[p] # u
    BY <1>12, <2>1, <3>2, SMTT(30) DEF SetFailed, GiveUp
  <3> QED
    BY <3>1, <3>2
<2>3. ASSUME NEW q \in Callers, on'[q] = u PROVE FirstCaller(u, q)' /\ FirstForwarder(q)'
  BY <1>12, <2>3 DEF SetFailed, GiveUp
<2> QED
  BY <2>2, <2>3
<1>13. ASSUME NEW p \in Callers, ForwarderRefused(p) \/ ForwarderStopped(p) \/ ForwarderLost(p)
      PROVE  Goal
  BY <1>13 DEF ForwarderRefused, ForwarderStopped, ForwarderLost
<1>14. ASSUME NEW p \in Callers, ForwarderListens(p)
      PROVE  Goal
  BY <1>14 DEF ForwarderListens
<1>15. ASSUME NEW p \in Callers, MonitorErrors(p)
      PROVE  Goal
  BY <1>15 DEF MonitorErrors
<1>16. ASSUME NEW t \in Tunnels, Stop(t)
      PROVE  Goal
  BY <1>16 DEF Stop, CloseStop
<1>17. CASE UNCHANGED tunnelVars
  BY <1>17 DEF tunnelVars
<1> QED
  BY <1>1, <1>2, <1>3, <1>4, <1>5, <1>6, <1>7, <1>8, <1>9, <1>10,
     <1>11, <1>12, <1>13, <1>14, <1>15, <1>16, <1>17
     DEF Next, TunnelStep, ClientStep, StartStep, CtxDone, UseStep, ForwarderStep
\* A close meets an open channel as long as its tunnel has not run.
LEMMA StepNoPanic == IInv /\ [Next]_tunnelVars => NoPanicBeforeRan'
<1> SUFFICES ASSUME OwnInv, FirstStart, NoPanicBeforeRan, [Next]_tunnelVars,
                    \A t \in Tunnels : ~Ran(t), crashed'
             PROVE  FALSE
  BY RanStable DEF IInv, NoPanicBeforeRan
<1>1. ~crashed
  BY DEF NoPanicBeforeRan
<1> USE NoneAssumption DEF OwnInv, TypeOK, Ownership, ForwarderOwnership, FirstStart,
     FirstState, FirstCaller, FirstForwarder, channelVars, At, WithStop
<1>2. ASSUME NEW p \in Callers, MarkFailed(p) PROVE FALSE
  <2>1. on[p] \in Tunnels /\ pc[p] = "mark"
    BY <1>2 DEF MarkFailed
  <2> QED
    BY <2>1
<1>3. ASSUME NEW p \in Callers, WaitCtxDone(p) \/ WaitTimeout(p) PROVE FALSE
  <2>1. on[p] \in Tunnels /\ pc[p] = "wait"
    BY <1>3 DEF WaitCtxDone, WaitTimeout
  <2>2. stopChan[on[p]] \notin stopClosed
    BY <2>1
  <2>3. crashed' = (stopChan[on[p]] \in stopClosed /\ p \notin Recovering)
    BY <1>3 DEF WaitCtxDone, WaitTimeout, CloseStop
  <2> QED
    BY <2>2, <2>3, Zenon
<1>4. ASSUME NEW p \in Callers, ForwarderListens(p) PROVE FALSE
  <2>1. on[p] \in Tunnels /\ fwPhase[p] = "dialing"
    BY <1>4 DEF ForwarderListens, NoForwarderYet, NoReadyYet, NoStopYet
  <2>2. fwReady[p] = p /\ p \notin readyClosed
    BY <2>1
  <2>3. crashed' = (fwReady[p] \in readyClosed)
    BY <1>4 DEF ForwarderListens
  <2> QED
    BY <2>2, <2>3, Zenon
<1>5. ASSUME NEW t \in Tunnels, Stop(t) PROVE FALSE
  BY <1>5 DEF Stop
<1>6. CASE UNCHANGED crashed
  BY <1>1, <1>6
<1> QED
  BY <1>2, <1>3, <1>4, <1>5, <1>6, ZenonT(30)
     DEF Next, TunnelStep, ClientStep, StartStep, CtxDone, UseStep, ForwarderStep, tunnelVars,
     Acquire, IsRunning, LocalPort, DialOK, DialFail, DialAbandoned, CopyDone, Start, AwaitPoll,
     AwaitCtxDone, Discover, DiscoverFail, MakeStopChan, MakeReadyChan, NewForwarder,
     NewForwarderFail, EnterSelect, WaitReady, WaitReturned, SetRunning, SetFailed, GiveUp,
     ForwarderRefused, ForwarderStopped, ForwarderLost, MonitorErrors

-----------------------------------------------------------------------------
\* The invariant is inductive.
THEOREM Inductive == Spec => []IInv
<1>1. Init => IInv
  BY InitOwn, InitFirst DEF IInv
<1>2. IInv /\ [Next]_tunnelVars => IInv'
  BY StepTypeOK, StepOwnership, StepForwarderOwnership, StepFirst, StepNoPanic
     DEF IInv, OwnInv
<1> QED
  BY <1>1, <1>2, PTL DEF Spec

\* Every variable keeps its type; in particular no goroutine closes a nil
\* channel (close(t.stopChan) in waitForReady, close of the ready channel).
THEOREM TypeCorrect == Spec => []TypeOK
<1>1. IInv => TypeOK
  BY DEF IInv, OwnInv
<1> QED
  BY <1>1, Inductive, PTL

\* Callers that race for a tunnel that has not run elect one starter.
THEOREM FirstStartIsExclusive == Spec => []FirstStartExclusive
<1>1. IInv => FirstStartExclusive
  BY DEF IInv, FirstStart, FirstState, FirstStartExclusive
<1> QED
  BY <1>1, Inductive, PTL

\* Start returns nil only after a port-forward of the tunnel was ready.
THEOREM NobodyUsesATunnelEarly == Spec => []NoEarlyUse
<1>1. IInv => NoEarlyUse
  BY DEF IInv, OwnInv, TypeOK, Ownership, FirstStart, FirstCaller, NoEarlyUse
<1> QED
  BY <1>1, Inductive, PTL

\* A first start that failed or was abandoned leaves no forwarder behind that
\* was not told to stop.
THEOREM FirstStartLeaksNothing == Spec => []NoLeakedFirstStart
<1>1. IInv => NoLeakedFirstStart
  BY DEF IInv, OwnInv, TypeOK, Ownership, ForwarderOwnership, FirstStart, FirstForwarder,
     NoLeakedFirstStart, NoForwarderYet, NoReadyYet, NoStopYet, WithForwarder, InStart, StarterPCs
<1> QED
  BY <1>1, Inductive, PTL

\* The runtime panics of a double close need a tunnel that has run.
THEOREM FirstStartDoesNotPanic == Spec => []NoPanicBeforeRan
<1>1. IInv => NoPanicBeforeRan
  BY DEF IInv
<1> QED
  BY <1>1, Inductive, PTL
-----------------------------------------------------------------------------
(* Starting ends.  Also after the first start, when callers of an earlier  *)
(* run close channels of a later one and starters panic: whoever leaves a  *)
(* tunnel in Starting leaves it to another starter of it.                  *)

\* A starter of t that no panic can keep from resetting the state: it is past
\* the close of the channel, or has yet to make a channel of its own, or the
\* channel that it may close is open.
StarterLeft(t) ==
    \E p \in Callers :
        /\ on[p] = t /\ InStart(p)
        /\ \/ pc[p] \in {"discover", "makeStop", "fail", "giveUp"}
           \/ stopChan[t] \notin stopClosed

StartingHasStarter == \A t \in Tunnels : state[t] = "starting" => StarterLeft(t)

\* A starter that closes its channel goes on to reset the state; one that
\* finds it closed had another before it.
LEMMA StepStarter == OwnInv /\ StartingHasStarter /\ [Next]_tunnelVars => StartingHasStarter'
<1> SUFFICES ASSUME TypeOK, Ownership, ForwarderOwnership, StartingHasStarter,
                    [Next]_tunnelVars, NEW u \in Tunnels, state'[u] = "starting"
             PROVE  StarterLeft(u)'
  BY DEF OwnInv, StartingHasStarter
<1> USE NoneAssumption DEF TypeOK, Ownership, ForwarderOwnership, StartingHasStarter,
     StarterLeft, InStart, StarterPCs, objectVars, callerVars, forwarderVars, channelVars,
     At, GoTo, NoStopYet
<1>1. ASSUME NEW p \in Callers, NEW t \in Tunnels, Acquire(p, t)
      PROVE  StarterLeft(u)'
  BY <1>1 DEF Acquire
<1>2. ASSUME NEW p \in Callers, IsRunning(p) \/ LocalPort(p) \/ DialOK(p) \/ DialFail(p) \/ DialAbandoned(p)
             \/ CopyDone(p)
      PROVE  StarterLeft(u)'
  BY <1>2 DEF IsRunning, LocalPort, DialOK, DialFail, DialAbandoned, CopyDone
<1>3. ASSUME NEW p \in Callers, MarkFailed(p)
      PROVE  StarterLeft(u)'
  BY <1>3 DEF MarkFailed, CloseStop
<1>4. ASSUME NEW p \in Callers, Start(p) \/ AwaitPoll(p) \/ AwaitCtxDone(p)
      PROVE  StarterLeft(u)'
  BY <1>4 DEF Start, AwaitPoll, AwaitCtxDone
<1>5. ASSUME NEW p \in Callers, Discover(p) \/ DiscoverFail(p) \/ NewForwarderFail(p)
      PROVE  StarterLeft(u)'
  BY <1>5 DEF Discover, DiscoverFail, NewForwarderFail
<1>6. ASSUME NEW p \in Callers, MakeStopChan(p)
      PROVE  StarterLeft(u)'
  BY <1>6 DEF MakeStopChan
<1>7. ASSUME NEW p \in Callers, MakeReadyChan(p)
      PROVE  StarterLeft(u)'
  BY <1>7 DEF MakeReadyChan
<1>8. ASSUME NEW p \in Callers, NewForwarder(p)
      PROVE  StarterLeft(u)'
  BY <1>8 DEF NewForwarder
<1>9. ASSUME NEW p \in Callers, EnterSelect(p) \/ WaitReady(p) \/ WaitReturned(p)
      PROVE  StarterLeft(u)'
  BY <1>9 DEF EnterSelect, WaitReady, WaitReturned
<1>10. ASSUME NEW p \in Callers, WaitCtxDone(p) \/ WaitTimeout(p)
      PROVE  StarterLeft(u)'
  <2> DEFINE c == stopChan[on[p]]
  <2>1. /\ pc[p] = "wait" /\ on[p] \in Tunnels /\ c \in Callers /\ on[c] = on[p]
        /\ stopClosed' = stopClosed \cup {c}
        /\ pc' = [pc EXCEPT ![p] = pc'[p]]
        /\ c \notin stopClosed => pc'[p] \in {"giveUp", "fail"}
        /\ UNCHANGED <<state, on, stopChan>>
    BY <1>10 DEF WaitCtxDone, WaitTimeout, CloseStop, WithStop
  <2>2. PICK q \in Callers :
            /\ on[q] = u /\ InStart(q)
            /\ \/ pc[q] \in {"discover", "makeStop", "fail", "giveUp"}
               \/ stopChan[u] \notin stopClosed
    BY <2>1
  <2>3. CASE on[p] = u /\ c \in stopClosed
    <3>1. q # p /\ pc'[q] \in {"discover", "makeStop", "fail", "giveUp"}
      BY <2>1, <2>2, <2>3
    <3> QED
      BY <2>1, <2>2, <3>1
  <2>4. CASE on[p] = u /\ c \notin stopClosed
    BY <2>1, <2>4
  <2>5. CASE on[p] # u
    <3>1. stopChan[u] # c
      BY <2>1, <2>5
    <3> QED
      BY <2>1, <2>2, <2>5, <3>1
  <2> QED
    BY <2>3, <2>4, <2>5
<1>11. ASSUME NEW p \in Callers, SetRunning(p)
      PROVE  StarterLeft(u)'
  BY <1>11 DEF SetRunning
<1>12. ASSUME NEW p \in Callers, SetFailed(p) \/ GiveUp(p)
      PROVE  StarterLeft(u)'
  BY <1>12 DEF SetFailed, GiveUp
<1>13. ASSUME NEW p \in Callers, ForwarderStep(p)
      PROVE  StarterLeft(u)'
  BY <1>13 DEF ForwarderStep, ForwarderRefused, ForwarderListens, ForwarderStopped,
     ForwarderLost
<1>14. ASSUME NEW p \in Callers, MonitorErrors(p)
      PROVE  StarterLeft(u)'
  BY <1>14 DEF MonitorErrors
<1>15. ASSUME NEW t \in Tunnels, Stop(t)
      PROVE  StarterLeft(u)'
  BY <1>15 DEF Stop, CloseStop
<1>16. CASE UNCHANGED tunnelVars
  BY <1>16 DEF tunnelVars
<1> QED
  BY <1>1, <1>2, <1>3, <1>4, <1>5, <1>6, <1>7, <1>8, <1>9, <1>10, <1>11, <1>12, <1>13, <1>14, <1>15, <1>16
     DEF Next, TunnelStep, ClientStep, StartStep, CtxDone, UseStep

\* A tunnel is Starting only as long as one of its starters has the reset of
\* the state before it: no order of starts, aborts, failures and panics leaves
\* the waiters of awaitReady with a tunnel that nobody starts.
THEOREM NoStartIsForgotten == Spec => []StartingHasStarter
<1>1. Init => StartingHasStarter
  BY DEF Init, StartingHasStarter
<1>2. IInv => OwnInv
  BY DEF IInv
<1> QED
  BY <1>1, <1>2, StepStarter, Inductive, PTL DEF Spec

-----------------------------------------------------------------------------
(* Losses are noticed.                                                     *)

\* The port of a tunnel is that of a start of this tunnel, and while the tunnel
\* runs on it the monitorErrors of that start is there for an error.
MonitorInv ==
    /\ \A t \in Tunnels : localPort[t] # None =>
            on[localPort[t]] = t /\ monitor[localPort[t]] # "off"
    /\ \A p \in Callers : monitor[p] = "done" => Returned(p)
    /\ \A t \in Tunnels : state[t] = "running" /\ localPort[t] # None /\ ReturnedError(localPort[t]) =>
            monitor[localPort[t]] = "watching"

LossIsWatched ==
    \A t \in Tunnels, p \in Callers :
        state[t] = "running" /\ localPort[t] = p /\ fwPhase[p] = "lost" =>
            monitor[p] = "watching" /\ on[p] = t

\* monitorErrors ends with the state it has seen: an error fails the tunnel, and
\* after a nil no error comes.
LEMMA StepMonitor == OwnInv /\ MonitorInv /\ [Next]_tunnelVars => MonitorInv'
<1> SUFFICES ASSUME TypeOK, Ownership, ForwarderOwnership, MonitorInv, [Next]_tunnelVars
             PROVE  MonitorInv'
  BY DEF OwnInv
<1> USE NoneAssumption DEF TypeOK, MonitorInv, Returned, ReturnedError, objectVars, callerVars,
     forwarderVars, channelVars, At, GoTo
<1>1. ASSUME NEW p \in Callers, NEW t \in Tunnels, Acquire(p, t)
      PROVE  MonitorInv'
  <2>1. monitor[p] = "off" /\ on' = [on EXCEPT ![p] = t]
    BY <1>1 DEF Acquire, ForwarderOwnership, NoForwarderYet, NoReadyYet, NoStopYet
  <2>2. UNCHANGED <<objectVars, forwarderVars, monitor>>
    BY <1>1 DEF Acquire
  <2> QED
    BY <2>1, <2>2
<1>2. ASSUME NEW p \in Callers, StartStep(p), ~SetRunning(p) PROVE MonitorInv'
  <2>1. CASE Start(p) \/ AwaitPoll(p) \/ Discover(p) \/ DiscoverFail(p) \/ MakeStopChan(p)
             \/ MakeReadyChan(p) \/ NewForwarderFail(p) \/ EnterSelect(p) \/ WaitReady(p)
             \/ WaitReturned(p) \/ WaitTimeout(p) \/ SetFailed(p) \/ GiveUp(p)
    <3>1. UNCHANGED <<localPort, on, monitor, fwPhase>>
      BY <2>1 DEF Start, AwaitPoll, Discover, DiscoverFail, MakeStopChan, MakeReadyChan,
         NewForwarderFail, EnterSelect, WaitReady, WaitReturned, WaitTimeout, SetFailed, GiveUp
    <3>2. \A t \in Tunnels : state'[t] = "running" => state[t] = "running"
      BY <2>1 DEF Start, AwaitPoll, Discover, DiscoverFail, MakeStopChan, MakeReadyChan,
         NewForwarderFail, EnterSelect, WaitReady, WaitReturned, WaitTimeout, SetFailed, GiveUp
    <3> QED
      BY <3>1, <3>2
  <2>2. CASE NewForwarder(p)
    <3>1. monitor[p] = "off" /\ fwPhase' = [fwPhase EXCEPT ![p] = "dialing"]
      BY <2>2 DEF NewForwarder, ForwarderOwnership, NoForwarderYet
    <3>2. UNCHANGED <<objectVars, on, monitor>>
      BY <2>2 DEF NewForwarder
    <3> QED
      BY <3>1, <3>2
  <2> QED
    BY <1>2, <2>1, <2>2 DEF StartStep
<1>3. ASSUME NEW p \in Callers, SetRunning(p) PROVE MonitorInv'
  <2>1. on[p] \in Tunnels
    BY <1>3 DEF SetRunning, Ownership
  <2>2. /\ state' = [state EXCEPT ![on[p]] = "running"]
        /\ localPort' = [localPort EXCEPT ![on[p]] = p] \/ localPort' = [localPort EXCEPT ![on[p]] = None]
        /\ monitor' = [monitor EXCEPT ![p] = "watching"]
        /\ UNCHANGED <<on, fwPhase>>
    BY <1>3 DEF SetRunning
  <2> QED
    BY <2>1, <2>2
<1>4. ASSUME NEW p \in Callers,
             CopyDone(p) \/ CtxDone(p) \/ UseStep(p)
      PROVE  MonitorInv'
  <2>1. UNCHANGED <<localPort, on, monitor, fwPhase>>
    BY <1>4 DEF CopyDone, CtxDone, AwaitCtxDone, WaitCtxDone, UseStep, IsRunning, LocalPort,
       DialOK, DialFail, DialAbandoned, MarkFailed
  <2>2. \A t \in Tunnels : state'[t] = "running" => state[t] = "running"
    BY <1>4 DEF CopyDone, CtxDone, AwaitCtxDone, WaitCtxDone, UseStep, IsRunning, LocalPort,
       DialOK, DialFail, DialAbandoned, MarkFailed
  <2> QED
    BY <2>1, <2>2
<1>5. ASSUME NEW p \in Callers, ForwarderStep(p) PROVE MonitorInv'
  <2>1. UNCHANGED <<state, localPort, on, monitor>>
    BY <1>5 DEF ForwarderStep, ForwarderRefused, ForwarderListens, ForwarderStopped, ForwarderLost
  <2>2. ~Returned(p) /\ \E ph \in ForwarderPhases : fwPhase' = [fwPhase EXCEPT ![p] = ph]
    BY <1>5 DEF ForwarderStep, ForwarderRefused, ForwarderListens, ForwarderStopped, ForwarderLost,
       ForwarderPhases
  <2>3. monitor[p] # "done"
    BY <2>2
  <2> QED
    BY <2>1, <2>2, <2>3
<1>6. ASSUME NEW p \in Callers, MonitorErrors(p) PROVE MonitorInv'
  <2>1. /\ Returned(p) /\ UNCHANGED <<localPort, on, fwPhase>>
        /\ monitor' = [monitor EXCEPT ![p] = "done"]
        /\ \/ ReturnedError(p) /\ state' = [state EXCEPT ![on[p]] = "failed"]
           \/ ~ReturnedError(p) /\ UNCHANGED state
    BY <1>6 DEF MonitorErrors
  <2> QED
    BY <2>1
<1>7. ASSUME NEW t \in Tunnels, Stop(t) PROVE MonitorInv'
  BY <1>7 DEF Stop
<1>8. CASE UNCHANGED tunnelVars
  BY <1>8 DEF tunnelVars
<1> QED
  BY <1>1, <1>2, <1>3, <1>4, <1>5, <1>6, <1>7, <1>8 DEF Next, TunnelStep, ClientStep

\* A running tunnel whose pod is lost has a monitorErrors that will fail it: the
\* one of the start that owns its port, however many starts, stops and failures
\* of the tunnel lie between.  This is the safety half of LossNoticed.
THEOREM NoLossIsUnwatched == Spec => []LossIsWatched
<1>1. Init => MonitorInv
  BY DEF Init, MonitorInv
<1>2. IInv => OwnInv
  BY DEF IInv
<1>3. OwnInv /\ MonitorInv => LossIsWatched
  BY NoneAssumption DEF MonitorInv, LossIsWatched, ReturnedError
<1> QED
  BY <1>1, <1>2, <1>3, StepMonitor, Inductive, PTL DEF Spec
=============================================================================
