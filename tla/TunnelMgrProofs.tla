-------------------------- MODULE TunnelMgrProofs --------------------------
(***************************************************************************)
(* Proofs about TunnelMgr, for any routes, timeouts, handlers and tunnel   *)
(* objects: the manager and its handlers are a client of Tunnel, so what   *)
(* TunnelProofs proves holds of them; the idle cleanup respects the        *)
(* hand-outs, handlers keep their route, and the registries are guarded.   *)
(***************************************************************************)
EXTENDS TunnelMgr, TunnelProofs

\* A registered tunnel is registered under the route it was created for.
RegistryInv ==
    \A k \in Keys : reg[k] # None => route[reg[k]] = k

\* Touching makes a tunnel at least as young as handing it out does.
AgeInv == \A t \in Tunnels : age[t] <= handed[t]

\* The cleanup loop and Shutdown never hold the same mutex, and the loop goes
\* through registered tunnels under the mutex of their registry.
CleanerInv ==
    /\ \A d \in {"http", "tcp"} : ~(cleaner.at = d /\ down = d)
    /\ \A k \in cleaner.left : reg[k] # None /\ cleaner.at = Domain(k)
    /\ cleaner.victim # None => cleaner.victim \in cleaner.left

MgrInv == RegistryTypeOK /\ RegistryInv /\ AgeInv /\ CleanerInv /\ HandedOutIsKept

\* A step of a handler is one of its actions.
LEMMA HandlerSteps ==
    ASSUME NEW p, HandlerStep(p)
    PROVE  \/ \E k \in Keys : GetOrCreate(p, k) \/ NoClient(p, k)
           \/ UsePort(p) \/ Connect(p) \/ ConnectFail(p) \/ ClientGone(p) \/ MarkAndRetry(p)
           \/ TunnelOnly(p)
<1>1. GetOrCreateTunnel(p) \/ GetOrCreateTCPTunnel(p) =>
        \E k \in Keys : GetOrCreate(p, k) \/ NoClient(p, k)
  BY DEF GetOrCreateTunnel, GetOrCreateTCPTunnel, Keys
<1> QED
  BY <1>1 DEF HandlerStep, ServeHTTP, HandleTLSConnection, HandleConnection, UseTunnel

\* The invariant of the manager holds for empty registries.
LEMMA MgrInitInv == MgrInit => MgrInv
<1> SUFFICES ASSUME MgrInit PROVE MgrInv
  OBVIOUS
<1> USE NoneAssumption, RoutesAssumption, TimeoutsAssumption DEF MgrInit, Keys
<1>1. MaxAge \in Nat
  BY DEF MaxAge
<1>2. RegistryTypeOK
  BY <1>1 DEF RegistryTypeOK, ShutdownStages
<1> QED
  BY <1>1, <1>2 DEF MgrInv, RegistryInv, AgeInv, CleanerInv, HandedOutIsKept

\* GetOrCreate*, the cleanup loop, Shutdown, the handlers and the clock keep
\* it.
LEMMA MgrStepInv == OwnInv /\ MgrInv /\ [MgrNext]_vars => MgrInv'
<1> SUFFICES ASSUME OwnInv, RegistryTypeOK, RegistryInv, AgeInv, CleanerInv, HandedOutIsKept,
                    [MgrNext]_vars
             PROVE  MgrInv'
  BY DEF MgrInv
<1>a. MaxAge \in Nat /\ \A k \in Keys : IdleTimeout(k) \in Nat /\ IdleTimeout(k) < MaxAge
  BY TimeoutsAssumption DEF MaxAge, IdleTimeout
<1> USE <1>a, NoneAssumption, RoutesAssumption DEF MgrInv, RegistryTypeOK, RegistryInv, AgeInv,
        CleanerInv, HandedOutIsKept, Keys, Domain, KeysOf, ShutdownStages
<1>1. ASSUME NEW p \in Callers, NEW k \in Keys, GetOrCreate(p, k) PROVE MgrInv'
  BY <1>1 DEF GetOrCreate, Locked, Kept, Touched
<1>2. ASSUME NEW p \in Callers, NEW k \in Keys, NoClient(p, k) PROVE MgrInv'
  BY <1>2 DEF NoClient, Locked
<1>3. ASSUME NEW p \in Callers, UsePort(p) \/ Connect(p) PROVE MgrInv'
  BY <1>3 DEF UsePort, Connect, Touched
<1>4. ASSUME NEW p \in Callers, MarkAndRetry(p) PROVE MgrInv'
  BY <1>4 DEF MarkAndRetry
<1>5. CASE UNCHANGED mgrVars
  BY <1>5 DEF mgrVars
<1>6. ASSUME NEW d \in {"http", "tcp"}, SweepBegin(d) PROVE MgrInv'
  BY <1>6 DEF SweepBegin
<1>7. ASSUME NEW k \in Keys, SweepCheck(k) PROVE MgrInv'
  BY <1>7 DEF SweepCheck
<1>8. ASSUME NEW k \in Keys, SweepStop(k) PROVE MgrInv'
  BY <1>8 DEF SweepStop
<1>9. ASSUME NEW d \in {"http", "tcp"}, SweepEnd(d) PROVE MgrInv'
  BY <1>9 DEF SweepEnd
<1>10. CASE CleanupLoopEnds
  BY <1>10 DEF CleanupLoopEnds
<1>11. CASE Tick
  BY <1>11 DEF Tick
<1>12. CASE ShutdownBegin \/ ShutdownEnd
  BY <1>12 DEF ShutdownBegin, ShutdownEnd, ShutdownMove
<1>13. ASSUME NEW d \in {"http", "tcp"}, ShutdownLock(d) \/ ShutdownUnlock(d) PROVE MgrInv'
  BY <1>13 DEF ShutdownLock, ShutdownUnlock, ShutdownMove
<1>14. ASSUME NEW k \in Keys, ShutdownStop(k) PROVE MgrInv'
  BY <1>14 DEF ShutdownStop
<1> QED
  BY <1>1, <1>2, <1>3, <1>4, <1>5, <1>6, <1>7, <1>8, <1>9, <1>10, <1>11, <1>12, <1>13, <1>14,
     HandlerSteps
     DEF MgrNext, ConnectFail, ClientGone, TunnelOnly, SweepStep, ShutdownStep,
     vars

\* Every step of the composed system is a step of Tunnel, whose client may do
\* anything, or leaves the tunnels alone.
LEMMA MgrStepIsTunnelStep == MgrInv /\ [MgrNext]_vars => [Next]_tunnelVars
<1> SUFFICES ASSUME RegistryTypeOK, CleanerInv, [MgrNext]_vars
             PROVE  [Next]_tunnelVars
  BY DEF MgrInv
<1> USE DEF Next, TunnelStep, ClientStep, UseStep
<1>1. CASE UNCHANGED vars
  BY <1>1 DEF vars
<1>2. ASSUME ~crashed, NEW p \in Callers, HandlerStep(p) PROVE [Next]_tunnelVars
  <2>1. ASSUME NEW k \in Keys, GetOrCreate(p, k) \/ NoClient(p, k) PROVE [Next]_tunnelVars
    BY <1>2, <2>1 DEF GetOrCreate, NoClient
  <2>2. CASE UsePort(p) \/ Connect(p) \/ ConnectFail(p) \/ ClientGone(p) \/ MarkAndRetry(p)
    BY <1>2, <2>2 DEF UsePort, Connect, ConnectFail, ClientGone, MarkAndRetry
  <2>3. CASE TunnelOnly(p)
    BY <1>2, <2>3 DEF TunnelOnly
  <2> QED
    BY <1>2, <2>1, <2>2, <2>3, HandlerSteps
<1>3. ASSUME ~crashed, SweepStep PROVE [Next]_tunnelVars
  <2>1. ASSUME NEW k \in Keys, SweepStop(k) PROVE [Next]_tunnelVars
    <3>1. reg[k] \in Tunnels
      BY <2>1, NoneAssumption, RoutesAssumption DEF SweepStop, RegistryTypeOK, CleanerInv, Keys
    <3> QED
      BY <1>3, <2>1, <3>1 DEF SweepStop
  <2> QED
    BY <1>3, <2>1 DEF SweepStep, SweepBegin, SweepEnd, SweepCheck, CleanupLoopEnds
<1>4. ASSUME ~crashed, Tick PROVE [Next]_tunnelVars
  BY <1>4 DEF Tick
<1>5. ASSUME ~crashed, ShutdownBegin \/ ShutdownStep PROVE [Next]_tunnelVars
  <2>1. ASSUME NEW k \in Keys, ShutdownStop(k) PROVE [Next]_tunnelVars
    <3>1. reg[k] \in Tunnels
      BY <2>1 DEF ShutdownStop, RegistryTypeOK
    <3> QED
      BY <1>5, <2>1, <3>1 DEF ShutdownStop
  <2> QED
    BY <1>5, <2>1 DEF ShutdownStep, ShutdownBegin, ShutdownEnd, ShutdownLock, ShutdownUnlock,
       ShutdownMove
<1> QED
  BY <1>1, <1>2, <1>3, <1>4, <1>5 DEF MgrNext

\* With the invariant of Tunnel it is inductive.
LEMMA MgrInductive == MgrSpec => [](OwnInv /\ MgrInv)
<1>1. MgrInit => OwnInv /\ MgrInv
  BY MgrInitInv, InitOwn DEF MgrInit
<1>2. OwnInv /\ MgrInv /\ [MgrNext]_vars => (OwnInv /\ MgrInv)'
  BY MgrStepInv, MgrStepIsTunnelStep, StepTypeOK, StepOwnership, StepForwarderOwnership
     DEF OwnInv
<1> QED
  BY <1>1, <1>2, PTL DEF MgrSpec

-----------------------------------------------------------------------------
\* The manager with its handlers implements Tunnel: what holds of tunnels
\* under any client holds under this one.
THEOREM ManagerImplementsTunnel == MgrSpec => Spec
<1>1. MgrInit => Init
  BY DEF MgrInit
<1> QED
  BY <1>1, MgrInductive, MgrStepIsTunnelStep, PTL DEF MgrSpec, Spec

\* The registries, ages and the bookkeeping of the cleanup loop keep their
\* types, and so do the tunnels.
THEOREM MgrTypeCorrect == MgrSpec => []MgrTypeOK
<1>1. OwnInv /\ MgrInv => MgrTypeOK
  BY DEF OwnInv, MgrInv, MgrTypeOK
<1> QED
  BY <1>1, MgrInductive, PTL

\* The cleanup loop stops no tunnel that was handed out within the idle
\* timeout, whatever the handlers and Shutdown do meanwhile.
THEOREM CleanupRespectsHandOuts == MgrSpec => []HandedOutIsKept
<1>1. MgrInv => HandedOutIsKept
  BY DEF MgrInv
<1> QED
  BY <1>1, MgrInductive, PTL

\* The handlers never dial a tunnel that has not run, race for its start
\* without panics and leaks, leave none in Starting, and none running on a port
\* whose loss nobody watches, whatever they and the manager do after its first
\* run.
THEOREM HandlersStartSafely ==
    MgrSpec => [](/\ FirstStartExclusive /\ NoEarlyUse /\ NoLeakedFirstStart
                  /\ NoPanicBeforeRan /\ StartingHasStarter /\ LossIsWatched)
  BY ManagerImplementsTunnel, FirstStartIsExclusive, NobodyUsesATunnelEarly,
     FirstStartLeaksNothing, FirstStartDoesNotPanic, NoStartIsForgotten,
     NoLossIsUnwatched, PTL
-----------------------------------------------------------------------------
(* Who is led where.                                                       *)

\* A tunnel that was handed out was created for a route, and a second attempt
\* is made for a request that was handed a tunnel.
HandedInv ==
    /\ \A p \in Callers : on[p] # None => route[on[p]] \in Keys
    /\ \A p \in retrying : on[First[p]] # None

\* The hostname or port that a client came for is that of its handler's tunnel.
LedToRoute ==
    \A p \in Callers : on[p] # None =>
        /\ p \in HTTP \cup TLS => route[on[p]] \in Hosts
        /\ p \in TCP => route[on[p]] \in Ports
        /\ p \in Retry => p \in retrying /\ route[on[p]] = route[on[First[p]]]

RouteStays == \A t \in Tunnels : route[t] # None => route'[t] = route[t]

\* Only GetOrCreate* hands tunnels out, only MarkFailed leads to a second
\* attempt.
LEMMA OtherSteps ==
    ASSUME [MgrNext]_vars
    PROVE  \/ \E p \in Callers, k \in Keys : GetOrCreate(p, k)
           \/ \E p \in Callers : MarkAndRetry(p)
           \/ UNCHANGED <<on, route, retrying>>
<1> USE DEF mgrVars, tunnelVars, objectVars, callerVars
<1>1. CASE UNCHANGED vars
  BY <1>1 DEF vars
<1>2. ASSUME NEW p \in Callers, TunnelOnly(p) PROVE UNCHANGED <<on, route, retrying>>
  BY <1>2
     DEF TunnelOnly, StartStep, CtxDone, ForwarderStep, IsRunning, CopyDone, Start, AwaitPoll,
     AwaitCtxDone, Discover, DiscoverFail, MakeStopChan, MakeReadyChan, NewForwarder,
     NewForwarderFail, EnterSelect, WaitReady, WaitReturned, WaitCtxDone, WaitTimeout,
     SetRunning, SetFailed, GiveUp, ForwarderRefused, ForwarderListens, ForwarderStopped,
     ForwarderLost, MonitorErrors
<1>3. ASSUME NEW p \in Callers,
             (\E k \in Keys : NoClient(p, k))
             \/ UsePort(p) \/ Connect(p) \/ ConnectFail(p) \/ ClientGone(p)
      PROVE  UNCHANGED <<on, route, retrying>>
  BY <1>3 DEF NoClient, UsePort, Connect, ConnectFail, ClientGone, LocalPort, DialOK, DialFail,
     DialAbandoned
<1>4. CASE SweepStep \/ Tick \/ ShutdownBegin \/ ShutdownStep
  BY <1>4 DEF SweepStep, SweepBegin, SweepEnd, SweepCheck, SweepStop, CleanupLoopEnds, Tick,
     ShutdownBegin, ShutdownStep, ShutdownLock, ShutdownUnlock, ShutdownStop, ShutdownEnd,
     ShutdownMove, Stop
<1>5. ASSUME NEW p \in Callers, HandlerStep(p)
      PROVE  \/ \E k \in Keys : GetOrCreate(p, k)
             \/ MarkAndRetry(p)
             \/ UNCHANGED <<on, route, retrying>>
  BY <1>2, <1>3, <1>5, HandlerSteps
<1> QED
  BY <1>1, <1>4, <1>5 DEF MgrNext

\* A new tunnel is created for a route once; no other step assigns routes.
LEMMA StepRoute ==
    ASSUME OwnInv, MgrInv, HandedInv, LedToRoute, [MgrNext]_vars
    PROVE  RouteStays /\ HandedInv' /\ LedToRoute'
<1> USE NoneAssumption, RoutesAssumption, HandlersAssumption
<1>1. ASSUME NEW p \in Callers, NEW k \in Keys, GetOrCreate(p, k)
      PROVE  RouteStays /\ HandedInv' /\ LedToRoute'
  <2>1. PICK t \in Tunnels :
            /\ IF Kept(k) THEN t = reg[k] ELSE route[t] = None
            /\ Acquire(p, t) /\ route' = [route EXCEPT ![t] = k]
    BY <1>1 DEF GetOrCreate
  <2>2. RouteStays
    BY <2>1 DEF RouteStays, Kept, MgrInv, RegistryInv, RegistryTypeOK
  <2>3. /\ on[p] = None /\ on' = [on EXCEPT ![p] = t] /\ retrying' = retrying
        /\ \A q \in Callers : on[q] # None => q # p /\ on[q] \in Tunnels
    <3>1. on[p] = None /\ on' = [on EXCEPT ![p] = t]
      BY <2>1 DEF Acquire, At, OwnInv, Ownership
    <3>2. retrying' = retrying
      BY <1>1 DEF GetOrCreate
    <3>3. \A q \in Callers : on[q] \in Tunnels \cup {None}
      BY DEF OwnInv, TypeOK
    <3> QED
      BY <3>1, <3>2, <3>3
  <2>4. route'[t] = k /\ \A q \in Callers : on[q] # None => route'[on[q]] = route[on[q]]
    BY <2>1, <2>2, <2>3 DEF RouteStays, HandedInv, MgrInv, RegistryTypeOK, Keys
  <2>5. on'[p] = t /\ \A q \in Callers : q # p => on'[q] = on[q]
    BY <2>3 DEF OwnInv, TypeOK
  <2>6. HandedInv'
    BY <2>3, <2>4, <2>5 DEF HandedInv, MgrInv, RegistryTypeOK
  <2>7. p \in Retry => p \in retrying /\ k = route[on[First[p]]] /\ First[p] # p
                       /\ First[p] \in Callers /\ on[First[p]] # None
    BY <1>1 DEF GetOrCreate, Serves, HandedInv
  <2>8. (p \in HTTP \cup TLS => k \in Hosts) /\ (p \in TCP => k \in Ports)
    BY <1>1 DEF GetOrCreate, Serves, MgrInv, RegistryTypeOK
  <2>9. ASSUME NEW q \in Callers, on'[q] # None
        PROVE  /\ q \in HTTP \cup TLS => route'[on'[q]] \in Hosts
               /\ q \in TCP => route'[on'[q]] \in Ports
               /\ q \in Retry => q \in retrying' /\ route'[on'[q]] = route'[on'[First[q]]]
    <3>1. CASE q = p
      BY <2>3, <2>4, <2>5, <2>7, <2>8, <3>1
    <3>2. CASE q # p
      <4>1. on[q] # None /\ on'[q] = on[q] /\ route'[on'[q]] = route[on[q]]
        BY <2>4, <2>5, <2>9, <3>2
      <4>2. q \in Retry => /\ First[q] \in Callers /\ on[First[q]] # None
                           /\ q \in retrying /\ route[on[q]] = route[on[First[q]]]
        BY <4>1 DEF LedToRoute, HandedInv
      <4>3. q \in Retry => route'[on'[First[q]]] = route[on[First[q]]]
        BY <2>3, <2>4, <2>5, <4>2
      <4> QED
        BY <2>3, <4>1, <4>2, <4>3 DEF LedToRoute
    <3> QED
      BY <3>1, <3>2
  <2> QED
    BY <2>2, <2>6, <2>9 DEF LedToRoute
<1>2. ASSUME route' = route, on' = on, retrying \subseteq retrying',
             \A q \in retrying' : q \in retrying \/ on[First[q]] # None
      PROVE  RouteStays /\ HandedInv' /\ LedToRoute'
  BY <1>2 DEF RouteStays, HandedInv, LedToRoute
<1>3. ASSUME NEW p \in Callers, MarkAndRetry(p)
      PROVE  RouteStays /\ HandedInv' /\ LedToRoute'
  <2>1. pc[p] = "mark" /\ on[p] # None /\ on' = on /\ route' = route
    BY <1>3 DEF MarkAndRetry, MarkFailed, At, OwnInv, Ownership
  <2>2. retrying \subseteq retrying' /\ \A q \in retrying' : q \in retrying \/ First[q] = p
    BY <1>3 DEF MarkAndRetry
  <2> QED
    BY <1>2, <2>1, <2>2
<1>4. CASE UNCHANGED <<on, route, retrying>>
  BY <1>2, <1>4
<1> QED
  BY <1>1, <1>3, <1>4, OtherSteps

\* A tunnel leads to one route for ever, and every handler, a request's second
\* attempt included, is led to the route that its client came for, whatever is
\* cleaned up, shut down, failed and created anew meanwhile.
THEOREM HandlersKeepTheirRoute == MgrSpec => [][RouteStays]_vars /\ []LedToRoute
<1>1. MgrInit => HandedInv /\ LedToRoute
  BY NoneAssumption DEF MgrInit, Init, HandedInv, LedToRoute
<1>2. OwnInv /\ MgrInv /\ HandedInv /\ LedToRoute /\ [MgrNext]_vars
          => RouteStays /\ HandedInv' /\ LedToRoute'
  BY StepRoute
<1>3. MgrSpec => [](HandedInv /\ LedToRoute)
  BY <1>1, <1>2, MgrInductive, PTL DEF MgrSpec
<1> QED
  BY <1>2, <1>3, MgrInductive, PTL DEF MgrSpec

-----------------------------------------------------------------------------
(* Who changes the registries.                                             *)

\* While the cleanup loop or Shutdown holds the mutex of a registry nothing
\* enters it, and only its holder takes out what it has stopped.
RegistryIsGuarded ==
    \A k \in Keys : reg'[k] # reg[k] =>
        /\ cleaner.at = Domain(k) => cleaner.victim = k /\ reg'[k] = None
        /\ down = Domain(k) => reg'[k] = None
        /\ cleaner.at # Domain(k) /\ down # Domain(k) => reg'[k] # None \/ ~Kept(k)

\* Four steps change a registry.
LEMMA RegistrySteps ==
    ASSUME MgrInv, [MgrNext]_vars
    PROVE  RegistryIsGuarded
<1> USE NoneAssumption, RoutesAssumption DEF MgrInv, RegistryTypeOK, CleanerInv,
        RegistryIsGuarded
<1>1. ASSUME NEW p \in Callers, NEW k \in Keys, GetOrCreate(p, k) PROVE RegistryIsGuarded
  BY <1>1 DEF GetOrCreate, Locked
<1>2. ASSUME NEW p \in Callers, NEW k \in Keys, NoClient(p, k) PROVE RegistryIsGuarded
  BY <1>2 DEF NoClient, Locked
<1>3. ASSUME NEW k \in Keys, SweepStop(k) PROVE RegistryIsGuarded
  BY <1>3 DEF SweepStop, Domain, Keys
<1>4. ASSUME NEW k \in Keys, ShutdownStop(k) PROVE RegistryIsGuarded
  BY <1>4 DEF ShutdownStop, Domain, Keys
<1>5. CASE reg' = reg
  BY <1>5
<1>6. ASSUME NEW p \in Callers, HandlerStep(p) PROVE RegistryIsGuarded
  <2>1. UsePort(p) \/ Connect(p) \/ ConnectFail(p) \/ ClientGone(p) \/ MarkAndRetry(p)
           \/ TunnelOnly(p) => reg' = reg
    BY DEF UsePort, Connect, ConnectFail, ClientGone, MarkAndRetry, TunnelOnly, mgrVars
  <2> QED
    BY <1>1, <1>2, <1>5, <1>6, <2>1, HandlerSteps
<1>7. CASE SweepStep \/ Tick \/ ShutdownBegin \/ ShutdownStep
  <2>1. \/ \E k \in Keys : SweepStop(k) \/ ShutdownStop(k)
        \/ reg' = reg
    BY <1>7 DEF SweepStep, SweepBegin, SweepEnd, SweepCheck, CleanupLoopEnds, Tick, ShutdownBegin,
       ShutdownStep, ShutdownLock, ShutdownUnlock, ShutdownEnd, ShutdownMove
  <2> QED
    BY <1>3, <1>4, <1>5, <2>1
<1>8. CASE UNCHANGED vars
  BY <1>5, <1>8 DEF vars, mgrVars
<1> QED
  BY <1>6, <1>7, <1>8 DEF MgrNext

\* The cleanup loop and Shutdown exclude each other and every hand-out: what the
\* loop goes through, and stops, is registered until the loop takes it out, and
\* a tunnel that runs or starts leaves a registry in no other way.
THEOREM RegistriesAreGuarded ==
    MgrSpec => [][RegistryIsGuarded]_vars /\ []CleanerInv
<1>1. MgrInv => CleanerInv
  BY DEF MgrInv
<1>2. MgrInv /\ [MgrNext]_vars => RegistryIsGuarded
  BY RegistrySteps
<1> QED
  BY <1>1, <1>2, MgrInductive, PTL DEF MgrSpec
=============================================================================
