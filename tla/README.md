# autotunnel in TLA+

A formal model of autotunnel (`src/`), which opens Kubernetes port-forwards on
demand: a connection to a configured hostname or local port makes a *tunnel*
(a client-go port-forward), the connection is proxied through it, and idle
tunnels are closed. The modules say what the code does, TLC checks them on
small instances, and TLAPS proves the safety properties for every instance.
`PROJECT.json` maps every definition to the lines it stands for.

Contents: [1 Inventory](#1-inventory) · [2 Modules](#2-modules-and-how-they-correspond-to-the-code) ·
[3 Runs](#3-runs) · [4 Fairness](#4-fairness) · [5 Proofs](#5-proofs) ·
[6 Findings](#6-findings) · [7 Limits](#7-what-is-not-modelled) · [8 Plan](#8-plan)

## 1 Inventory

| Component | State | Operations | Talks to | Modelled in |
|---|---|---|---|---|
| `main.go` | app number, why it stops | build app, start/stop servers, wait for signal, reload or server error | everything below | `Lifecycle`, `Servers` |
| `internal/watcher` | inotify watch, debounce timer, `currentConfig`, `ReloadChan` | `Start`, `watchLoop`, `reloadConfig`, `Stop` | main by channel; config | `Lifecycle` |
| `internal/config` | none (values) | `LoadConfig`, `Validate`, defaults, exec path expansion | file system | `Config` (rules), `Lifecycle` (valid or not) |
| `internal/httpserver` server, mux | listener, connection queue | `Start`, `Shutdown`, `acceptLoop`, `Enqueue`, peek first byte | handlers | `Mux`, `Sockets`, `Relay` (bytes) |
| `internal/httpserver` handlers | per connection | `ServeHTTP` (one retry), `proxyRequest`, `handleTLSConnection`, SNI parser | manager, tunnel | `TunnelMgr`, `Hello`, `Relay` |
| `internal/httpserver` TLS errors | certificate cache (LRU, 24 h certificates) | `GetCertificate`, generate, insert/evict, replay of the ClientHello | none | `CertCache`, `Relay` |
| `internal/tcpserver` | listeners, accept loops | `Start`, `Shutdown`, `handleConnection` | manager, tunnel | `TCPServer`, `TunnelMgr` |
| `internal/tcpserver` jump handler | jump pod in the cluster | find or create pod, wait ready, exec stream | k8sutil | `TCPServer`, `Relay` |
| `internal/tunnelmgr` | two registries with a mutex each | `GetOrCreate*`, idle cleanup loop, `Shutdown` | tunnel, k8sutil | `TunnelMgr` |
| dynamic routes (in `tunnelmgr`) | none | `ParseDynamicHostname` | none | `DynamicRoute`, `Hello` |
| `internal/tunnel` | `state`, `localPort`, `lastError`, `stopChan`, `readyChan`, `lastAccess` | `Start`, `awaitReady`, `Stop`, `MarkFailed`, `Touch`, `monitorErrors` | client-go | `Tunnel` |
| `internal/k8sutil` | client cache by context | clients, pod lookup, port resolution | API server | `TCPServer` (clients, pods) |
| `internal/netutil` | none | `BidirectionalCopy` | none | `Relay` |

What is hard in each, and what makes it correct:

* **tunnel.** Many connections are handed one object. `t.mu` protects the
  state, but not across a start: `stopChan` and `readyChan` are assigned
  without it, `handleReady` and `monitorErrors` write a state they did not
  read. Correct means: one starter, everybody else waits and is released, no
  one is sent to a port before the forward is ready, an abandoned start stops
  what it started, no channel is closed twice.
* **tunnelmgr.** Handlers keep a handle while the cleanup loop and `Shutdown`
  stop and remove tunnels. Correct means: a tunnel that was just handed out is
  not collected, an idle one eventually is, `Shutdown` terminates.
* **watcher and main.** Five kinds of goroutine (editor, `watchLoop`, timer,
  `httpServer.Start`, main) exchange a file, a stored configuration and a
  channel of capacity one. Correct means: no saved configuration is lost, the
  process settles on the file, exit does not hang, a restart finds its port
  free.
* **The servers.** Accept loops, a goroutine per connection and net/http pass
  connections on, through a bounded queue on the HTTP side, while main starts
  listeners that may fail and closes all of it. Correct means: a connection is
  accepted once, has one handler and is closed once; none is stuck between
  two goroutines; what was opened is released wherever the start failed; the
  shutdown ends and leaves no goroutine behind.
* **jump handler, k8sutil.** Create-if-missing against other clients of the
  same cluster; a cache of clients filled under a lock that is taken after
  the miss.
* **SNI parser, dynamic routes.** Nested lengths in bytes that come from the
  network, cut anywhere; names that contain the markers that separate them.
  Correct means: no index out of range, the name that is meant or none, the
  route that is spelled or none.
* **Relays.** Bytes are read ahead twice and replayed; the two directions of a
  copy end separately. Correct means: client and backend have one TCP
  connection.
* **TLS errors.** A map and a list that must agree, filled outside the lock.

Every hazard, at its line and with the properties that would notice it, is in
`PROJECT.json`.

## 2 Modules and how they correspond to the code

    Tunnel  <-- TunnelMgr                    Lifecycle         CertCache

    Sockets <-- Mux       <-- Servers ==> Listener             Relay ==> Pipe
    Sockets <-- TCPServer <-- Servers
    Config  <-- TCPServer
    Config  <-- DynamicRoute <-- Hello

`A <-- B`: B extends A; `A ==> B`: A implements B (INSTANCE). `Tunnel` is the abstract
specification that `TunnelMgr` implements, `Listener` that of `Servers`, `Pipe`
that of `Relay`. `MCX` is the instance of `X` for TLC, `XProofs` holds the
theorems about `X`.

### Tunnel

One tunnel object per element of `Tunnels`, one connection attempt per element
of `Callers`. A caller walks through `pc` from `"new"` (no tunnel yet) over
the check `IsRunning`, `Start` and its steps, to the dial of the local port and
the copy. Each action is one critical section of `t.mu` or one access outside
it, so that TLC interleaves what the Go scheduler may interleave.

* A channel is named after the caller that made it: `stopChan[t] = p` is the
  channel that `p`'s start made. `stopClosed` and `readyClosed` are the closed
  ones; `None` is the nil channel. The local port of a run is named the same
  way. Re-use of a port number by the operating system is not modelled.
* `forwarder` variables are client-go's `ForwardPorts` goroutine (external): it
  dials the pod (and does not look at its stop channel until it listens), then
  listens and closes the ready channel, then runs until it is stopped or the
  pod is lost. `monitor` is the goroutine that reads its result.
* `crashed` is set when a channel is closed twice in a goroutine nobody
  recovers, which ends the process. net/http recovers the panics of its
  handlers: these callers are `Recovering`, and such a panic ends only the
  caller (and leaves what the code had not done yet undone: the check that a
  tunnel left in `Starting` still lets every `Start` return is part of
  `StartReturns`).
* `Acquire`, `CopyDone` and `Stop` belong to the client. In `Tunnel` the client
  is the most general one: it hands out any tunnel and stops any tunnel at any
  time. `Tunnel!Spec` is thereby the abstract specification that `TunnelMgr`
  implements.

### TunnelMgr

`TunnelMgr` puts the real client in place: the registries (`reg`), the idle
times (`age`, in ticks, saturating one above the longest timeout), the
cleanup loop, `Shutdown`, and the three kinds of handler with their order of
`GetOrCreate`, `IsRunning`, `Start`, `Touch`, `LocalPort`, dial and
`MarkFailed`. HTTP requests have a second attempt, a caller of its own
(`Retry`, `First`). `handed` is a history variable for the properties. The mutex
of a registry is held for as long as `cleaner.at` or `down` name it;
`GetOrCreate*` takes and releases it in one action.

### Lifecycle

The run loop of `main`, `watchLoop`, the debounce timer, the `reloadConfig`
goroutine, and the `Start` goroutine of each app's HTTP server. File contents
are `Valid` configurations (some with `auto_reload_config: false`) or
`Invalid` ones. Editors (external) save in place, by a backup rename followed
by a new file, or by renaming a new file over the old. inotify watches the
inode; pending events are a set, since the loop treats two events of a kind
like one. `port` says which app's listener has the HTTP address; every
configuration uses the same address, and no other process does.

### CertCache

`tlsErrorCertProvider`: the map `certCache`, the list `lruList`, and the
connections that need an error page. `GetCertificate` is two actions, as it
holds `cacheMu` twice: `Lookup` and `Generate` (or `GenerateFails`).
An element of the list is its entry, a hostname with a certificate; a
certificate is only an identity. `recent` is a history variable, the hostnames
in the order of their last use, from which `KeepsRecent` says what an LRU cache
holds.

### Sockets, Mux, TCPServer, Servers

`Servers` is one app of `main.go`, from `LoadConfig` to the end of
`shutdownApp`. It composes the HTTP server (`Mux`), the TCP server with its
jump handler and client factory (`TCPServer`), and what both share: the
kernel's listeners and connections (`Sockets`) and main itself.

* `open` are the ports with a listener. `conn[c]` is the stage that a
  connection has reached, and thereby where its goroutine is: the code has one
  goroutine for each connection, or has handed it to net/http. `at[c]` is the
  port it came to.
* `Mux`: `http` is where `Server.Start` is (between `net.Listen` and the
  assignments of `s.listener` and `s.server` there are states of their own,
  which `Shutdown` distinguishes), `serve` where net/http's loop is, `queue` is
  `httpConns`, and `done`, `muxDone`, `srvClosed` are the three things that
  `Shutdown` closes, one after the other. Net/http (external) takes one
  connection at a time from `Accept` and puts it into its table afterwards
  (`Track`): a connection in between is not closed by `http.Server.Close`.
* `TCPServer`: `loop[l]` is the accept loop of a port, `listeners` the map of
  that name, `stopped` the closed stop channels, `cancelled` the context of the
  server. The jump handler goes over the two halves of the client factory
  (`FastPath` with the read lock, `SlowPath` with the write lock) to the pod:
  `Discover`, `Create`, `PodIsReady`, `OpenStream`. There is one pod, which
  others may create, start and delete at any time (`PodChanges`, external).
* `main` goes through `Phases`; each part of `Shutdown` of both servers is a
  step. `failed` says that `tcpServer.Start` has failed, whose own `Shutdown`
  then precedes that of `shutdownApp`.
* `Listen` succeeds on any port that the process has not open; that another
  process has it is a failure that may always happen.

### Config

`Validate` and what it calls, on records. A string is the empty one or a
representative of those that the code treats alike.

### DynamicRoute and Hello

`DynamicRoute` is `ParseDynamicHostname` on hostnames as sequences of labels,
`Format` the documented inverse. `Hello` is one TLS connection, from the Read
of the ClientHello over every field the parser skips (one action each) to the
route. A step that would index behind the buffer goes to `"panic"`, and a
`Read` returns any beginning of the message that fits the reader's buffer.

What a client means is part of a message: a message that is `meant` carries its
`name`, the length of its record (`whole`) and the offsets at which its
extensions start (`starts`), and is a hello in order (`InOrder`, from RFC 8446,
external): one record of handshake type 1 whose fields fill it (`FieldsInOrder`),
followed by extensions that fill it one after another (`BlockInOrder`), of which
at most one is a server name, with one name in it (`NameInOrder`). `starts` is given, since
finding the extensions is what the parser is for. A hello may leave the
extensions out (`NoBlock`); then nothing may follow it, because
`skipToExtensions` looks for them up to the end of what has arrived and takes
the next record for them.

### Relay and Pipe

The bytes of one connection. `inq` is what the kernel holds for the handler to
read, `peeked` the `bufio.Reader` of `peekConn`, `hello` the ClientHello that
is replayed to the backend or to the error page, `hand` the buffers of the two
copies, `got` what has arrived. Bytes are numbers in the order they were sent.
Both ends may send, close their stream and reset at any time; a reset may
discard what was not read, or not.

`Pipe` says what a TCP connection is. A reset, or a handler that gives up
(`cut`), makes it `broken`, and only then may a stream end early. `Relay`
implements it.

## 3 Runs

| Run | Instance | Shows |
|---|---|---|
| `start` | 2 callers (one recovers panics), 1 tunnel | before a tunnel has run: one starter, nobody uses it early, no leaked forwarder, no double close; every `Start` returns; a lost forwarder is noticed |
| `http_handlers` | one request with its own retry, 2 tunnel objects | types; every step of the manager is a step of `Tunnel!Spec`; `Shutdown` returns although it takes the mutexes of the loop it waits for |
| `idle_cleanup` | 2 TCP connections, TCP timeout 1, HTTP timeout 0 | no hand-out within the timeout is undone; idle tunnels are collected |
| `lifecycle` | 3 edits of every kind, 4 apps, 1 loader | no reload is lost, the process settles on the watched file, exit completes, a listener's error ends it only by the race of the second finding |
| `cert_cache` | 2 connections at a time, 4 hostnames, room for 3 | map and list agree, the bound holds, eviction is least-recently-used, one certificate per cached hostname |
| `servers` | 2 connections, 3 ports, a queue of 1, 19 configurations | both servers implement `Listener`; no port is taken from oneself, all are released; one client per context; no connection is stuck, the shutdown ends and leaves nothing behind |
| `hello` | 101 messages, each cut anywhere, 12 hostnames | the SNI parser stays in range, ends, and finds the name that is meant; hostnames lead to the routes they spell |
| `relay` | 1 connection of each kind, 3 bytes per direction | peek, replay and copies are one TCP connection, which delivers and ends |
| `stale_retry`, `double_close`, `reload_race`, `atomic_save` | see [6](#6-findings) | what documentation or tests say and the code does not do |

Bounds, and why they are enough.

* `start` has two callers, a starter and one that waits, comes late or holds an
  old handle (a caller may be handed the tunnel after it was stopped). The safety
  properties among them are proved for any number.
* `http_handlers` has one request, whose second attempt meets the cleanup and
  `Shutdown`, but no other connection: that the steps of any number of them are steps
  of `Tunnel!Spec` is proved. A second attempt among other connections is in
  `stale_retry`, with the request, its retry and two TLS connections, before the
  first tick of the cleanup (30 s after the start), as its counterexample needs
  neither cleanup nor `Shutdown`; with one connection less there is none.
* `double_close` has three connections on one route. Two and a `Shutdown` that
  stops the tunnel would be enough for the double close; in its counterexample
  the cleanup stops it.
* Two tunnel objects on one route are a tunnel and its replacement. Timeouts of
  0 and 1 tick reach "idle" and "not idle yet"; the different timeouts for the
  two protocols make the fallback visible.
* Three edits are a save, a save while the first is being loaded, and one while
  main restarts; four apps are one more than they can cause.
* A cache of three has a front, a middle and a back, and the fourth hostname has
  no room; two connections can miss one hostname at a time.
* `servers`: the ports are those of HTTP, a route and a jump route, so that the
  second of two TCP listeners can fail. Two connections meet in every pair of
  stages, and fill a queue of one (256 in the code). Each wrong configuration
  has a single mistake, so that a check that is left out is noticed. About
  300,000 states, two minutes.
* `hello`: all shapes of the fields (empty or not, the server name first, in
  the middle or last, another record behind the hello), each byte of a hello
  replaced by 0 and by 255, and a hello over two records. The header before the
  session identifier has 4 bytes instead of 38 and the reader's buffer 40
  instead of 4096; both are constants, and the bound of `BufferSize` is reached.
* `relay`: with three bytes, a reader that holds two and any length of a Read,
  bytes are before, in and behind what was read ahead. `HelloSize` exceeds
  `PeekSize`, as in the code.

A caller of `Tunnel` makes one connection, so the number of callers bounds the
number of starts, which is its only other bound. Runs have `CHECK_DEADLOCK FALSE`
because the systems stop, except `cert_cache`: all connections have ended, the
process has exited or crashed, or no free tunnel object or app number is left.

## 4 Fairness

* `Tunnel!Fairness`: a goroutine that can go on does (the steps of `Start`
  including the `time.After` branch; dial; `MarkFailed`; `monitorErrors`; a
  forwarder whose stop channel is closed). Nothing is assumed of the caller's
  context, and nothing of the cluster but that API calls end, with or without
  success. The API calls themselves are bounded by client-go, which is
  external.
* `MgrFairness`: the ticker, time, cleanup and `Shutdown` go on. Two strong
  assumptions: a `select` with `ctx.Done()` and a due tick chooses the former
  at some point (Go chooses at random), and a `sync.Mutex` does not starve a
  waiter (its starvation mode). Nothing is assumed of the handlers: what the
  manager promises does not depend on them. `MgrUpSpec` restricts behaviours to
  those without `Shutdown`, for properties of a manager that stays up, and
  `MgrEarlySpec`, for a safety property, to those before the first tick.
* `Lifecycle!Fairness`: `watchLoop`, loads, `httpServer.Start` and main go on.
  Nothing is assumed of editors and of the user's signal.
* `Servers!Fairness`: main, `httpServer.Start`, net/http's loop, the accept
  loops' ends, and the goroutine of each connection as far as it does not need
  its client (`HandlerStep`). A client need not send its first byte, a signal
  need not come, the pod need not become ready, and a TLS, TCP or jump stream
  may last. That `WaitForPodReady` and API calls end is their timeout.
* `Hello`: the handler goes on. `Relay!Fairness`: the handler and each copy go
  on. Nothing is assumed of client and backend but that an end which is written
  to reads or resets; the handlers of net/http and of the error page have
  deadlines (`Answered`).

## 5 Proofs

`tlapm` checks all proofs from nothing; they assume the named `ASSUME`s of the
modules and hold for any number of callers, tunnels, routes, edits, apps,
connections, ports, configurations, messages and bytes.

**TunnelProofs.** `TypeCorrect`, `FirstStartIsExclusive`,
`NobodyUsesATunnelEarly`, `FirstStartLeaksNothing`, `FirstStartDoesNotPanic`.
`TypeOK` alone is not inductive: that no nil channel is closed depends on where
the starters are. `OwnInv` adds `Ownership` (what each `pc` implies of the
two channel fields) and `ForwarderOwnership` (a forwarder holds channels that
exist, and at most once). `FirstStart`, on top, says of every tunnel that has
not run that its state, its channels and its callers fit together: the starter
is unique, its channels are the ones in the fields and open, and waiters
have nothing to use. The five theorems are conjuncts or consequences of
`IInv == OwnInv /\ FirstStart /\ NoPanicBeforeRan`. `RanStable` is the lemma
that a tunnel which has run has run for ever, so that an action need only be
considered on tunnels that have not run after it.

After the first run these properties are false of the code (see the first
finding), which is why they are stated up to it. Two properties hold of all
runs. `NoStartIsForgotten`: a tunnel in `Starting` has a caller that is still
before the statement that leaves `Starting`, in spite of stops, overlapping
starts, aborts and recovered panics; it is inductive on top of `OwnInv`, as a
starter that finds its channel closed had another before it (`StepStarter`).
`NoLossIsUnwatched`: a running tunnel whose forwarder was lost has a
`monitorErrors` that has not looked yet. It needs `MonitorInv`: the port of a
tunnel belongs to a start of this tunnel, whose monitor was started before the
port was set and ends only with the state it has seen.

**TunnelMgrProofs.** `ManagerImplementsTunnel` is the refinement
`MgrSpec => Spec`: each manager step is a step of the general client or a
stutter. It rests on `RegistryInv` (a registered tunnel has a route, and it is
the one it is registered for) and `CleanerInv` (a cleanup victim is
registered). With it, every safety theorem of `TunnelProofs` carries over
(`HandlersStartSafely`). `CleanupRespectsHandOuts` needs `AgeInv`
(`age <= handed`: a hand-out touches) and that the mutex keeps hand-outs from
falling between check and stop. `HandlersKeepTheirRoute`: a tunnel's route never
changes (an action property) and a request's second attempt goes where its
first went. `RegistriesAreGuarded` is the mutual exclusion that `ShutdownReturns`
relies on: while the cleanup loop or `Shutdown` hold the mutex of a registry, the other
one and `GetOrCreate*` leave it alone, what the loop goes through stays
registered, and a tunnel that runs or starts leaves a registry in no other way.

**LifecycleProofs.** `LifecycleTypeCorrect` and `NoReloadIsLost`, for any
number of overlapping loads. `NoLostReload` needs `LoadedIsValid` (what a
loader is about to store passed `LoadConfig`) only for the types; it is
inductive itself. `FatalNeedsARace` says that the second finding is the only
way in which the HTTP listener ends the process: `PortInv` ties `port` to
the one server that listens, and a shutdown that finds the listener releases
it. `NoEditIsForgotten`: an app that does not run what the watched file says has
an event, the timer, a load or a signal on its way. Its invariant `FollowInv`
follows an edit from the event through the timer into the loader. It is stated under
`OneLoader`: a load ends before the debounce timer fires again, and nobody edits
between `LoadConfig` and the first `Add`. Both are needed: of two loads under way the
older may store last, and an edit before the watch has no event (see [7](#7-what-is-not-modelled)).
`StopHasALoop`: main waits for `watchLoop` only where one was started.

**CertCacheProofs.** `CertTypeCorrect`, `CacheIsCoherent`, `CacheIsBounded`,
`RecentAreKept` and the action property `OneCertificateEach`, for every cache
size, so also for the 1000 of the code. The invariant is the conjunction of
the four, with the fact that `recent` names no hostname twice. `MoveToFrontMoves`,
`MovedElements` and `PushFrontShifts` say what the two list operations do;
`HitKeepsCache` and `InsertKeepsCache` are the two ways in which the cache
changes. That a hit moves the same position in the list and in `recent`, and
that an insertion into a full cache drops the position of `recent` just after
the last that fits, is the argument for `KeepsRecent`.

**ServersProofs.** `ServersTypeCorrect`, `NoPortIsTakenTwice`,
`ShutdownReleasesPorts`, `OneClientEach` and the refinement
`ServersImplementListener`, for any configurations and any capacity of the
queue. The types (`TypeParts`) are inductive only with the contents of the
queue: that it holds exactly connections at the stage "queued", each once; and
with the port of a jump connection, without which its route is not defined.
`Wiring` adds what ties the listeners to main: `PhasesOK` (after
`LoadConfig` the configuration is valid; after which phase of the shutdown
nothing listens any more) and `PortsOK` (an open port is in the map of the TCP
server, or is the HTTP port after `net.Listen`). `Validate` enters by the lemma
`PortsDiffer`. `ClientsOK` is the invariant of the client factory: until
`Clear`, whoever has passed it uses what the cache holds, which the second look
under the write lock preserves. `NobodyWaitsInVain` says that a connection
on its way to net/http has somebody who takes it or may be dropped, that an accept
loop without its listener was told to stop, and that `wg.Wait` waits for nobody
else; `WaitInv` adds when net/http's goroutine exists and that a listener stays
with its loop until that is told to stop. For the refinement, each kind of move in
`Sockets` is mapped once (`MoveMaps`, `AcceptMaps`, `EndMaps`, `CloseMaps`,
`OpenMaps`, `SameMaps`), and each action is one of them.

**HelloProofs.** `HelloTypeCorrect`, `ParserStaysInRange`, `RoutesAreValid`
and `SpelledRoutesAreFound`, for any messages, whole, cut or damaged, and any
hostnames. `HelloInv` says that `data` is a prefix of what was sent, that its
elements are bytes, and that the offset is a natural number; what the parser
compares before each access (`SkipKeeps`, `ScanKeeps`) then bounds it. For the
hostnames, `HostnameParses` finds the markers of a hostname in the documented
format: it rests on `JoinedAround` and `LastMarker`, that the last occurrence of
a label in a concatenation is the one with no other behind it, which is what
`Unambiguous` demands of the names. `LookupOK` carries the result of `Resolve`
from the lookup to the end. `NamesAreMeant` is about every hello in order: its
invariant `PlaceOK` says that the offset of the parser is where the field which
it is about to read begins, in the sense of `CiphersAt`, `BlockAt` and `starts`,
and that no extension before it was a server name; the block needs no induction
over its extensions because `Following` leads from each start to the next.
`ParserAdvances` is an action property: each step takes from `StepsLeft`, a
natural number that the length of the message bounds.

**RelayProofs.** `RelayTypeCorrect` and `RelayIsAPipe`, the refinement of `Pipe`,
for any number of bytes, any sizes of buffers and any length of every Read and
Write. The invariant `RelayInv` is the type invariant with two parts. `Flow`: in
each direction, what has arrived, what is held on the way in the order of the
code's buffers, and what waits to be read make up `1 .. sent`. `Stages`: which
buffer can hold something at which stage, without which the order in `Flow`
would not be the order of the code. `CatLaws`, `LenCat` and `Split` are about
sequences; the `*Law` lemmas say what each operation that moves bytes does to
the chain, and the `*Inv` lemmas use them, one for each action. Three theorems
follow from it. `EndsAreWhole`: who is told of the end of the other's stream has
all of it, unless the connection is broken; it is a property of `Pipe`, carried over by the
refinement. `CopyHoldsNothingBack`: while the copies run, what has not arrived
is in the hands of a goroutine that can go on, whatever has become of the
other direction. `HandlersWaitForSenders`: a handler waits for nobody but an
end that neither closes nor resets.

**What stays with TLC.** Liveness under fairness needs `ENABLED`, which is
beyond the provers. For most of these properties the safety half is proved for every
instance, that is, that whoever waits waits for somebody who is there and has
something to do; that this somebody gets there is what TLC checks on the
instances above:

| Only model-checked | Proved of it |
|---|---|
| `StartReturns` | `NoStartIsForgotten` |
| `LossNoticed` | `NoLossIsUnwatched` |
| `ShutdownReturns` | `RegistriesAreGuarded` |
| `Settles` | `NoEditIsForgotten`, `NoReloadIsLost` |
| `ExitCompletes` | `StopHasALoop` |
| `QueueDrains`, `ShutdownQuiesces` | `NobodyWaitsInVain` |
| `ParseEnds` | `ParserAdvances` |
| `Delivers` | `CopyHoldsNothingBack` |
| `RelayEnds` | `HandlersWaitForSenders` |
| `IdleCollected` | none: which tunnels are idle is a matter of time |

## 6 Findings

Each is a run that TLC ends with a counterexample; quotes are in
`PROJECT.json`.

1. **`double_close`** (`operations.go:51`). `MarkFailed` closes `t.stopChan`
   again when it is the closed channel of an earlier run. It takes a stop, a
   new start that has not made its channel yet, and a failed dial of a caller
   with the old port. A TLS or TCP handler's panic is not recovered, the
   process ends.
2. **`reload_race`** (`server.go:98`). A reload served before
   `httpServer.Start` has set its listener leaves the address taken; the next
   app cannot listen and the process ends.
3. **`atomic_save`** (`watcher.go:84`). After the file was replaced by a rename
   over it, the watch is on the unlinked inode: one reload happens, later edits
   are not seen.
4. **`stale_retry`** (`tunnel.go:108`). The second attempt of an HTTP request
   can go to the port on which the first has just failed. The forwarder is
   lost, and another connection restarts the tunnel before the request's
   `MarkFailed`, which then stops the new start; its `ForwardPorts` ends without an
   error. The second attempt waits for a third start of the same tunnel,
   sees the failure of the second, whose `lastError` is nil, takes it for
   success and dials the port of the first run.

`Settles` is what the code does deliver: once edits stop, and *if* the inode
that the path names is the watched one, the app runs the file's configuration.

What the code does, in the models and without a document that says otherwise:

* A connection that was handed a tunnel before the cleanup removed it may start
  it afterwards; the tunnel is then in no registry and runs until the process
  ends. `Shutdown` stops running tunnels only; one that is starting survives
  it, also into the next app after a reload.
* A connection that net/http has accepted and not yet put into its table when
  `http.Server.Close` runs is served after the shutdown (`Track`). The HTTP
  port stays open if `Shutdown` did not see the listener (`PortsReleased`).
* A ClientHello that does not come with the first Read is refused, and one
  that is split over two records may yield a wrong name or none (`NameIsMeant`
  is about hellos in one record). In a hello without extensions that comes
  together with a further record, that record is read as extensions.
* The connection whose `Create` answers `AlreadyExists` does not wait for the
  pod. `Clear` does not ask who is building a client, so a jump connection may
  store one after it.
* A reset is passed on as an orderly end of the stream. The half-close of a
  jump client cancels its exec stream with what the other end has still to say.

## 7 What is not modelled

* YAML, defaults, kubeconfig paths (`resolveKubeconfigs`), and
  `ExpandExecPath`, which prepends configured and default directories to
  `PATH` at each start of an app (those of an earlier configuration stay):
  values that are passed on, on which no step depends.
* `service.go`: the resolution of a service's port, pure code inside the one
  step in which `Tunnel` asks the cluster. Headers, pages, logging.
* The manifest of the jump pod, the classification of its stderr, the schemes
  of tunnels (they change the request that the backend gets, not what is
  connected to what). `InjectClient`, which only tests call.
* Two kubeconfig lists with one context name, which share a client.
* TLS itself: cryptography, validity of certificates (24 hours; the cache keeps
  them as long as the process).
* The traffic of a copy in `TunnelMgr`, as it touches no tunnel: an open
  connection does not keep its tunnel from becoming idle.
* Window between `LoadConfig` and the watch at startup: in `Lifecycle`
  (`QuietStart = FALSE`), not in its runs, where nobody edits before the
  watcher is up. Overlapping loads: in the model and the proofs (`Loaders`),
  not in the runs, where a load takes less than the 500 ms of the debounce
  delay.
* An `http.listen` with port 0, for which the operating system chooses a port
  that no other listener has (`NoSelfConflict` compares configured ports).
* Different addresses across reloads, failure of `http.Server.Serve` after it
  listened, other errors of `Accept` than that of a closed listener.
* Data race effects below the level of single field accesses (the two channel
  fields are one word each).

## 8 Plan

Done: all components but the pure code listed above, with proofs of every
safety property of a passing run, and of the safety half of almost every
liveness property. Next, in this order:

1. `Lifecycle` over `Servers`: its `httpServer` steps as an abstraction of
   `Mux`, so that `FatalOnlyAfterRace` and `PortsReleased` are one statement.
2. Which of the properties of a first start hold of later ones, if nobody uses a
   handle from before a stop; `ReloadSurvives` if no reload is pending when an
   app starts.
3. `IdleCollected`: that a tunnel which nobody touches only ages.
4. The choice of a service's port (`service.go`).
