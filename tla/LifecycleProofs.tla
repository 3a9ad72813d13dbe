-------------------------- MODULE LifecycleProofs --------------------------
(***************************************************************************)
(* Proofs about Lifecycle: its types, that no reload is lost whatever the  *)
(* number of edits, of restarts and of overlapping reloads, when a restart *)
(* finds its address taken, and that the watcher forgets no edit.          *)
(***************************************************************************)
EXTENDS Lifecycle, TLAPS

\* What is stored has been loaded.
LoadedIsValid == \A l \in Loaders : loader[l] = "store" => loaded[l] \in Valid

\* The invariant that is inductive: types are needed for the loader that a
\* step updates to be the one that is looked at.
LifeInv == LifecycleTypeOK /\ LoadedIsValid /\ NoLostReload

\* It holds when main has loaded its first configuration.
LEMMA InitLife == Init => LifeInv
<1> SUFFICES ASSUME Init PROVE LifeInv
  OBVIOUS
<1>1. LifecycleTypeOK
  <2> USE BoundsAssumption DEF Init, Contents, LoopPCs, LoaderPCs, MainPCs, ServerPCs
  <2>1. watched \in BOOLEAN /\ timer \in BOOLEAN /\ reload \in BOOLEAN
    OBVIOUS
  <2>2. edits \in 0..MaxEdits /\ app \in 0..MaxApps /\ port \in 0..MaxApps
    OBVIOUS
  <2>3. loader \in [Loaders -> LoaderPCs] /\ loaded \in [Loaders -> Valid \cup {None}]
    OBVIOUS
  <2>4. server \in [Apps -> ServerPCs]
    OBVIOUS
  <2> QED
    BY <2>1, <2>2, <2>3, <2>4 DEF LifecycleTypeOK
<1>2. LoadedIsValid /\ NoLostReload
  BY DEF Init, LoadedIsValid, NoLostReload
<1> QED
  BY <1>1, <1>2 DEF LifeInv

\* Every step of editors, of the watcher, of a server and of main keeps the
\* variables in their types.
LEMMA StepLifecycleTypeOK == LifeInv /\ [Next]_vars => LifecycleTypeOK'
<1> SUFFICES ASSUME LifecycleTypeOK, LoadedIsValid, [Next]_vars PROVE LifecycleTypeOK'
  BY DEF LifeInv
<1> USE BoundsAssumption
    DEF LifecycleTypeOK, Contents, LoopPCs, LoaderPCs, MainPCs, ServerPCs, Apps,
        fileVars, watcherVars, appVars
<1>1. CASE FileStep
  <2>1. ASSUME NEW c \in Contents, WriteFile(c) PROVE LifecycleTypeOK'
    BY <2>1 DEF WriteFile, Edit, Notify
  <2>2. ASSUME NEW c \in Contents, CreateFile(c) PROVE LifecycleTypeOK'
    BY <2>2 DEF CreateFile
  <2>3. ASSUME NEW c \in Contents, ReplaceFile(c) PROVE LifecycleTypeOK'
    <3>1. events' \subseteq {"write", "chmod", "rename"}
      BY <2>3 DEF ReplaceFile, Notify
    <3>2. watched' \in BOOLEAN
      BY <2>3 DEF ReplaceFile
    <3>3. edits' \in 0..MaxEdits /\ file' \in Contents \cup {None}
      BY <2>3 DEF ReplaceFile, Edit
    <3> QED
      BY <2>3, <3>1, <3>2, <3>3 DEF ReplaceFile
  <2>4. CASE MoveAway
    <3>1. events' \subseteq {"write", "chmod", "rename"}
      BY <2>4 DEF MoveAway, Notify
    <3>2. watched' \in BOOLEAN
      BY <2>4 DEF MoveAway
    <3>3. edits' \in 0..MaxEdits /\ file' \in Contents \cup {None}
      BY <2>4 DEF MoveAway, Edit
    <3> QED
      BY <2>4, <3>1, <3>2, <3>3 DEF MoveAway
  <2> QED
    BY <1>1, <2>1, <2>2, <2>3, <2>4 DEF FileStep
<1>2. CASE WatchLoopStep
  <2>1. CASE Rewatch
    BY <2>1 DEF Rewatch
  <2>2. CASE WatchLoopEnds
    BY <2>2 DEF WatchLoopEnds
  <2>3. ASSUME NEW e \in events, ReceiveEvent(e) PROVE LifecycleTypeOK'
    BY <2>3, ZenonT(30) DEF ReceiveEvent
  <2> QED
    BY <1>2, <2>1, <2>2, <2>3 DEF WatchLoopStep
<1>3. ASSUME NEW l \in Loaders, LoaderStep(l) PROVE LifecycleTypeOK'
  <2>1. CASE TimerFires(l)
    <3>1. timer' \in BOOLEAN /\ loader' \in [Loaders -> LoaderPCs]
      BY <2>1 DEF TimerFires
    <3>2. UNCHANGED <<file, watched, events, edits, loop, loaded, current, reload, main, why,
                      cfg, app, server, port>>
      BY <2>1 DEF TimerFires
    <3> QED
      BY <3>1, <3>2
  <2>2. CASE LoadConfig(l)
    BY <2>2 DEF LoadConfig
  <2>3. CASE StoreConfig(l)
    BY <2>3 DEF StoreConfig, LoadedIsValid
  <2>4. CASE SignalReload(l)
    BY <2>4 DEF SignalReload
  <2> QED
    BY <1>3, <2>1, <2>2, <2>3, <2>4 DEF LoaderStep
<1>4. ASSUME NEW i \in Apps, ServerStep(i) PROVE LifecycleTypeOK'
  <2>1. CASE Listen(i)
    BY <2>1 DEF Listen
  <2>2. CASE SetListener(i)
    BY <2>2 DEF SetListener
  <2> QED
    BY <1>4, <2>1, <2>2 DEF ServerStep
<1>5. CASE MainStep \/ ReceiveSignal
  <2> USE DEF GoTo
  <2>1. CASE StartWatcher
    BY <2>1 DEF StartWatcher
  <2>2. CASE InitializeApp
    BY <2>2 DEF InitializeApp
  <2>3. CASE InitializeFails
    BY <2>3 DEF InitializeFails
  <2>4. CASE StartHTTP
    BY <2>4 DEF StartHTTP
  <2>5. CASE StartTCP \/ StartTCPFails
    BY <2>5 DEF StartTCP, StartTCPFails
  <2>6. CASE ReceiveReload \/ ReceiveSignal
    BY <2>6 DEF ReceiveReload, ReceiveSignal
  <2>7. CASE ServerError
    BY <2>7 DEF ServerError
  <2>8. CASE StopHTTP
    BY <2>8 DEF StopHTTP
  <2>9. CASE StopRest
    BY <2>9 DEF StopRest
  <2>10. CASE StopWatcher
    BY <2>10 DEF StopWatcher
  <2> QED
    BY <1>5, <2>1, <2>2, <2>3, <2>4, <2>5, <2>6, <2>7, <2>8, <2>9, <2>10 DEF MainStep
<1>6. CASE UNCHANGED vars
  BY <1>6 DEF vars
<1> QED
  BY <1>1, <1>2, <1>3, <1>4, <1>5, <1>6 DEF Next

\* A configuration is loaded before it is stored.
LEMMA StepLoadedIsValid == LifeInv /\ [Next]_vars => LoadedIsValid'
<1> SUFFICES ASSUME LifecycleTypeOK, LoadedIsValid, [Next]_vars PROVE LoadedIsValid'
  BY DEF LifeInv
<1> USE DEF LoadedIsValid, fileVars, watcherVars, appVars
<1>1. ASSUME NEW l \in Loaders, LoaderStep(l) PROVE LoadedIsValid'
  <2>1. loader \in [Loaders -> LoaderPCs] /\ loaded \in [Loaders -> Valid \cup {None}]
    BY DEF LifecycleTypeOK
  <2> QED
    BY <1>1, <2>1 DEF LoaderStep, TimerFires, LoadConfig, StoreConfig, SignalReload
<1>2. ASSUME UNCHANGED <<loader, loaded>> PROVE LoadedIsValid'
  BY <1>2
<1>3. FileStep \/ WatchLoopStep => UNCHANGED <<loader, loaded>>
  BY DEF FileStep, WriteFile, CreateFile, ReplaceFile, MoveAway, WatchLoopStep, Rewatch,
         WatchLoopEnds, ReceiveEvent
<1>4. ASSUME NEW i \in Apps, ServerStep(i) PROVE UNCHANGED <<loader, loaded>>
  BY <1>4 DEF ServerStep, Listen, SetListener
<1>5. MainStep \/ ReceiveSignal => UNCHANGED <<loader, loaded>>
  BY DEF MainStep, ReceiveSignal, StartWatcher, InitializeApp, InitializeFails, StartHTTP,
         StartTCP, StartTCPFails, ReceiveReload, ServerError, StopHTTP, StopRest, StopWatcher
<1>6. CASE UNCHANGED vars
  BY <1>6 DEF vars
<1> QED
  BY <1>1, <1>2, <1>3, <1>4, <1>5, <1>6 DEF Next

\* A step that neither stores a configuration, takes the signal nor moves main
\* into the life of an app does not lose a reload.
LEMMA StepNoLostReload == LifeInv /\ [Next]_vars => NoLostReload'
<1> SUFFICES ASSUME LifecycleTypeOK, NoLostReload, [Next]_vars PROVE NoLostReload'
  BY DEF LifeInv
<1> USE DEF NoLostReload, fileVars, watcherVars, appVars
<1>1. CASE FileStep
  BY <1>1 DEF FileStep, WriteFile, CreateFile, ReplaceFile, MoveAway
<1>2. CASE WatchLoopStep
  BY <1>2 DEF WatchLoopStep, Rewatch, WatchLoopEnds, ReceiveEvent
<1>3. ASSUME NEW l \in Loaders, LoaderStep(l) PROVE NoLostReload'
  <2>1. loader \in [Loaders -> LoaderPCs]
    BY DEF LifecycleTypeOK
  <2>2. CASE TimerFires(l)
    BY <2>1, <2>2 DEF TimerFires
  <2>3. CASE LoadConfig(l)
    BY <2>1, <2>3 DEF LoadConfig
  <2>4. CASE StoreConfig(l)
    <3>1. loader'[l] = "signal"
      BY <2>1, <2>4 DEF StoreConfig
    <3> QED
      BY <3>1
  <2>5. CASE SignalReload(l)
    BY <2>5 DEF SignalReload
  <2> QED
    BY <1>3, <2>2, <2>3, <2>4, <2>5 DEF LoaderStep
<1>4. ASSUME NEW i \in Apps, ServerStep(i) PROVE NoLostReload'
  BY <1>4 DEF ServerStep, Listen, SetListener
<1>5. CASE MainStep \/ ReceiveSignal
  <2> USE DEF GoTo
  <2>1. CASE InitializeApp
    BY <2>1 DEF InitializeApp
  <2>2. CASE StartHTTP \/ StartTCP \/ StartTCPFails
    BY <2>2 DEF StartHTTP, StartTCP, StartTCPFails
  <2>3. CASE StartWatcher \/ InitializeFails
    BY <2>3 DEF StartWatcher, InitializeFails
  <2>4. CASE ReceiveReload \/ ServerError \/ ReceiveSignal
    BY <2>4 DEF ReceiveReload, ServerError, ReceiveSignal
  <2>5. CASE StopHTTP \/ StopRest \/ StopWatcher
    BY <2>5 DEF StopHTTP, StopRest, StopWatcher
  <2> QED
    BY <1>5, <2>1, <2>2, <2>3, <2>4, <2>5 DEF MainStep
<1>6. CASE UNCHANGED vars
  BY <1>6 DEF vars
<1> QED
  BY <1>1, <1>2, <1>3, <1>4, <1>5, <1>6 DEF Next

\* Together they are inductive.
LEMMA LifeInductive == Spec => []LifeInv
<1>1. LifeInv /\ [Next]_vars => LifeInv'
  BY StepLifecycleTypeOK, StepLoadedIsValid, StepNoLostReload DEF LifeInv
<1> QED
  BY InitLife, <1>1, PTL DEF Spec

\* The variables of the run loop, the watcher and the servers keep their types;
\* in particular no app ever runs a configuration that LoadConfig rejects.
THEOREM LifecycleTypeCorrect == Spec => []LifecycleTypeOK
<1>1. LifeInv => LifecycleTypeOK
  BY DEF LifeInv
<1> QED
  BY LifeInductive, <1>1, PTL

\* No reload is lost between reloadConfig and the run loop, for any number of
\* reloadConfig goroutines that overlap, of edits and of restarts.
THEOREM NoReloadIsLost == Spec => []NoLostReload
<1>1. LifeInv => NoLostReload
  BY DEF LifeInv
<1> QED
  BY LifeInductive, <1>1, PTL
-----------------------------------------------------------------------------
(* The HTTP address.                                                       *)

\* The address is taken by the one server that listens.  No app beyond the
\* current one has a server, and the current one's fails on a taken address.
PortInv ==
    /\ \A i \in Apps : server[i] \in {"listening", "accepting"} <=> port = i
    /\ \A i \in Apps : server[i] # "none" => i <= app
    /\ \A i \in Apps : i = app /\ server[i] = "failed" => port # 0
    /\ main = "startHTTP" => \A i \in Apps : i = app => server[i] = "none"
    /\ why = "server" =>
          main = "fatal" /\ app \in Apps /\ \A i \in Apps : i = app => server[i] = "failed"
    /\ main \notin {"boot", "init", "fatal", "exited"} => app \in Apps

LEMMA StepPort == LifecycleTypeOK /\ PortInv /\ ~Over /\ Next => PortInv'
<1> SUFFICES ASSUME LifecycleTypeOK, PortInv, ~Over, Next PROVE PortInv'
  OBVIOUS
<1> USE BoundsAssumption DEF PortInv, Apps, fileVars, watcherVars, appVars
<1>a. server \in [Apps -> ServerPCs] /\ app \in 0..MaxApps /\ port \in 0..MaxApps
  BY DEF LifecycleTypeOK
<1>1. CASE UNCHANGED <<main, why, app, server, port>>
  BY <1>1
<1>2. FileStep \/ WatchLoopStep => UNCHANGED <<main, why, app, server, port>>
  BY DEF FileStep, WriteFile, CreateFile, ReplaceFile, MoveAway, WatchLoopStep, Rewatch,
         WatchLoopEnds, ReceiveEvent
<1>3. ASSUME NEW l \in Loaders, LoaderStep(l) PROVE UNCHANGED <<main, why, app, server, port>>
  BY <1>3 DEF LoaderStep, TimerFires, LoadConfig, StoreConfig, SignalReload
<1>4. ASSUME NEW i \in Apps, ServerStep(i) PROVE PortInv'
  <2>1. CASE Listen(i)
    BY <1>a, <2>1 DEF Listen
  <2>2. CASE SetListener(i)
    BY <1>a, <2>2 DEF SetListener
  <2> QED
    BY <1>4, <2>1, <2>2 DEF ServerStep
<1>5. CASE MainStep \/ ReceiveSignal
  <2> USE <1>a DEF GoTo, Over
  <2>1. CASE StartWatcher \/ InitializeFails
    BY <2>1 DEF StartWatcher, InitializeFails
  <2>2. CASE InitializeApp
    BY <2>2 DEF InitializeApp
  <2>3. CASE StartHTTP
    BY <2>3 DEF StartHTTP
  <2>4. CASE StartTCP \/ StartTCPFails \/ ReceiveReload \/ ReceiveSignal
    BY <2>4 DEF StartTCP, StartTCPFails, ReceiveReload, ReceiveSignal
  <2>5. CASE ServerError
    BY <2>5 DEF ServerError
  <2>6. CASE StopHTTP
    BY <2>6 DEF StopHTTP
  <2>7. CASE StopRest \/ StopWatcher
    BY <2>7 DEF StopRest, StopWatcher
  <2> QED
    BY <1>5, <2>1, <2>2, <2>3, <2>4, <2>5, <2>6, <2>7 DEF MainStep
<1> QED
  BY <1>1, <1>2, <1>3, <1>4, <1>5 DEF Next

\* A reload ends the process with a listener's error only by the race of
\* StopHTTP with the server's goroutine: whenever the listener was set, its
\* address is free again for every app that follows.
THEOREM FatalNeedsARace == Spec => []FatalOnlyAfterRace
<1>1. Init => PortInv
  BY BoundsAssumption DEF Init, PortInv, Apps
<1>2. LifecycleTypeOK /\ PortInv /\ [Next]_vars => PortInv'
  <2>1. ASSUME PortInv, UNCHANGED vars PROVE PortInv'
    BY <2>1 DEF vars, fileVars, watcherVars, appVars, PortInv
  <2> QED
    BY <2>1, StepPort DEF Next
<1>3. LifecycleTypeOK /\ PortInv => FatalOnlyAfterRace
  <2> SUFFICES ASSUME LifecycleTypeOK, PortInv, why = "server"
               PROVE  \E i \in Apps : /\ i < app /\ port = i
                                      /\ server[i] \in {"listening", "accepting"}
    BY DEF FatalOnlyAfterRace
  <2>1. app \in Apps /\ server[app] = "failed" /\ port # 0 /\ port \in Apps
    BY BoundsAssumption DEF LifecycleTypeOK, PortInv, Apps
  <2>2. server[port] \in {"listening", "accepting"} /\ port <= app /\ port # app
    BY <2>1 DEF PortInv
  <2>3. port < app
    BY <2>1, <2>2 DEF Apps
  <2> QED
    BY <2>1, <2>2, <2>3
<1> QED
  BY <1>1, <1>2, <1>3, LifecycleTypeCorrect, PTL DEF Spec

-----------------------------------------------------------------------------
(* What the watcher still has to do.                                       *)

\* No load takes as long as the debounce timer, and main watches the file it
\* has read: with two loads under way the older one may store last, and an edit
\* that precedes the watch is not reported.
OneLoader == QuietStart /\ \A l, k \in Loaders : l = k

\* What the file says and the watcher has not stored yet is in an event, in the
\* timer or in a load under way.
Followed ==
    \/ events # {}
    \/ timer
    \/ \E l \in Loaders : loader[l] = "load" \/ (loader[l] = "store" /\ loaded[l] = file)
    \/ current = file /\ \A l \in Loaders : loader[l] \in {"off", "signal"}

FollowInv ==
    /\ main = "boot" => current = file /\ ~watched /\ loop = "none"
    /\ loop = "none" => ~watched /\ ~timer /\ \A l \in Loaders : loader[l] = "off"
    /\ file = None => ~watched
    /\ main = "stopWatcher" => loop # "none"
    /\ watched /\ loop = "select" /\ file \in Valid => Followed

\* An app that does not run what a watched file says has a reload coming.
NothingForgotten ==
    watched /\ loop = "select" /\ file \in Valid /\ main \in {"startHTTP", "startTCP", "select"} =>
        \/ cfg = file
        \/ events # {} \/ timer \/ reload
        \/ \E l \in Loaders : loader[l] # "off"

\* Every edit of a watched inode is an event, every event and every Add sets the
\* timer, and what a load has read is what the file says unless an event follows.
LEMMA StepFollow == OneLoader /\ LifeInv /\ FollowInv /\ Next => FollowInv'
<1> SUFFICES ASSUME OneLoader, LifecycleTypeOK, FollowInv, Next PROVE FollowInv'
  BY DEF LifeInv
<1> USE ContentsAssumption DEF FollowInv, Followed, OneLoader, fileVars, watcherVars, appVars
<1>a. loader \in [Loaders -> LoaderPCs] /\ loaded \in [Loaders -> Valid \cup {None}]
  BY DEF LifecycleTypeOK
<1>1. CASE FileStep
  <2>1. ASSUME NEW c \in Contents, WriteFile(c) PROVE FollowInv'
    <3>1. c # None /\ (watched => events' # {})
      BY <2>1 DEF WriteFile, Notify, Contents
    <3>2. UNCHANGED <<watched, loop, timer, loader, current, main>> /\ main # "boot"
      BY <2>1 DEF WriteFile, Edit
    <3> QED
      BY <2>1, <3>1, <3>2 DEF WriteFile
  <2>2. ASSUME NEW c \in Contents, CreateFile(c) PROVE FollowInv'
    <3>1. ~watched /\ main # "boot"
      BY <2>2 DEF CreateFile, LifecycleTypeOK
    <3> QED
      BY <2>2, <3>1 DEF CreateFile
  <2>3. ASSUME NEW c \in Contents, ReplaceFile(c) PROVE FollowInv'
    BY <2>3 DEF ReplaceFile, Edit
  <2>4. CASE MoveAway
    BY <2>4 DEF MoveAway, Edit
  <2> QED
    BY <1>1, <2>1, <2>2, <2>3, <2>4 DEF FileStep
<1>2. CASE WatchLoopStep
  <2>1. CASE Rewatch
    BY <2>1 DEF Rewatch
  <2>2. CASE WatchLoopEnds
    BY <2>2 DEF WatchLoopEnds
  <2>3. ASSUME NEW e \in events, ReceiveEvent(e) PROVE FollowInv'
    BY <2>3 DEF ReceiveEvent
  <2> QED
    BY <1>2, <2>1, <2>2, <2>3 DEF WatchLoopStep
<1>3. ASSUME NEW l \in Loaders, LoaderStep(l) PROVE FollowInv'
  <2>1. CASE TimerFires(l)
    BY <1>a, <2>1 DEF TimerFires
  <2>2. CASE LoadConfig(l)
    BY <1>a, <2>2 DEF LoadConfig
  <2>3. CASE StoreConfig(l)
    BY <1>a, <2>3 DEF StoreConfig
  <2>4. CASE SignalReload(l)
    BY <1>a, <2>4 DEF SignalReload
  <2> QED
    BY <1>3, <2>1, <2>2, <2>3, <2>4 DEF LoaderStep
<1>4. ASSUME NEW i \in Apps, ServerStep(i) PROVE FollowInv'
  BY <1>4 DEF ServerStep, Listen, SetListener
<1>5. CASE MainStep \/ ReceiveSignal
  <2> USE DEF GoTo
  <2>1. CASE StartWatcher
    BY <1>a, <2>1 DEF StartWatcher
  <2>2. CASE InitializeApp \/ InitializeFails
    BY <2>2 DEF InitializeApp, InitializeFails
  <2>3. CASE StartHTTP \/ StartTCP \/ StartTCPFails
    BY <2>3 DEF StartHTTP, StartTCP, StartTCPFails
  <2>4. CASE ReceiveReload \/ ReceiveSignal \/ ServerError
    BY <2>4 DEF ReceiveReload, ReceiveSignal, ServerError
  <2>5. CASE StopHTTP \/ StopRest \/ StopWatcher
    BY <2>5 DEF StopHTTP, StopRest, StopWatcher
  <2> QED
    BY <1>5, <2>1, <2>2, <2>3, <2>4, <2>5 DEF MainStep
<1> QED
  BY <1>1, <1>2, <1>3, <1>4, <1>5 DEF Next

\* The watcher forgets no edit of an inode it watches: while the app runs
\* another configuration than the file's, something is still on its way that
\* makes main build the app anew.  This is the safety half of Settles.
THEOREM NoEditIsForgotten == ASSUME OneLoader PROVE Spec => []NothingForgotten
<1>1. Init => FollowInv
  BY ContentsAssumption DEF Init, FollowInv
<1>2. LifeInv /\ FollowInv /\ [Next]_vars => FollowInv'
  <2>1. ASSUME FollowInv, UNCHANGED vars PROVE FollowInv'
    BY <2>1 DEF vars, fileVars, watcherVars, appVars, FollowInv, Followed
  <2> QED
    BY <2>1, StepFollow
<1>3. LifeInv /\ FollowInv => NothingForgotten
  BY DEF LifeInv, NoLostReload, FollowInv, Followed, NothingForgotten
<1> QED
  BY <1>1, <1>2, <1>3, LifeInductive, PTL DEF Spec

\* main waits for a watchLoop only if there is one: configWatcher.Stop is not
\* called for a watcher that was never started.  This is the safety half of
\* ExitCompletes.
THEOREM StopHasALoop == Spec => [](main = "stopWatcher" => loop \in {"select", "rewatch", "stopped"})
<1> DEFINE Waited == main = "stopWatcher" => loop # "none"
<1>1. Init => Waited
  BY DEF Init
<1>2. Waited /\ [Next]_vars => Waited'
  <2> SUFFICES ASSUME Waited, [Next]_vars PROVE Waited'
    OBVIOUS
  <2> USE DEF fileVars, watcherVars, appVars
  <2>1. FileStep => UNCHANGED <<main, loop>>
    BY DEF FileStep, WriteFile, CreateFile, ReplaceFile, MoveAway
  <2>2. CASE WatchLoopStep
    BY <2>2 DEF WatchLoopStep, Rewatch, WatchLoopEnds, ReceiveEvent
  <2>3. ASSUME NEW l \in Loaders, LoaderStep(l) PROVE UNCHANGED <<main, loop>>
    BY <2>3 DEF LoaderStep, TimerFires, LoadConfig, StoreConfig, SignalReload
  <2>4. ASSUME NEW i \in Apps, ServerStep(i) PROVE UNCHANGED <<main, loop>>
    BY <2>4 DEF ServerStep, Listen, SetListener
  <2>5. CASE MainStep \/ ReceiveSignal
    BY <2>5 DEF MainStep, ReceiveSignal, GoTo, StartWatcher, InitializeApp, InitializeFails,
                StartHTTP, StartTCP, StartTCPFails, ReceiveReload, ServerError, StopHTTP,
                StopRest, StopWatcher
  <2>6. CASE UNCHANGED vars
    BY <2>6 DEF vars
  <2> QED
    BY <2>1, <2>2, <2>3, <2>4, <2>5, <2>6 DEF Next
<1>3. LifecycleTypeOK /\ Waited => (main = "stopWatcher" => loop \in {"select", "rewatch", "stopped"})
  BY DEF LifecycleTypeOK, LoopPCs
<1> QED
  BY <1>1, <1>2, <1>3, LifecycleTypeCorrect, PTL DEF Spec
=============================================================================
