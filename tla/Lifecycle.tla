----------------------------- MODULE Lifecycle -----------------------------
(***************************************************************************)
(* The life of the process: the run loop of main.go, which builds an app   *)
(* from the configuration, waits, shuts the app down and builds the next   *)
(* one; the ConfigWatcher of internal/watcher, which makes it do so; and   *)
(* the part of the two servers that the loop starts and stops.             *)
(*                                                                         *)
(* The loop, watchLoop, every reloadConfig (it runs on a timer's           *)
(* goroutine) and every httpServer.Start are goroutines of their own.      *)
(* All configurations listen on one HTTP address, and no other process     *)
(* listens there.  Editors and fsnotify are external: on Linux a watch is  *)
(* on the inode that the path named when it was added.                     *)
(***************************************************************************)
EXTENDS Naturals

CONSTANTS
    Valid,       \* file contents that LoadConfig accepts: configurations
    Invalid,     \* ... and rejects: errors, half-written files
    NoReload,    \* the configurations with auto_reload_config: false
    Saves,       \* how editors save: "write", "move", "replace"
    QuietStart,  \* nobody edits before main has started the watcher
    Loaders,     \* reloadConfig goroutines; one when no load takes 500 ms
    MaxEdits,    \* bound on edits
    MaxApps,     \* bound on restarts
    None         \* no file

ASSUME ContentsAssumption ==
    /\ Valid \cap Invalid = {}
    /\ None \notin Valid \cup Invalid
    /\ NoReload \subseteq Valid
ASSUME SavesAssumption ==
    Saves \subseteq {"write", "move", "replace"} /\ QuietStart \in BOOLEAN
ASSUME BoundsAssumption == MaxEdits \in Nat /\ MaxApps \in Nat

VARIABLES
    file,       \* what configPath names
    watched,    \* fsnotify watches the inode that configPath names
    events,     \* cw.watcher.Events, an event of a kind once
    edits,      \* number of edits so far
    loop,       \* where watchLoop is; "none" without a ConfigWatcher
    timer,      \* the debounce timer runs
    loader,     \* where each reloadConfig is
    loaded,     \* ... and the configuration it has loaded
    current,    \* cw.currentConfig
    reload,     \* a signal is in cw.ReloadChan
    main,       \* where the run loop is
    why,        \* why the app is being shut down, or the process ended
    cfg,        \* app.cfg
    app,        \* the number of the app
    server,     \* where httpServer.Start of each app is
    port        \* the app that listens on the HTTP address, or 0

fileVars    == <<file, watched, events, edits>>
watcherVars == <<loop, timer, loader, loaded, current, reload>>
appVars     == <<cfg, app, server, port>>
vars        == <<fileVars, watcherVars, main, why, appVars>>

Apps == 1..MaxApps
Contents == Valid \cup Invalid

LoopPCs == {"none", "select", "rewatch", "stopped"}
LoaderPCs == {"off", "load", "store", "signal"}
MainPCs == {"boot", "init", "startHTTP", "startTCP", "select", "stopHTTP", "stopRest",
            "stopWatcher", "exited", "fatal"}
ServerPCs == {"none", "spawned", "listening", "accepting", "closed", "failed"}

LifecycleTypeOK ==
    /\ file \in Contents \cup {None}
    /\ watched \in BOOLEAN
    /\ events \subseteq {"write", "chmod", "rename"}
    /\ edits \in 0..MaxEdits
    /\ loop \in LoopPCs
    /\ timer \in BOOLEAN
    /\ loader \in [Loaders -> LoaderPCs]
    /\ loaded \in [Loaders -> Valid \cup {None}]
    /\ current \in Valid
    /\ reload \in BOOLEAN
    /\ main \in MainPCs
    /\ why \in {"running", "reload", "signal", "tcp", "load", "server"}
    /\ cfg \in Valid
    /\ app \in 0..MaxApps
    /\ server \in [Apps -> ServerPCs]
    /\ port \in 0..MaxApps

\* main has loaded its first configuration.
Init ==
    /\ file \in Valid
    /\ watched = FALSE
    /\ events = {}
    /\ edits = 0
    /\ loop = "none"
    /\ timer = FALSE
    /\ loader = [l \in Loaders |-> "off"]
    /\ loaded = [l \in Loaders |-> None]
    /\ current = file
    /\ reload = FALSE
    /\ main = "boot"
    /\ why = "running"
    /\ cfg = file
    /\ app = 0
    /\ server = [i \in Apps |-> "none"]
    /\ port = 0

Over == main \in {"exited", "fatal"}

-----------------------------------------------------------------------------
(* Editors and fsnotify (external).                                        *)

Edit ==
    /\ edits < MaxEdits
    /\ edits' = edits + 1
    /\ QuietStart => main # "boot"
    /\ file # None

Notify(e) == events' = IF watched THEN events \cup {e} ELSE events

WriteFile(c) ==
    /\ "write" \in Saves
    /\ Edit
    /\ file' = c
    /\ Notify("write")
    /\ UNCHANGED <<watched, watcherVars, main, why, appVars>>

\* The file is renamed to a backup, and written anew.
MoveAway ==
    /\ "move" \in Saves
    /\ Edit
    /\ file' = None
    /\ Notify("rename")
    /\ watched' = FALSE
    /\ UNCHANGED <<watcherVars, main, why, appVars>>

CreateFile(c) ==
    /\ file = None
    /\ file' = c
    /\ UNCHANGED <<watched, events, edits, watcherVars, main, why, appVars>>

\* Another file is renamed over it: of the old inode, Chmod and then Remove
\* are reported, and the latter is not in the mask of watchLoop.
ReplaceFile(c) ==
    /\ "replace" \in Saves
    /\ Edit
    /\ file' = c
    /\ Notify("chmod")
    /\ watched' = FALSE
    /\ UNCHANGED <<watcherVars, main, why, appVars>>

-----------------------------------------------------------------------------
(* ConfigWatcher.                                                          *)

\* After an event the debounce timer is started again; the signal channel of
\* a timer that has fired already is of no concern.
ReceiveEvent(e) ==
    /\ loop = "select"
    /\ e \in events
    /\ events' = events \ {e}
    /\ IF e = "rename" THEN loop' = "rewatch" /\ UNCHANGED timer
                       ELSE timer' = TRUE /\ UNCHANGED loop
    /\ UNCHANGED <<file, watched, edits, loader, loaded, current, reload, main, why, appVars>>

\* Mutant: the timer is left to the events that follow.
RewatchOnly ==
    /\ loop = "rewatch"
    /\ loop' = "select"
    /\ watched' = (file # None)
    /\ UNCHANGED <<file, events, edits, timer, loader, loaded, current, reload, main, why,
                   appVars>>

\* After a Sleep: Remove and Add, whose errors are dropped, so that a file
\* that is not back yet is not watched any more.
Rewatch ==
    /\ loop = "rewatch"
    /\ loop' = "select"
    /\ watched' = (file # None)
    /\ timer' = TRUE
    /\ UNCHANGED <<file, events, edits, loader, loaded, current, reload, main, why, appVars>>

\* stopChan is closed, and so is Events; only the first case stops the timer.
WatchLoopEnds ==
    /\ loop = "select"
    /\ main = "stopWatcher"
    /\ loop' = "stopped"
    /\ timer' \in {FALSE, timer}
    /\ UNCHANGED <<fileVars, loader, loaded, current, reload, main, why, appVars>>

TimerFires(l) ==
    /\ timer
    /\ loader[l] = "off"
    /\ timer' = FALSE
    /\ loader' = [loader EXCEPT ![l] = "load"]
    /\ UNCHANGED <<fileVars, loop, loaded, current, reload, main, why, appVars>>

\* A configuration that is not valid changes nothing.
LoadConfig(l) ==
    /\ loader[l] = "load"
    /\ \/ /\ file \in Valid
          /\ loaded' = [loaded EXCEPT ![l] = file]
          /\ loader' = [loader EXCEPT ![l] = "store"]
       \/ /\ file \notin Valid
          /\ loader' = [loader EXCEPT ![l] = "off"]
          /\ UNCHANGED loaded
    /\ UNCHANGED <<fileVars, loop, timer, current, reload, main, why, appVars>>

StoreConfig(l) ==
    /\ loader[l] = "store"
    /\ loader' = [loader EXCEPT ![l] = "signal"]
    /\ current' = loaded[l]
    /\ UNCHANGED <<fileVars, loop, timer, loaded, reload, main, why, appVars>>

\* Mutant: the channel has no buffer, so that the signal is dropped while main
\* is busy.
SignalUnbuffered(l) ==
    /\ loader[l] = "signal"
    /\ loader' = [loader EXCEPT ![l] = "off"]
    /\ reload' = (main = "select")
    /\ UNCHANGED <<fileVars, loop, timer, loaded, current, main, why, appVars>>

\* The send does not block: a signal that is there already will do.
SignalReload(l) ==
    /\ loader[l] = "signal"
    /\ loader' = [loader EXCEPT ![l] = "off"]
    /\ reload' = TRUE
    /\ UNCHANGED <<fileVars, loop, timer, loaded, current, main, why, appVars>>

-----------------------------------------------------------------------------
(* httpServer.Start of app i.                                              *)

\* newMuxListener
Listen(i) ==
    /\ server[i] = "spawned"
    /\ \/ port = 0 /\ port' = i /\ server' = [server EXCEPT ![i] = "listening"]
       \/ port # 0 /\ server' = [server EXCEPT ![i] = "failed"] /\ UNCHANGED port
    /\ UNCHANGED <<fileVars, watcherVars, main, why, cfg, app>>

\* s.listener = mux, then the accept loop
SetListener(i) ==
    /\ server[i] = "listening"
    /\ server' = [server EXCEPT ![i] = "accepting"]
    /\ UNCHANGED <<fileVars, watcherVars, main, why, cfg, app, port>>

-----------------------------------------------------------------------------
(* main.                                                                   *)

GoTo(here, there) == main = here /\ main' = there

\* Without auto_reload_config, or when fsnotify fails, there is no watcher.
StartWatcher ==
    /\ GoTo("boot", "init")
    /\ \/ /\ current \notin NoReload
          /\ file # None
          /\ loop' = "select"
          /\ watched' = TRUE
       \/ UNCHANGED <<loop, watched>>
    /\ UNCHANGED <<file, events, edits, timer, loader, loaded, current, reload, why, appVars>>

\* Mutant: what LoadConfig rejects is used all the same.
InitializeUnchecked ==
    /\ GoTo("init", "startHTTP")
    /\ app < MaxApps
    /\ app' = app + 1
    /\ cfg' = IF loop = "none" THEN file ELSE current
    /\ why' = "running"
    /\ UNCHANGED <<fileVars, watcherVars, server, port>>

InitializeApp ==
    /\ GoTo("init", "startHTTP")
    /\ app < MaxApps
    /\ app' = app + 1
    /\ IF loop = "none" THEN file \in Valid /\ cfg' = file ELSE cfg' = current
    /\ why' = "running"
    /\ UNCHANGED <<fileVars, watcherVars, server, port>>

InitializeFails ==
    /\ GoTo("init", "fatal")
    /\ loop = "none"
    /\ file \notin Valid
    /\ why' = "load"
    /\ UNCHANGED <<fileVars, watcherVars, appVars>>

StartHTTP ==
    /\ GoTo("startHTTP", "startTCP")
    /\ server' = [server EXCEPT ![app] = "spawned"]
    /\ UNCHANGED <<fileVars, watcherVars, why, cfg, app, port>>

\* tcpServer.Start listens on every TCP port, or closes those it has opened.
StartTCP ==
    /\ GoTo("startTCP", "select")
    /\ UNCHANGED <<fileVars, watcherVars, why, appVars>>

StartTCPFails ==
    /\ GoTo("startTCP", "stopHTTP")
    /\ why' = "tcp"
    /\ UNCHANGED <<fileVars, watcherVars, appVars>>

ReceiveSignal ==
    /\ GoTo("select", "stopHTTP")
    /\ why' = "signal"
    /\ UNCHANGED <<fileVars, watcherVars, appVars>>

ReceiveReload ==
    /\ GoTo("select", "stopHTTP")
    /\ reload
    /\ reload' = FALSE
    /\ why' = "reload"
    /\ UNCHANGED <<fileVars, loop, timer, loader, loaded, current, appVars>>

ServerError ==
    /\ GoTo("select", "fatal")
    /\ server[app] = "failed"
    /\ why' = "server"
    /\ UNCHANGED <<fileVars, watcherVars, appVars>>

\* Mutant: the server is shut down and its listener stays.
StopHTTPKeepsPort ==
    /\ GoTo("stopHTTP", "stopRest")
    /\ server' = IF server[app] = "accepting" THEN [server EXCEPT ![app] = "closed"] ELSE server
    /\ UNCHANGED <<fileVars, watcherVars, why, cfg, app, port>>

\* httpServer.Shutdown closes s.listener if it has been set.
StopHTTP ==
    /\ GoTo("stopHTTP", "stopRest")
    /\ IF server[app] = "accepting"
         THEN server' = [server EXCEPT ![app] = "closed"] /\ port' = 0
         ELSE UNCHANGED <<server, port>>
    /\ UNCHANGED <<fileVars, watcherVars, why, cfg, app>>

\* Mutant: Stop is called although there is no watcher.
StopRestUnguarded ==
    /\ GoTo("stopRest", CASE why = "reload" -> "init"
                          [] why = "signal" -> "stopWatcher"
                          [] OTHER -> "fatal")
    /\ UNCHANGED <<fileVars, watcherVars, why, appVars>>

\* tcpServer.Shutdown waits for its accept loops and closes every TCP port,
\* manager.Shutdown is TunnelMgr's.
StopRest ==
    /\ GoTo("stopRest", CASE why = "reload" -> "init"
                          [] why = "signal" -> (IF loop = "none" THEN "exited" ELSE "stopWatcher")
                          [] OTHER -> "fatal")
    /\ UNCHANGED <<fileVars, watcherVars, why, appVars>>

\* The deferred configWatcher.Stop waits for watchLoop.
StopWatcher ==
    /\ GoTo("stopWatcher", "exited")
    /\ loop = "stopped"
    /\ UNCHANGED <<fileVars, watcherVars, why, appVars>>

-----------------------------------------------------------------------------
FileStep ==
    \/ \E c \in Contents : WriteFile(c) \/ CreateFile(c) \/ ReplaceFile(c)
    \/ MoveAway

WatchLoopStep == Rewatch \/ WatchLoopEnds \/ \E e \in events : ReceiveEvent(e)

LoaderStep(l) == TimerFires(l) \/ LoadConfig(l) \/ StoreConfig(l) \/ SignalReload(l)

ServerStep(i) == Listen(i) \/ SetListener(i)

\* What main does unless it waits for a signal of the user.
MainStep ==
    \/ StartWatcher \/ InitializeApp \/ InitializeFails
    \/ StartHTTP \/ StartTCP \/ StartTCPFails
    \/ ReceiveReload \/ ServerError
    \/ StopHTTP \/ StopRest \/ StopWatcher

Next ==
    /\ ~Over
    /\ \/ FileStep
       \/ WatchLoopStep
       \/ \E l \in Loaders : LoaderStep(l)
       \/ \E i \in Apps : ServerStep(i)
       \/ MainStep \/ ReceiveSignal

Spec == Init /\ [][Next]_vars

\* fsnotify delivers, timers fire and goroutines are scheduled.  Nothing is
\* assumed of editors and of the user.
Fairness ==
    /\ WF_vars(~Over /\ WatchLoopStep)
    /\ WF_vars(~Over /\ MainStep)
    /\ \A l \in Loaders : WF_vars(~Over /\ LoaderStep(l))
    /\ \A i \in Apps : WF_vars(~Over /\ ServerStep(i))

FairSpec == Spec /\ Fairness

-----------------------------------------------------------------------------
(* Properties.                                                             *)

\* No reload is lost: while an app runs, either it runs the configuration that
\* reloadConfig stored last, or main is being told.  reloadConfig stores before
\* it signals, the signal waits in the channel while main is busy, and
\* initializeApp reads the configuration after main has taken the signal.
NoLostReload ==
    main \in {"startHTTP", "startTCP", "select"} /\ loop # "none"
    /\ ~reload /\ (\A l \in Loaders : loader[l] # "signal")
    => cfg = current

\* The next app fails to listen only if an earlier one was shut down before it
\* had set s.listener, so that nobody ever closes what it listens on: a
\* shutdown that found the listener has released the address.
FatalOnlyAfterRace ==
    why = "server" =>
        \E i \in Apps : i < app /\ port = i /\ server[i] \in {"listening", "accepting"}

\* Once the file is left alone, the app that runs is the one it describes,
\* if it describes one and its inode is watched: the debounce timer is set
\* again by every event and after every Add, a load that is under way has been
\* preceded by the last event or is followed by another load, and a reload
\* that main has not served waits for it.
Settles ==
    <>[](watched /\ file \in Valid /\ ~Over => main = "select" /\ cfg = file)

\* The same of every watcher: the watched inode stays the one of the path.  A
\* comment of watchLoop says of atomic saves ("write temp, rename") that "after
\* rename, old inode is gone so we need to re-watch the path".
FollowsFile ==
    <>[](loop # "none" /\ file \in Valid /\ ~Over => main = "select" /\ cfg = file)

\* A signal of the user ends the process: configWatcher.Stop does not wait for
\* ever, neither for a watchLoop that was never started nor for one that is
\* busy with an event.
ExitCompletes == why = "signal" ~> Over

\* A reload does not end the process: README.md says that the config "will
\* auto-reload", main.go that it waits "to let ports release".
ReloadSurvives == why # "server"
=============================================================================
