----------------------------- MODULE IndexReload -----------------------------
(***************************************************************************)
(* How a new index reaches the users.  livegrep-fetch-reindex builds an    *)
(* index, renames it over the old file and calls the Reload RPC; the       *)
(* codesearch server's main loop loads the file, serves it and, on a       *)
(* Reload RPC or a file system event, shuts down and loads again; every    *)
(* frontend polls QuickInfo and refreshes its copy of the index's name,    *)
(* time and trees with Info.                                               *)
(*                                                                         *)
(* An index has a generation (which file it is) and a time (index_time,    *)
(* the clock of the machine that built it).                                *)
(***************************************************************************)
EXTENDS Naturals

CONSTANTS
    Modes,      \* "rpc": --reload_rpc, "hot": --hot_index_reload
    Time,       \* values of index_time; 0 is before all of them
    MaxGen      \* bound: how often the index file is replaced

IndexReloadAssumption ==
    /\ Modes \subseteq {"rpc", "hot"}
    /\ Time \subseteq Nat \ {0} /\ Time # {}
    /\ MaxGen \in Nat \ {0}

VARIABLES
    mode,       \* how the server and the indexer are configured
    file,       \* the index file: [gen, time]
    ipc,        \* the indexer: "idle", or "reload" when it has renamed the file
    asked,      \* generation of the file at the last Reload RPC that returned OK
    spc,        \* the server: "loading", "loaded", "serving" or "stopping"
    loaded,     \* the index it has loaded: [gen, time]
    promise,    \* reload_request has been fulfilled
    watch,      \* the fswatcher exists
    event,      \* an inotify event is waiting
    missed,     \* history: since the load the file was replaced with no watch to see it
    fpc, quick, \* the frontend's poll(), and the answer to QuickInfo
    isUp,       \* bk.Up.IsUp
    info        \* bk.I: [gen, time] of the index it describes

server_vars   == <<spc, loaded, promise, watch>>
frontend_vars == <<fpc, quick, isUp, info>>
vars == <<mode, file, ipc, asked, server_vars, event, missed, frontend_vars>>

Index(g, t) == [gen |-> g, time |-> t]
NoIndex == Index(0, 0)

Init ==
    /\ mode \in Modes
    /\ \E t \in Time : file = Index(1, t)
    /\ ipc = "idle" /\ asked = 0
    /\ spc = "loading" /\ loaded = NoIndex
    /\ promise = FALSE /\ watch = FALSE /\ event = FALSE /\ missed = FALSE
    /\ fpc = "sleep" /\ quick = 0 /\ isUp = FALSE /\ info = NoIndex

-----------------------------------------------------------------------------
(***************************************************************************)
(* livegrep-fetch-reindex: os.Rename(tmp, index), a single step for anyone *)
(* who opens the path, then reloadBackend().  With --hot_index_reload no   *)
(* RPC follows.  The new index may be an older one that is put back.      *)
(***************************************************************************)
Replace(t) ==
    /\ ipc = "idle" /\ file.gen < MaxGen
    /\ t # file.time
    /\ file' = Index(file.gen + 1, t)
    /\ event' = (event \/ watch)
    /\ missed' = (missed \/ (mode = "hot" /\ ~watch /\ spc \in {"loaded", "serving"}))
    /\ ipc' = IF mode = "rpc" THEN "reload" ELSE "idle"
    /\ UNCHANGED <<mode, asked, server_vars, frontend_vars>>

(***************************************************************************)
(* The Reload RPC waits for the server to be ready (FailFast(false)); its  *)
(* handler fulfils the promise.  A second fulfilment throws and the RPC    *)
(* fails.                                                                  *)
(***************************************************************************)
Reload ==
    /\ ipc = "reload" /\ spc = "serving"
    /\ promise' = TRUE
    /\ asked' = IF promise THEN asked ELSE file.gen
    /\ ipc' = "idle"
    /\ UNCHANGED <<mode, file, spc, loaded, watch, event, missed, frontend_vars>>

-----------------------------------------------------------------------------
(* main(): while (true) { initialize_search(); listen_grpc(); }            *)
Load ==
    /\ spc = "loading"
    /\ loaded' = file /\ missed' = FALSE
    /\ spc' = "loaded"
    /\ UNCHANGED <<mode, file, ipc, asked, promise, watch, event, frontend_vars>>

(* listen_grpc(): a new promise, BuildAndStart().                          *)
Serve ==
    /\ spc = "loaded"
    /\ promise' = FALSE
    /\ spc' = "serving"
    /\ UNCHANGED <<mode, file, ipc, asked, loaded, watch, event, missed, frontend_vars>>

(* The shutdown thread of hot_index_reload constructs its fswatcher.       *)
AddWatch ==
    /\ mode = "hot" /\ spc = "serving" /\ ~watch
    /\ watch' = TRUE /\ event' = FALSE
    /\ UNCHANGED <<mode, file, ipc, asked, spc, loaded, promise, missed, frontend_vars>>

(* The shutdown thread wakes up and calls server->Shutdown().              *)
Shutdown ==
    /\ spc = "serving"
    /\ IF mode = "rpc" THEN promise ELSE watch /\ event
    /\ spc' = "stopping"
    /\ watch' = FALSE /\ event' = FALSE
    /\ UNCHANGED <<mode, file, ipc, asked, loaded, promise, missed, frontend_vars>>

(* server->Wait() returns, the searcher is destroyed, the loop starts over.*)
Stopped ==
    /\ spc = "stopping"
    /\ spc' = "loading"
    /\ UNCHANGED <<mode, file, ipc, asked, loaded, promise, watch, event, missed, frontend_vars>>

-----------------------------------------------------------------------------
(* poll(): QuickInfo without waiting for the server to be ready.           *)
QuickInfo ==
    /\ fpc = "sleep" /\ spc = "serving"
    /\ quick' = loaded.time
    /\ fpc' = "got"
    /\ UNCHANGED <<mode, file, ipc, asked, server_vars, event, missed, isUp, info>>

QuickInfoFails ==
    /\ fpc = "sleep" /\ spc # "serving" /\ isUp
    /\ isUp' = FALSE
    /\ UNCHANGED <<mode, file, ipc, asked, server_vars, event, missed, fpc, quick, info>>

(* if (!IsUp || IndexTime.Before(newTime)) getInfo()                       *)
Decide_OnlyWhenDown ==
    /\ fpc = "got"
    /\ IF ~isUp
       THEN fpc' = "info" /\ UNCHANGED isUp
       ELSE fpc' = "sleep" /\ isUp' = TRUE
    /\ UNCHANGED <<mode, file, ipc, asked, server_vars, event, missed, quick, info>>
Decide ==
    /\ fpc = "got"
    /\ IF ~isUp \/ info.time < quick
       THEN fpc' = "info" /\ UNCHANGED isUp
       ELSE fpc' = "sleep" /\ isUp' = TRUE
    /\ UNCHANGED <<mode, file, ipc, asked, server_vars, event, missed, quick, info>>

(* getInfo() and refresh(); a failure is logged and the backend still up.  *)
GetInfo ==
    /\ fpc = "info"
    /\ info' = IF spc = "serving" THEN loaded ELSE info
    /\ isUp' = TRUE
    /\ fpc' = "sleep"
    /\ UNCHANGED <<mode, file, ipc, asked, server_vars, event, missed, quick>>

-----------------------------------------------------------------------------
ServerStep   == Load \/ Serve \/ AddWatch \/ Shutdown \/ Stopped
FrontendStep == QuickInfo \/ QuickInfoFails \/ Decide \/ GetInfo

Next ==
    \/ \E t \in Time : Replace(t)
    \/ Reload
    \/ ServerStep
    \/ FrontendStep

(***************************************************************************)
(* The server's threads and the frontend's poll loop keep running, and the *)
(* indexer's RPC is retried until the server answers.  Strong fairness of  *)
(* Reload: the server may be away each time the client tries.              *)
(***************************************************************************)
Spec == Init /\ [][Next]_vars /\ WF_vars(ServerStep) /\ WF_vars(FrontendStep)
             /\ SF_vars(Reload)

-----------------------------------------------------------------------------
(***************************************************************************)
(* A Reload RPC that returned OK is honoured: whenever the server serves   *)
(* with no reload request outstanding, the index it serves is at least the *)
(* generation that was on disk when the RPC was answered.                  *)
(***************************************************************************)
ReloadHonoured == spc = "serving" /\ ~promise => loaded.gen >= asked

(***************************************************************************)
(* A change of the file that the watcher sees is honoured: the server      *)
(* shuts down, loads the changed file or a later one, and serves it.       *)
(***************************************************************************)
Announced(g) == event /\ file.gen = g
Serves(g) == spc = "serving" /\ loaded.gen >= g
EventHonoured == \A g \in 1..MaxGen : Announced(g) ~> Serves(g)

(***************************************************************************)
(* With the Reload RPC the server ends up serving the file that is there,  *)
(* although the RPC waits while the server is away and a file that is      *)
(* replaced while it loads is not the one it loads.  With the watch it     *)
(* does so if and only if the last change did not fall between the load    *)
(* and the watch that the shutdown thread sets up afterwards: that one is  *)
(* lost, and the old index served until the file changes once more.        *)
(***************************************************************************)
ServesFile ==
    /\ spc = "serving"
    /\ IF mode = "rpc" THEN loaded = file ELSE loaded = file <=> ~missed
RpcServesFile == <>[]ServesFile

(***************************************************************************)
(* The frontend ends up with the description of the index the server       *)
(* serves, although QuickInfo and Info are two calls with a restart of the *)
(* server possible between them.  backend.go:160 says detailed info is     *)
(* requested when "the indexTime we have is different than what quickInfo  *)
(* returns"; the code compares with Before, so the description may stay    *)
(* that of an earlier index, but only if that one is not older.            *)
(***************************************************************************)
Described == info = loaded \/ (info.gen < loaded.gen /\ info.time >= loaded.time)
FrontendFollows == <>[]Described
=============================================================================
