-------------------------------- MODULE Startup --------------------------------
(***************************************************************************)
(* The start of the firmware (app_main and start_nimble in main/app_main.cpp, *)
(* EspWifiBackend::set_country_cn in components/rid_radio/wifi_transport.cpp). *)
(*                                                                         *)
(* app_main is one action per call that may fail or that another task can  *)
(* see.  The NimBLE host task runs beside it from the moment it is created: *)
(* its callback nimble_sync gives the semaphore app_main waits for, each of *)
(* its reads and calls being a step, because app_main deletes that         *)
(* semaphore when it has waited for five seconds.  Every call into ESP-IDF *)
(* may fail.  What it does otherwise is external, and taken from its use.  *)
(***************************************************************************)
EXTENDS Integers

CONSTANT MaxSyncs          \* bound: how often the host synchronises with the controller

ASSUME MaxSyncsAssumption == MaxSyncs \in Nat

VARIABLES
    pc,                \* the call of app_main that comes next
    partition,         \* the NVS partition: "sound", "unusable" (full or newer), or "broken"
    stored,            \* its configuration: "valid", "rejected" by the runtime, or "none"
    semaphore,         \* the object of xSemaphoreCreateBinary
    handle,            \* g_nimble_sync is not null
    host,              \* the host task: "none", "running", in nimble_sync, or "gone"
    address,           \* g_nimble_address_type has been inferred
    syncs,             \* history: synchronisations so far
    timedOut,          \* history: app_main waited in vain
    deadGive,          \* history: nimble_sync has given a semaphore that is no more
    wifi,              \* the Wi-Fi stack: who made the netif and the event loop, and the driver
    found,             \* history: the Wi-Fi stack before app_main
    backend,           \* the flags of EspWifiBackend
    context,           \* the members of RuntimeContext that exist
    published,         \* g_context is not null
    running,           \* Runtime::running_
    tasks              \* the tasks created

bleVars == <<semaphore, handle, host, address, syncs, timedOut, deadGive>>
wifiVars == <<wifi, found, backend>>
nvsVars == <<partition, stored>>
appVars == <<context, published, running, tasks>>
vars == <<pc, nvsVars, bleVars, wifiVars, appVars>>

Flags == [initialized : BOOLEAN, ownsLoop : BOOLEAN, ownsNetif : BOOLEAN]
NoFlags == [initialized |-> FALSE, ownsLoop |-> FALSE, ownsNetif |-> FALSE]
Stacks == [netif : {"none", "other", "ours"}, loop : {"none", "other", "ours"},
           driver : {"off", "initialised", "started"}]
Members == {"wifi", "ble", "runtime", "mutex", "shell"}

Init ==
    /\ pc = "nvs"
    /\ partition \in {"sound", "unusable", "broken"}
    /\ stored \in {"valid", "rejected", "none"}
    /\ semaphore = "none" /\ handle = FALSE
    /\ host = "none" /\ address = FALSE
    /\ syncs = 0 /\ timedOut = FALSE /\ deadGive = FALSE
    /\ found \in [netif : {"none", "other"}, loop : {"none", "other"}, driver : {"off"}]
    /\ wifi = found /\ backend = NoFlags
    /\ context = {} /\ published = FALSE /\ running = FALSE /\ tasks = {}

-----------------------------------------------------------------------------
(* Helpers.  Mutant_X is X with a bug; the runs show that a property sees it. *)

Goto(from, to) == pc = from /\ pc' = to

(* EspWifiBackend::shutdown, and the driver, event loop and netif it leaves. *)
Released(w, b) ==
    [driver |-> IF b.initialized THEN "off" ELSE w.driver,
     loop |-> IF b.ownsLoop THEN "none" ELSE w.loop,
     netif |-> IF b.ownsNetif THEN "none" ELSE w.netif]
Shutdown(w) == wifi' = Released(w, backend) /\ backend' = NoFlags /\ UNCHANGED found

(* An early return destroys the context; unless it has been published it owns the backend. *)
Return(from) ==
    /\ Goto(from, "returned")
    /\ context' = {}
    /\ UNCHANGED <<nvsVars, bleVars, published, running, tasks>>

-----------------------------------------------------------------------------
(* app_main up to start_nimble. *)

(* nvs_flash_init; an unusable partition is erased, its configuration with it, and tried again. *)
NvsInit ==
    /\ \/ /\ partition = "sound" /\ Goto("nvs", "mac")
          /\ UNCHANGED nvsVars
       \/ /\ partition = "unusable"
          /\ Goto("nvs", "mac") \/ Goto("nvs", "returned")
          /\ partition' = "sound" /\ stored' = "none"
       \/ /\ Goto("nvs", "returned")
          /\ UNCHANGED nvsVars
    /\ UNCHANGED <<bleVars, wifiVars, appVars>>

ReadMac ==
    /\ Goto("mac", "semaphore") \/ Goto("mac", "returned")
    /\ UNCHANGED <<nvsVars, bleVars, wifiVars, appVars>>

Mutant_CreateSemaphore ==  \* born given, as by vSemaphoreCreateBinary
    /\ Goto("semaphore", "port") /\ semaphore' = "given" /\ handle' = TRUE
    /\ UNCHANGED <<nvsVars, host, address, syncs, timedOut, deadGive, wifiVars, appVars>>
CreateSemaphore ==
    /\ \/ Goto("semaphore", "port") /\ semaphore' = "empty" /\ handle' = TRUE
       \/ Goto("semaphore", "returned") /\ UNCHANGED <<semaphore, handle>>
    /\ UNCHANGED <<nvsVars, host, address, syncs, timedOut, deadGive, wifiVars, appVars>>

(* nimble_port_init, and the host task. *)
PortInit ==
    /\ \/ Goto("port", "take") /\ host' = "running" /\ UNCHANGED <<semaphore, handle>>
       \/ Goto("port", "returned") /\ semaphore' = "deleted" /\ handle' = FALSE /\ UNCHANGED host
    /\ UNCHANGED <<nvsVars, address, syncs, timedOut, deadGive, wifiVars, appVars>>

(* xSemaphoreTake returns when the semaphore is given, or after five seconds. *)
Mutant_Take ==  \* waits for ever
    /\ Goto("take", "delete")
    /\ semaphore = "given" /\ semaphore' = "empty" /\ UNCHANGED timedOut
    /\ UNCHANGED <<nvsVars, handle, host, address, syncs, deadGive, wifiVars, appVars>>
Take ==
    /\ Goto("take", "delete")
    /\ \/ semaphore = "given" /\ semaphore' = "empty" /\ UNCHANGED timedOut
       \/ semaphore = "empty" /\ timedOut' = TRUE /\ UNCHANGED semaphore
    /\ UNCHANGED <<nvsVars, handle, host, address, syncs, deadGive, wifiVars, appVars>>

DeleteSemaphore ==
    /\ Goto("delete", "clear")
    /\ semaphore' = "deleted"
    /\ UNCHANGED <<nvsVars, handle, host, address, syncs, timedOut, deadGive, wifiVars, appVars>>

ClearHandle ==
    /\ Goto("clear", IF timedOut THEN "stop" ELSE "context")
    /\ handle' = FALSE
    /\ UNCHANGED <<nvsVars, semaphore, host, address, syncs, timedOut, deadGive, wifiVars, appVars>>

(* nimble_port_stop waits until the host task has ended, unless it reports an error, which *)
(* nobody looks at; nimble_port_deinit.                                                     *)
StopPort ==
    /\ Goto("stop", "returned")
    /\ (host = "running" /\ host' = "gone") \/ UNCHANGED host
    /\ UNCHANGED <<nvsVars, semaphore, handle, address, syncs, timedOut, deadGive, wifiVars, appVars>>

-----------------------------------------------------------------------------
(* The host task: nimble_sync, called whenever host and controller are in step. *)

(* ble_hs_id_infer_auto. *)
Mutant_SyncInfer ==  \* the result is not looked at
    /\ host = "running" /\ syncs < MaxSyncs
    /\ syncs' = syncs + 1
    /\ address' = TRUE \/ UNCHANGED address
    /\ host' = "inferred"
    /\ UNCHANGED <<pc, nvsVars, semaphore, handle, timedOut, deadGive, wifiVars, appVars>>
SyncInfer ==
    /\ host = "running" /\ syncs < MaxSyncs
    /\ syncs' = syncs + 1
    /\ (address' = TRUE /\ host' = "inferred") \/ UNCHANGED <<address, host>>
    /\ UNCHANGED <<pc, nvsVars, semaphore, handle, timedOut, deadGive, wifiVars, appVars>>

(* g_nimble_sync != nullptr *)
SyncTest ==
    /\ host = "inferred"
    /\ host' = IF handle THEN "tested" ELSE "running"
    /\ UNCHANGED <<pc, nvsVars, semaphore, handle, address, syncs, timedOut, deadGive, wifiVars, appVars>>

(* xSemaphoreGive, with the handle as it was tested or as it is now: dead either way once *)
(* app_main has deleted the semaphore.                                                      *)
SyncGive ==
    /\ host = "tested"
    /\ host' = "running"
    /\ \/ semaphore # "deleted" /\ semaphore' = "given" /\ UNCHANGED deadGive
       \/ semaphore = "deleted" /\ deadGive' = TRUE /\ UNCHANGED semaphore
    /\ UNCHANGED <<pc, nvsVars, handle, address, syncs, timedOut, wifiVars, appVars>>

-----------------------------------------------------------------------------
(* app_main from the context on; set_country_cn first. *)

MakeContext ==
    /\ Goto("context", "netif")
    /\ context' = {"wifi", "ble"}
    /\ UNCHANGED <<nvsVars, bleVars, wifiVars, published, running, tasks>>

(* What another component has made already is used, and not owned. *)
NetifInit ==
    \/ /\ Goto("netif", "loop")
       /\ IF wifi.netif = "none"
          THEN wifi' = [wifi EXCEPT !.netif = "ours"] /\ backend' = [backend EXCEPT !.ownsNetif = TRUE]
          ELSE UNCHANGED <<wifi, backend>>
       /\ UNCHANGED <<nvsVars, bleVars, found, appVars>>
    \/ Return("netif") /\ Shutdown(wifi)

CreateLoop ==
    \/ /\ Goto("loop", "driver")
       /\ IF wifi.loop = "none"
          THEN wifi' = [wifi EXCEPT !.loop = "ours"] /\ backend' = [backend EXCEPT !.ownsLoop = TRUE]
          ELSE UNCHANGED <<wifi, backend>>
       /\ UNCHANGED <<nvsVars, bleVars, found, appVars>>
    \/ Return("loop") /\ Shutdown(wifi)

DriverInit ==
    \/ /\ Goto("driver", "configure")
       /\ wifi' = [wifi EXCEPT !.driver = "initialised"]
       /\ UNCHANGED <<nvsVars, bleVars, found, backend, appVars>>
    \/ Return("driver") /\ Shutdown(wifi)

(* Storage, mode and start; initialized_ is set last, so a failure takes the driver down itself. *)
Mutant_Configure ==  \* it leaves that to shutdown
    \/ /\ Goto("configure", "country")
       /\ wifi' = [wifi EXCEPT !.driver = "started"]
       /\ backend' = [backend EXCEPT !.initialized = TRUE]
       /\ UNCHANGED <<nvsVars, bleVars, found, appVars>>
    \/ Return("configure") /\ Shutdown(wifi)
Configure ==
    \/ /\ Goto("configure", "country")
       /\ wifi' = [wifi EXCEPT !.driver = "started"]
       /\ backend' = [backend EXCEPT !.initialized = TRUE]
       /\ UNCHANGED <<nvsVars, bleVars, found, appVars>>
    \/ Return("configure") /\ Shutdown([wifi EXCEPT !.driver = "off"])

(* Country, band mode and power. *)
SetCountry ==
    \/ /\ Goto("country", "mutex")
       /\ UNCHANGED <<nvsVars, bleVars, wifiVars, appVars>>
    \/ Return("country") /\ Shutdown(wifi)

CreateMutex ==
    \/ /\ Goto("mutex", "load")
       /\ context' = context \union {"runtime", "mutex"}
       /\ UNCHANGED <<nvsVars, bleVars, wifiVars, published, running, tasks>>
    \/ Return("mutex") /\ Shutdown(wifi)

(* NvsConfigStore::load, which may fail, and Runtime::apply; then the shell. *)
LoadAndApply ==
    /\ Goto("load", "publish")
    /\ running' \in {FALSE, stored = "valid"}
    /\ context' = context \union {"shell"}
    /\ UNCHANGED <<nvsVars, bleVars, wifiVars, published, tasks>>

Publish ==
    /\ Goto("publish", "runtimeTask")
    /\ published' = TRUE
    /\ UNCHANGED <<nvsVars, bleVars, wifiVars, context, running, tasks>>

CreateRuntimeTask ==
    /\ \/ Goto("runtimeTask", "shellTask") /\ tasks' = {"rid_runtime"}
       \/ Goto("runtimeTask", "returned") /\ UNCHANGED tasks
    /\ UNCHANGED <<nvsVars, bleVars, wifiVars, context, published, running>>

CreateShellTask ==
    /\ Goto("shellTask", "returned")
    /\ tasks' = tasks \union {"rid_shell"} \/ UNCHANGED tasks
    /\ UNCHANGED <<nvsVars, bleVars, wifiVars, context, published, running>>

-----------------------------------------------------------------------------
StartNimble ==
    CreateSemaphore \/ PortInit \/ Take \/ DeleteSemaphore \/ ClearHandle \/ StopPort

StartWifi == NetifInit \/ CreateLoop \/ DriverInit \/ Configure \/ SetCountry

AppMain ==
    \/ NvsInit \/ ReadMac \/ StartNimble
    \/ MakeContext \/ StartWifi \/ CreateMutex \/ LoadAndApply
    \/ Publish \/ CreateRuntimeTask \/ CreateShellTask

NimbleSync == SyncTest \/ SyncGive

Next == AppMain \/ SyncInfer \/ NimbleSync

(* Both tasks run, but the controller need never answer: no synchronisation has to begin. *)
Spec == Init /\ [][Next]_vars /\ WF_vars(AppMain) /\ WF_vars(NimbleSync)

-----------------------------------------------------------------------------
(* Every variable keeps its type. *)
TypeOK ==
    /\ partition \in {"sound", "unusable", "broken"} /\ stored \in {"valid", "rejected", "none"}
    /\ semaphore \in {"none", "empty", "given", "deleted"}
    /\ host \in {"none", "running", "inferred", "tested", "gone"}
    /\ {handle, address, timedOut, deadGive, published, running} \subseteq BOOLEAN
    /\ syncs \in 0 .. MaxSyncs
    /\ {wifi, found} \subseteq Stacks /\ backend \in Flags
    /\ context \subseteq Members /\ tasks \subseteq {"rid_runtime", "rid_shell"}

(* nimble_sync gives a semaphore that app_main has deleted only if app_main had waited in vain *)
(* or the host synchronised a second time meanwhile: a start that is answered once is safe,     *)
(* however the two tasks interleave.                                                            *)
DeadGiveNeedsTimeout == deadGive => timedOut \/ syncs > 1

(* What app_main holds when it returns is nothing, or all that the tasks need.  A call that   *)
(* fails before g_context is published (app_main.cpp:221) takes the driver down again, and the *)
(* netif and the event loop if they are ours (shutdown, the destructors).  From there on nothing *)
(* is released, also when xTaskCreate fails and no task has been created: the context is then    *)
(* complete, the driver runs, and the flags still tell what is ours.  The semaphore is gone      *)
(* either way.  The NimBLE host is not counted: only a timeout stops it.                         *)
AllOrNothing ==
    pc = "returned" =>
        /\ semaphore \in {"none", "deleted"} /\ ~handle
        /\ ~published => context = {} /\ wifi = found /\ backend = NoFlags
        /\ published =>
            context = Members /\ wifi.driver = "started" /\ Released(wifi, backend) = found

(* A task runs only when all it uses is there, and the BLE backend is not made before the host *)
(* task has stored the address type it copies: the give, the take and the publication of       *)
(* g_context are in the order that the accesses without a lock need.                            *)
ContextComplete ==
    /\ tasks # {} => published /\ context = Members
    /\ "ble" \in context => address

(* The start ends, with tasks or with an error, even if the controller never answers. *)
StartupEnds == <>(pc = "returned")
=============================================================================
