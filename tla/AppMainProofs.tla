---------------------------- MODULE AppMainProofs -----------------------------
(***************************************************************************)
(* Proofs about the tasks of main/app_main.cpp: Startup, for any number of *)
(* synchronisations, and the line that shell_task reads, ShellLine, for    *)
(* every length of a line and any number of lines.                         *)
(***************************************************************************)
EXTENDS Startup, ShellLine, Fleet, SequenceTheorems, FunctionTheorems, FiniteSetTheorems, WellFoundedInduction, TLAPS

USE ConstantsAssumption

-----------------------------------------------------------------------------
(* The start, and the host task beside it. *)

Unborn == {"nvs", "mac", "semaphore"}
Waiting == Unborn \cup {"port", "take"}
Starting == {"netif", "loop", "driver", "configure", "country", "mutex"}
Calls == Waiting \cup {"delete", "clear", "stop", "context"} \cup Starting
            \cup {"load", "publish", "runtimeTask", "shellTask", "returned"}

(* The synchronisation that nimble_sync is handling, if any. *)
InFlight == IF host \in {"inferred", "tested"} THEN 1 ELSE 0
Answered == syncs > InFlight /\ address

(* A given semaphore, and a wait that was not in vain, stand for a synchronisation that has    *)
(* been handled whole; whatever nimble_sync handles after the deletion is then another one.     *)
SyncInv ==
    /\ pc \in Unborn => semaphore = "none"
    /\ pc = "port" => semaphore = "empty"
    /\ pc = "take" => semaphore \in {"empty", "given"}
    /\ semaphore = "deleted" => pc \notin Waiting \cup {"delete"}
    /\ pc \notin Waiting \cup {"delete", "returned"} => semaphore = "deleted"
    /\ pc = "returned" => semaphore \in {"none", "deleted"}
    /\ semaphore = "none" => host = "none"
    /\ handle => pc \in {"port", "take", "delete", "clear"}
    /\ pc \in Unborn \cup {"port"} => host = "none"
    /\ pc \notin Unborn \cup {"port", "returned"} => host # "none"
    /\ pc \in Waiting \cup {"context", "load", "publish", "runtimeTask", "shellTask"} \cup Starting
          => ~timedOut
    /\ host = "none" => syncs = 0
    /\ syncs >= InFlight
    /\ InFlight = 1 => address
    /\ semaphore = "given" => Answered
    /\ pc \notin Waiting /\ host # "none" /\ ~timedOut => Answered

(* Of the Wi-Fi stack, exactly what the flags of the backend say is its own; only between two *)
(* calls of start_wifi there is a driver that no flag tells of.                                *)
Owner(owned, before) == IF owned THEN "ours" ELSE before
WifiInv ==
    /\ found.netif # "ours" /\ found.loop # "ours" /\ found.driver = "off"
    /\ wifi.netif = Owner(backend.ownsNetif, found.netif)
    /\ backend.ownsNetif => found.netif = "none"
    /\ wifi.loop = Owner(backend.ownsLoop, found.loop)
    /\ backend.ownsLoop => found.loop = "none"
    /\ backend.initialized <=> wifi.driver = "started"
    /\ wifi.driver = "initialised" <=> pc = "configure"
    /\ wifi.driver = "started" <=> published \/ pc \in {"country", "mutex", "load", "publish"}
    /\ published => pc \in {"runtimeTask", "shellTask", "returned"}
    /\ ~published /\ pc \notin Starting \cup {"load", "publish"} => backend = NoFlags

(* What there is of the context at each call. *)
ContextInv ==
    /\ pc \in Waiting \cup {"delete", "clear", "stop", "context"} => context = {}
    /\ pc \in Starting => context = {"wifi", "ble"}
    /\ pc = "load" => context = {"wifi", "ble", "runtime", "mutex"}
    /\ pc = "publish" \/ published => context = Members
    /\ pc = "returned" => context = {} \/ published
    /\ published => pc \in {"runtimeTask", "shellTask", "returned"}
    /\ pc \in {"runtimeTask", "shellTask"} => published
    /\ tasks # {} => published

StartInv == TypeOK /\ pc \in Calls /\ SyncInv /\ DeadGiveNeedsTimeout /\ WifiInv /\ ContextInv

(* Nothing has happened before the first call. *)
LEMMA StartInit == Init => StartInv
<1>1. ASSUME Init PROVE TypeOK
  <2>1. {handle, address, timedOut, deadGive, published, running} \subseteq BOOLEAN
    BY <1>1, Zenon DEF Init
  <2>2. {wifi, found} \subseteq Stacks /\ backend \in Flags
    <3>1. found \in [netif : {"none", "other"}, loop : {"none", "other"}, driver : {"off"}] /\ wifi = found
      BY <1>1 DEF Init
    <3>2. found \in Stacks
      BY <3>1 DEF Stacks
    <3>. QED
      BY <1>1, <3>1, <3>2 DEF Init, Flags, NoFlags
  <2>3. syncs \in 0 .. MaxSyncs
    BY <1>1, MaxSyncsAssumption DEF Init
  <2>. QED
    BY <1>1, <2>1, <2>2, <2>3 DEF Init, TypeOK
<1>2. ASSUME Init PROVE SyncInv /\ DeadGiveNeedsTimeout /\ pc \in Calls
  BY <1>2 DEF Init, SyncInv, DeadGiveNeedsTimeout, Calls, Waiting, Unborn, Starting, InFlight, Answered
<1>3. ASSUME Init PROVE WifiInv
  BY <1>3 DEF Init, WifiInv, NoFlags, Owner, Starting
<1>4. ASSUME Init PROVE ContextInv
  BY <1>4 DEF Init, ContextInv, Waiting, Unborn, Starting
<1>. QED
  BY <1>1, <1>2, <1>3, <1>4 DEF StartInv

(* The steps of app_main that do not concern the host task. *)
Elsewhere == NvsInit \/ ReadMac \/ MakeContext \/ StartWifi \/ CreateMutex \/ LoadAndApply
                \/ Publish \/ CreateRuntimeTask \/ CreateShellTask

(* Where those steps lead. *)
LEMMA Onward ==
    ASSUME Elsewhere
    PROVE  /\ UNCHANGED bleVars
           /\ \/ pc \in {"nvs", "mac"} /\ pc' \in {"mac", "semaphore", "returned"}
              \/ /\ pc \in {"context", "load", "publish", "runtimeTask", "shellTask"} \cup Starting
                 /\ pc' \in {"load", "publish", "runtimeTask", "shellTask", "returned"} \cup Starting
<1>1. CASE NvsInit \/ ReadMac
  BY <1>1 DEF NvsInit, ReadMac, Goto
<1>2. CASE MakeContext \/ CreateMutex \/ LoadAndApply \/ Publish \/ CreateRuntimeTask \/ CreateShellTask
  BY <1>2 DEF MakeContext, CreateMutex, LoadAndApply, Publish, CreateRuntimeTask, CreateShellTask,
              Goto, Return, Starting
<1>3. CASE StartWifi
  BY <1>3 DEF StartWifi, NetifInit, CreateLoop, DriverInit, Configure, SetCountry, Goto, Return, Starting
<1>. QED
  BY <1>1, <1>2, <1>3 DEF Elsewhere

(* No interleaving of app_main and nimble_sync breaks the account of the semaphore. *)
LEMMA SyncStep ==
    ASSUME StartInv, [Next]_vars
    PROVE  (pc \in Calls)' /\ SyncInv' /\ DeadGiveNeedsTimeout'
<1> USE DEF SyncInv, DeadGiveNeedsTimeout, Calls, Waiting, Unborn, Starting, InFlight, Answered
<1>0. /\ SyncInv /\ DeadGiveNeedsTimeout /\ pc \in Calls /\ syncs \in Nat
      /\ host \in {"none", "running", "inferred", "tested", "gone"}
      /\ semaphore \in {"none", "empty", "given", "deleted"}
      /\ handle \in BOOLEAN /\ address \in BOOLEAN /\ timedOut \in BOOLEAN /\ deadGive \in BOOLEAN
  BY MaxSyncsAssumption DEF StartInv, TypeOK
<1>1. CASE Elsewhere
  BY <1>0, <1>1, Onward DEF bleVars
<1>2. CASE CreateSemaphore
  BY <1>0, <1>2 DEF CreateSemaphore, Goto
<1>3. CASE PortInit
  BY <1>0, <1>3 DEF PortInit, Goto
<1>4. CASE Take
  BY <1>0, <1>4 DEF Take, Goto
<1>5. CASE DeleteSemaphore
  BY <1>0, <1>5 DEF DeleteSemaphore, Goto
<1>6. CASE ClearHandle
  BY <1>0, <1>6 DEF ClearHandle, Goto
<1>7. CASE StopPort
  BY <1>0, <1>7 DEF StopPort, Goto
<1>8. CASE SyncInfer
  BY <1>0, <1>8 DEF SyncInfer
<1>9. CASE SyncTest
  BY <1>0, <1>9 DEF SyncTest
<1>10. CASE SyncGive
  BY <1>0, <1>10 DEF SyncGive
<1>11. CASE UNCHANGED vars
  BY <1>0, <1>11 DEF vars, bleVars
<1>. QED
  BY <1>1, <1>2, <1>3, <1>4, <1>5, <1>6, <1>7, <1>8, <1>9, <1>10, <1>11
  DEF Next, AppMain, StartNimble, NimbleSync, Elsewhere

(* Every call keeps the types. *)
LEMMA StartTypes ==
    ASSUME StartInv, [Next]_vars
    PROVE  TypeOK'
<1>0. TypeOK /\ MaxSyncs \in Nat
  BY MaxSyncsAssumption DEF StartInv
<1>1. partition' \in {"sound", "unusable", "broken"} /\ stored' \in {"valid", "rejected", "none"}
  <2>1. CASE NvsInit
    BY <1>0, <2>1 DEF NvsInit, nvsVars, TypeOK
  <2>2. CASE UNCHANGED nvsVars
    BY <1>0, <2>2 DEF nvsVars, TypeOK
  <2>3. NvsInit \/ UNCHANGED nvsVars
    BY DEF Next, AppMain, StartNimble, StartWifi, NimbleSync, vars, ReadMac, CreateSemaphore, PortInit,
           Take, DeleteSemaphore, ClearHandle, StopPort, MakeContext, NetifInit, CreateLoop, DriverInit,
           Configure, SetCountry, CreateMutex, LoadAndApply, Publish, CreateRuntimeTask,
           CreateShellTask, SyncInfer, SyncTest, SyncGive, Return
  <2>. QED
    BY <2>1, <2>2, <2>3
<1>2. /\ semaphore' \in {"none", "empty", "given", "deleted"}
      /\ host' \in {"none", "running", "inferred", "tested", "gone"}
      /\ handle' \in BOOLEAN /\ address' \in BOOLEAN /\ timedOut' \in BOOLEAN /\ deadGive' \in BOOLEAN
      /\ syncs' \in 0 .. MaxSyncs
  <2>0. /\ semaphore \in {"none", "empty", "given", "deleted"}
        /\ host \in {"none", "running", "inferred", "tested", "gone"}
        /\ handle \in BOOLEAN /\ address \in BOOLEAN /\ timedOut \in BOOLEAN /\ deadGive \in BOOLEAN
        /\ syncs \in 0 .. MaxSyncs
    BY <1>0 DEF TypeOK
  <2>1. CASE UNCHANGED bleVars
    BY <2>0, <2>1 DEF bleVars
  <2>2. CASE CreateSemaphore \/ PortInit
    BY <2>0, <2>2 DEF CreateSemaphore, PortInit
  <2>3. CASE Take \/ DeleteSemaphore
    BY <2>0, <2>3 DEF Take, DeleteSemaphore
  <2>4. CASE ClearHandle \/ StopPort
    BY <2>0, <2>4 DEF ClearHandle, StopPort
  <2>5. CASE SyncInfer
    <3>1. syncs' = syncs + 1 /\ syncs < MaxSyncs
      BY <2>5 DEF SyncInfer
    <3>2. syncs' \in 0 .. MaxSyncs
      BY <1>0, <2>0, <3>1
    <3>. QED
      BY <2>0, <2>5, <3>2 DEF SyncInfer
  <2>6. CASE SyncTest \/ SyncGive
    BY <2>0, <2>6 DEF SyncTest, SyncGive
  <2>7. Elsewhere => UNCHANGED bleVars
    BY Onward
  <2>. QED
    BY <2>1, <2>2, <2>3, <2>4, <2>5, <2>6, <2>7
    DEF Next, AppMain, StartNimble, NimbleSync, vars, Elsewhere
<1>3. {wifi', found'} \subseteq Stacks /\ backend' \in Flags
  <2>0. wifi \in Stacks /\ found \in Stacks /\ backend \in Flags /\ NoFlags \in Flags
    BY <1>0 DEF TypeOK, Flags, NoFlags
  <2>1. \A w \in Stacks, b \in Flags : Released(w, b) \in Stacks
    BY DEF Released, Stacks
  <2>2. \A d \in {"off", "initialised", "started"} : [wifi EXCEPT !.driver = d] \in Stacks
    BY <2>0 DEF Stacks
  <2>3. [wifi EXCEPT !.netif = "ours"] \in Stacks /\ [wifi EXCEPT !.loop = "ours"] \in Stacks
    BY <2>0 DEF Stacks
  <2>4. /\ [backend EXCEPT !.ownsNetif = TRUE] \in Flags /\ [backend EXCEPT !.ownsLoop = TRUE] \in Flags
        /\ [backend EXCEPT !.initialized = TRUE] \in Flags
    BY <2>0 DEF Flags
  <2>5. ASSUME NEW w \in Stacks, Shutdown(w) PROVE wifi' \in Stacks /\ found' \in Stacks /\ backend' \in Flags
    BY <2>0, <2>1, <2>5 DEF Shutdown
  <2>6. CASE NetifInit
    BY <2>0, <2>3, <2>4, <2>5, <2>6 DEF NetifInit
  <2>7. CASE CreateLoop
    BY <2>0, <2>3, <2>4, <2>5, <2>7 DEF CreateLoop
  <2>8. CASE DriverInit
    BY <2>0, <2>2, <2>5, <2>8 DEF DriverInit
  <2>9. CASE Configure
    BY <2>0, <2>2, <2>4, <2>5, <2>9 DEF Configure
  <2>10. CASE SetCountry \/ CreateMutex
    BY <2>0, <2>5, <2>10 DEF SetCountry, CreateMutex, wifiVars
  <2>11. CASE UNCHANGED wifiVars
    BY <2>0, <2>11 DEF wifiVars
  <2>12. NetifInit \/ CreateLoop \/ DriverInit \/ Configure \/ SetCountry \/ CreateMutex \/ UNCHANGED wifiVars
    BY DEF Next, AppMain, StartNimble, StartWifi, NimbleSync, vars, NvsInit, ReadMac, CreateSemaphore,
           PortInit, Take, DeleteSemaphore, ClearHandle, StopPort, MakeContext, LoadAndApply, Publish,
           CreateRuntimeTask, CreateShellTask, SyncInfer, SyncTest, SyncGive
  <2>. QED
    BY <2>6, <2>7, <2>8, <2>9, <2>10, <2>11, <2>12
<1>4. /\ context' \subseteq Members /\ tasks' \subseteq {"rid_runtime", "rid_shell"}
      /\ published' \in BOOLEAN /\ running' \in BOOLEAN
  <2>0. /\ context \subseteq Members /\ tasks \subseteq {"rid_runtime", "rid_shell"}
        /\ published \in BOOLEAN /\ running \in BOOLEAN
    BY <1>0 DEF TypeOK
  <2>1. CASE UNCHANGED appVars
    BY <2>0, <2>1 DEF appVars
  <2>2. CASE \E from \in Starting : Return(from)
    BY <2>0, <2>2 DEF Return
  <2>3. CASE MakeContext \/ CreateMutex
    <3>1. CreateMutex => (context' = context \union {"runtime", "mutex"} /\ UNCHANGED <<published, running, tasks>>)
                         \/ Return("mutex")
      BY DEF CreateMutex
    <3>. QED
      BY <2>0, <2>3, <3>1 DEF MakeContext, Return, Members
  <2>4. CASE LoadAndApply
    <3>1. running' \in BOOLEAN
      BY <2>4 DEF LoadAndApply
    <3>. QED
      BY <2>0, <2>4, <3>1 DEF LoadAndApply, Members
  <2>5. CASE Publish
    BY <2>0, <2>5 DEF Publish
  <2>6. CASE CreateRuntimeTask \/ CreateShellTask
    BY <2>0, <2>6 DEF CreateRuntimeTask, CreateShellTask
  <2>7. StartWifi => UNCHANGED appVars \/ \E from \in Starting : Return(from)
    BY DEF StartWifi, NetifInit, CreateLoop, DriverInit, Configure, SetCountry, Starting
  <2>8. NvsInit \/ ReadMac \/ StartNimble \/ SyncInfer \/ NimbleSync => UNCHANGED appVars
    BY DEF NvsInit, ReadMac, StartNimble, CreateSemaphore, PortInit, Take, DeleteSemaphore, ClearHandle,
           StopPort, SyncInfer, NimbleSync, SyncTest, SyncGive
  <2>. QED
    BY <2>1, <2>2, <2>3, <2>4, <2>5, <2>6, <2>7, <2>8 DEF Next, AppMain, vars
<1>. QED
  BY <1>1, <1>2, <1>3, <1>4 DEF TypeOK

(* The steps that touch neither the Wi-Fi stack nor the context. *)
LEMMA Beside ==
    ASSUME NvsInit \/ ReadMac \/ StartNimble \/ SyncInfer \/ NimbleSync
    PROVE  /\ UNCHANGED <<wifiVars, appVars>>
           /\ \/ pc' = pc
              \/ /\ pc \in Waiting \cup {"delete", "clear", "stop"}
                 /\ pc' \in Waiting \cup {"delete", "clear", "stop", "context", "returned"}
<1>1. CASE NvsInit \/ ReadMac
  BY <1>1 DEF NvsInit, ReadMac, Goto, Waiting, Unborn
<1>2. CASE StartNimble
  BY <1>2 DEF StartNimble, CreateSemaphore, PortInit, Take, DeleteSemaphore, ClearHandle, StopPort,
              Goto, Waiting, Unborn
<1>3. CASE SyncInfer \/ NimbleSync
  BY <1>3 DEF SyncInfer, NimbleSync, SyncTest, SyncGive
<1>. QED
  BY <1>1, <1>2, <1>3

(* Whatever call fails, the flags of the backend tell what the Wi-Fi stack owes to it. *)
LEMMA WifiStep ==
    ASSUME StartInv, [Next]_vars
    PROVE  WifiInv'
<1>0. /\ WifiInv /\ wifi \in Stacks /\ found \in Stacks /\ backend \in Flags /\ published \in BOOLEAN
      /\ wifi = [netif |-> wifi.netif, loop |-> wifi.loop, driver |-> wifi.driver]
      /\ wifi.driver \in {"off", "initialised", "started"}
      /\ pc \in Calls /\ (pc \in {"runtimeTask", "shellTask"} => published)
  BY DEF StartInv, TypeOK, Stacks, ContextInv
<1>1. CASE NvsInit \/ ReadMac \/ StartNimble \/ SyncInfer \/ NimbleSync
  <2>1. UNCHANGED <<wifi, found, backend, published>>
    BY <1>1, Beside DEF wifiVars, appVars
  <2>. QED
    BY <1>0, <1>1, <2>1, Beside DEF WifiInv, Waiting, Unborn, Starting
<1>2. ASSUME NEW from \in Starting, NEW w, Return(from), Shutdown(w),
             w.netif = wifi.netif, w.loop = wifi.loop,
             ~backend.initialized => w.driver = "off"
      PROVE  WifiInv'
  <2>1. pc = from /\ pc' = "returned" /\ published' = published /\ ~published
    BY <1>0, <1>2 DEF Return, Goto, WifiInv, Starting
  <2>2. backend' = NoFlags /\ wifi' = Released(w, backend) /\ found' = found
    BY <1>2 DEF Shutdown
  <2>3. wifi'.netif = found.netif /\ wifi'.loop = found.loop /\ wifi'.driver = "off"
    BY <1>0, <1>2, <2>2 DEF WifiInv, Released, Owner, Flags
  <2>4. ~backend'.ownsNetif /\ ~backend'.ownsLoop /\ ~backend'.initialized
    BY <2>2 DEF NoFlags
  <2>. QED
    BY <1>0, <2>1, <2>2, <2>3, <2>4 DEF WifiInv, Owner
<1>3. pc # "configure" /\ ~backend.initialized => wifi.driver = "off"
  BY <1>0 DEF WifiInv
<1>4. CASE MakeContext
  BY <1>0, <1>4 DEF MakeContext, Goto, wifiVars, WifiInv, Starting
<1>5. CASE NetifInit
  <2>1. CASE Return("netif") /\ Shutdown(wifi)
    BY <1>2, <1>3, <2>1 DEF Starting, Return, Goto
  <2>2. CASE ~(Return("netif") /\ Shutdown(wifi))
    <3>1. /\ pc = "netif" /\ pc' = "loop" /\ UNCHANGED <<found, published>>
          /\ IF wifi.netif = "none"
             THEN wifi' = [wifi EXCEPT !.netif = "ours"] /\ backend' = [backend EXCEPT !.ownsNetif = TRUE]
             ELSE UNCHANGED <<wifi, backend>>
      BY <1>5, <2>2 DEF NetifInit, Goto, appVars
    <3>. QED
      BY <1>0, <3>1 DEF WifiInv, Owner, Flags, Starting
  <2>. QED
    BY <2>1, <2>2
<1>6. CASE CreateLoop
  <2>1. CASE Return("loop") /\ Shutdown(wifi)
    BY <1>2, <1>3, <2>1 DEF Starting, Return, Goto
  <2>2. CASE ~(Return("loop") /\ Shutdown(wifi))
    <3>1. /\ pc = "loop" /\ pc' = "driver" /\ UNCHANGED <<found, published>>
          /\ IF wifi.loop = "none"
             THEN wifi' = [wifi EXCEPT !.loop = "ours"] /\ backend' = [backend EXCEPT !.ownsLoop = TRUE]
             ELSE UNCHANGED <<wifi, backend>>
      BY <1>6, <2>2 DEF CreateLoop, Goto, appVars
    <3>. QED
      BY <1>0, <3>1 DEF WifiInv, Owner, Flags, Starting
  <2>. QED
    BY <2>1, <2>2
<1>7. CASE DriverInit
  <2>1. CASE Return("driver") /\ Shutdown(wifi)
    BY <1>2, <1>3, <2>1 DEF Starting, Return, Goto
  <2>2. CASE ~(Return("driver") /\ Shutdown(wifi))
    <3>1. /\ pc = "driver" /\ pc' = "configure" /\ UNCHANGED <<found, backend, published>>
          /\ wifi' = [wifi EXCEPT !.driver = "initialised"]
      BY <1>7, <2>2 DEF DriverInit, Goto, appVars
    <3>. QED
      BY <1>0, <3>1 DEF WifiInv, Starting
  <2>. QED
    BY <2>1, <2>2
<1>8. CASE Configure
  <2>1. CASE Return("configure") /\ Shutdown([wifi EXCEPT !.driver = "off"])
    <3> DEFINE w == [wifi EXCEPT !.driver = "off"]
    <3>1. w.netif = wifi.netif /\ w.loop = wifi.loop /\ w.driver = "off"
      BY <1>0
    <3> HIDE DEF w
    <3>2. Return("configure") /\ Shutdown(w)
      BY <2>1 DEF w
    <3>. QED
      BY <1>2, <3>1, <3>2 DEF Starting
  <2>2. CASE ~(Return("configure") /\ Shutdown([wifi EXCEPT !.driver = "off"]))
    <3>1. /\ pc = "configure" /\ pc' = "country" /\ UNCHANGED <<found, published>>
          /\ wifi' = [wifi EXCEPT !.driver = "started"]
          /\ backend' = [backend EXCEPT !.initialized = TRUE]
      BY <1>8, <2>2 DEF Configure, Goto, appVars
    <3>. QED
      BY <1>0, <3>1 DEF WifiInv, Flags, Starting
  <2>. QED
    BY <2>1, <2>2
<1>9. CASE SetCountry
  <2>1. CASE Return("country") /\ Shutdown(wifi)
    BY <1>2, <1>3, <2>1 DEF Starting, Return, Goto
  <2>2. CASE ~(Return("country") /\ Shutdown(wifi))
    <3>1. pc = "country" /\ pc' = "mutex" /\ UNCHANGED <<wifi, found, backend, published>>
      BY <1>9, <2>2 DEF SetCountry, Goto, wifiVars, appVars
    <3>. QED
      BY <1>0, <3>1 DEF WifiInv, Starting
  <2>. QED
    BY <2>1, <2>2
<1>10. CASE CreateMutex
  <2>1. CASE Return("mutex") /\ Shutdown(wifi)
    BY <1>2, <1>3, <2>1 DEF Starting, Return, Goto
  <2>2. CASE ~(Return("mutex") /\ Shutdown(wifi))
    <3>1. pc = "mutex" /\ pc' = "load" /\ UNCHANGED <<wifi, found, backend, published>>
      BY <1>10, <2>2 DEF CreateMutex, Goto, wifiVars
    <3>. QED
      BY <1>0, <3>1 DEF WifiInv, Starting
  <2>. QED
    BY <2>1, <2>2
<1>11. CASE LoadAndApply
  BY <1>0, <1>11 DEF LoadAndApply, Goto, wifiVars, WifiInv, Starting
<1>12. CASE Publish
  BY <1>0, <1>12 DEF Publish, Goto, wifiVars, WifiInv, Starting
<1>13. CASE CreateRuntimeTask \/ CreateShellTask
  BY <1>0, <1>13 DEF CreateRuntimeTask, CreateShellTask, Goto, wifiVars, WifiInv, Starting
<1>14. CASE UNCHANGED vars
  BY <1>0, <1>14 DEF vars, wifiVars, appVars, WifiInv
<1>. QED
  BY <1>1, <1>4, <1>5, <1>6, <1>7, <1>8, <1>9, <1>10, <1>11, <1>12, <1>13, <1>14
  DEF Next, AppMain, StartWifi

(* The context is built in one order, and destroyed by every return that precedes its publication. *)
LEMMA ContextStep ==
    ASSUME StartInv, [Next]_vars
    PROVE  ContextInv'
<1> USE DEF ContextInv, Waiting, Unborn, Starting
<1>0. ContextInv /\ pc \in Calls
  BY DEF StartInv
<1>1. CASE NvsInit \/ ReadMac \/ StartNimble \/ SyncInfer \/ NimbleSync
  <2>1. UNCHANGED <<context, published, tasks>>
    BY <1>1, Beside DEF appVars
  <2>. QED
    BY <1>0, <1>1, <2>1, Beside
<1>2. ASSUME NEW from \in Starting, Return(from) PROVE ContextInv'
  BY <1>0, <1>2 DEF Return, Goto
<1>3. CASE MakeContext
  BY <1>0, <1>3 DEF MakeContext, Goto
<1>4. CASE StartWifi
  <2>1. \/ \E from \in Starting : Return(from)
        \/ pc \in Starting /\ pc' \in Starting /\ UNCHANGED appVars
    BY <1>4 DEF StartWifi, NetifInit, CreateLoop, DriverInit, Configure, SetCountry, Goto
  <2>2. UNCHANGED appVars => UNCHANGED <<context, published, tasks>>
    BY DEF appVars
  <2>. QED
    BY <1>0, <1>2, <2>1, <2>2
<1>5. CASE CreateMutex
  <2>1. \/ Return("mutex")
        \/ /\ pc = "mutex" /\ pc' = "load" /\ context' = context \union {"runtime", "mutex"}
           /\ UNCHANGED <<published, tasks>>
    BY <1>5 DEF CreateMutex, Goto
  <2>. QED
    BY <1>0, <1>2, <2>1
<1>6. CASE LoadAndApply
  BY <1>0, <1>6 DEF LoadAndApply, Goto, Members
<1>7. CASE Publish
  BY <1>0, <1>7 DEF Publish, Goto
<1>8. CASE CreateRuntimeTask
  BY <1>0, <1>8 DEF CreateRuntimeTask, Goto
<1>9. CASE CreateShellTask
  BY <1>0, <1>9 DEF CreateShellTask, Goto
<1>10. CASE UNCHANGED vars
  BY <1>0, <1>10 DEF vars, appVars
<1>. QED
  BY <1>1, <1>3, <1>4, <1>5, <1>6, <1>7, <1>8, <1>9, <1>10 DEF Next, AppMain

(* An address, once inferred, stays, and it is there before the BLE backend is. *)
LEMMA AddressStep ==
    ASSUME StartInv, "ble" \in context => address, [Next]_vars
    PROVE  ("ble" \in context => address)'
<1>1. CASE MakeContext
  <2>1. address
    BY <1>1 DEF StartInv, SyncInv, Answered, MakeContext, Goto, Waiting, Unborn
  <2>. QED
    BY <1>1, <2>1 DEF MakeContext, bleVars
<1>2. CASE Elsewhere /\ ~MakeContext
  <2>1. address' = address
    BY <1>2, Onward DEF bleVars
  <2>2. context' \subseteq context \cup {"runtime", "mutex", "shell"}
    <3>1. CASE NvsInit \/ ReadMac \/ Publish \/ CreateRuntimeTask \/ CreateShellTask \/ LoadAndApply
      BY <3>1 DEF NvsInit, ReadMac, Publish, CreateRuntimeTask, CreateShellTask, LoadAndApply, appVars
    <3>2. CASE StartWifi \/ CreateMutex
      BY <3>2 DEF StartWifi, NetifInit, CreateLoop, DriverInit, Configure, SetCountry, CreateMutex,
                  Return, appVars
    <3>. QED
      BY <1>2, <3>1, <3>2 DEF Elsewhere
  <2>. QED
    BY <2>1, <2>2
<1>3. CASE StartNimble \/ SyncInfer \/ NimbleSync
  <2>1. context' = context
    BY <1>3, Beside DEF appVars
  <2>2. address' = address \/ address' = TRUE
    BY <1>3 DEF StartNimble, CreateSemaphore, PortInit, Take, DeleteSemaphore, ClearHandle, StopPort,
                SyncInfer, NimbleSync, SyncTest, SyncGive
  <2>. QED
    BY <2>1, <2>2
<1>4. CASE UNCHANGED vars
  BY <1>4 DEF vars, bleVars, appVars
<1>. QED
  BY <1>1, <1>2, <1>3, <1>4 DEF Next, AppMain, Elsewhere

(* The invariant of the start. *)
LEMMA Started == Spec => [](StartInv /\ ("ble" \in context => address))
<1>1. Init => StartInv /\ ("ble" \in context => address)
  BY StartInit DEF Init
<1>2. /\ StartInv /\ ("ble" \in context => address) /\ [Next]_vars
      => StartInv' /\ ("ble" \in context => address)'
  BY StartTypes, SyncStep, WifiStep, ContextStep, AddressStep DEF StartInv
<1>. QED
  BY <1>1, <1>2, PTL DEF Spec

(* Every call of app_main and of nimble_sync keeps the types. *)
THEOREM StartTypeCorrect == Spec => []TypeOK
<1>1. StartInv => TypeOK
  BY DEF StartInv
<1>. QED
  BY <1>1, Started, PTL

(* A semaphore is given after its deletion only when the start had timed out or the host     *)
(* synchronises again, for any number of synchronisations and any interleaving.                *)
THEOREM DeadGiveExcused == Spec => []DeadGiveNeedsTimeout
<1>1. StartInv => DeadGiveNeedsTimeout
  BY DEF StartInv
<1>. QED
  BY <1>1, Started, PTL

(* A start that fails before the context is published has released all it made, and nothing else; *)
(* one that fails later, or succeeds, holds all that the tasks need, and the flags tell what       *)
(* shutdown would have to release for the Wi-Fi stack to be as it was found.                        *)
THEOREM ReturnsAllOrNothing == Spec => []AllOrNothing
<1>1. ASSUME StartInv, pc = "returned", ~published PROVE context = {} /\ wifi = found /\ backend = NoFlags
  <2>1. backend = NoFlags /\ context = {}
    BY <1>1 DEF StartInv, WifiInv, ContextInv, Starting
  <2>2. wifi.netif = found.netif /\ wifi.loop = found.loop
    BY <1>1, <2>1 DEF StartInv, WifiInv, NoFlags, Owner
  <2>3. wifi.driver \in {"off", "initialised", "started"}
    BY <1>1 DEF StartInv, TypeOK, Stacks
  <2>4. wifi.driver = found.driver
    BY <1>1, <2>1, <2>3 DEF StartInv, WifiInv, NoFlags
  <2>5. wifi \in Stacks /\ found \in Stacks
    BY <1>1 DEF StartInv, TypeOK
  <2>. QED
    BY <2>1, <2>2, <2>4, <2>5 DEF Stacks
<1>2. ASSUME StartInv, pc = "returned", published
      PROVE  context = Members /\ wifi.driver = "started" /\ Released(wifi, backend) = found
  <2>1. context = Members /\ wifi.driver = "started" /\ backend.initialized
    BY <1>2 DEF StartInv, WifiInv, ContextInv
  <2>2. found \in Stacks /\ found.driver = "off"
    BY <1>2 DEF StartInv, TypeOK, WifiInv
  <2>3. /\ wifi.netif = Owner(backend.ownsNetif, found.netif)
        /\ wifi.loop = Owner(backend.ownsLoop, found.loop)
        /\ backend.ownsNetif => found.netif = "none"
        /\ backend.ownsLoop => found.loop = "none"
    BY <1>2 DEF StartInv, WifiInv
  <2>4. Released(wifi, backend) = [driver |-> found.driver, loop |-> found.loop, netif |-> found.netif]
    BY <2>1, <2>2, <2>3 DEF Released, Owner
  <2>. QED
    BY <2>1, <2>2, <2>4 DEF Stacks
<1>3. ASSUME StartInv, pc = "returned" PROVE semaphore \in {"none", "deleted"} /\ ~handle
  BY <1>3 DEF StartInv, SyncInv
<1>4. StartInv => AllOrNothing
  BY <1>1, <1>2, <1>3 DEF AllOrNothing
<1>. QED
  BY <1>4, Started, PTL

(* A task finds everything it uses, and the BLE backend finds its address. *)
THEOREM TasksFindAll == Spec => []ContextComplete
<1>1. StartInv /\ ("ble" \in context => address) => ContextComplete
  BY DEF StartInv, ContextInv, ContextComplete
<1>. QED
  BY <1>1, Started, PTL

-----------------------------------------------------------------------------
(* The line that shell_task reads, and what the terminal shows of it. *)

(* An answer is one of the three kinds. *)
LEMMA AnswerType ==
    ASSUME NEW line, line.text \in Seq(Printable), line.tooLong \in BOOLEAN
    PROVE  Answer(line) \in Replies
BY DEF Answer, Replies

(* A key is a sequence of bytes. *)
LEMMA KeyType ==
    ASSUME enter \in EnterKeys
    PROVE  \A key \in Keys : key \in Seq(Bytes)
<1>1. \A a \in Bytes : <<a>> \in Seq(Bytes)
  OBVIOUS
<1>2. \A a, b \in Bytes : <<a, b>> \in Seq(Bytes)
  OBVIOUS
<1>3. Arrow \in Seq(Bytes) /\ DeleteKey \in Seq(Bytes) /\ AltKey \in Seq(Bytes)
  BY DEF Arrow, DeleteKey, AltKey, Bytes, Printable
<1>4. {"CR", "LF", "ESC", "BS", "DEL", "NAK", "bell"} \subseteq Bytes /\ Printable \subseteq Bytes
  BY DEF Bytes, Control
<1>5. \A key \in EnterKeys : key \in Seq(Bytes)
  BY <1>1, <1>2, <1>4 DEF EnterKeys
<1>6. \A key \in TypingKeys \cup EraseKeys \cup {KillKey, <<"bell">>} : key \in Seq(Bytes)
  BY <1>1, <1>4 DEF TypingKeys, EraseKeys, KillKey
<1>. QED
  BY <1>3, <1>5, <1>6 DEF Keys, Silent

IntendedType == [text : Seq(Printable), tooLong : BOOLEAN, replies : Seq(Replies)]

(* What a key means is a line again. *)
LEMMA MeaningType ==
    ASSUME LineTypeOK, NEW key \in Keys
    PROVE  Meaning(key, intended) \in IntendedType
<1> DEFINE line == intended
<1>1. line \in IntendedType
      /\ line.text \in Seq(Printable) /\ line.tooLong \in BOOLEAN /\ line.replies \in Seq(Replies)
      /\ line = [text |-> line.text, tooLong |-> line.tooLong, replies |-> line.replies]
  BY DEF LineTypeOK, IntendedType
<1> HIDE DEF line
<1>2. \A answers \in Seq(Replies) : Fresh(answers) \in IntendedType
  BY DEF Fresh, IntendedType
<1>3. Append(line.replies, Answer(line)) \in Seq(Replies)
  BY <1>1, AnswerType
<1>4. key \in TypingKeys => key \in Seq(Printable)
  BY DEF TypingKeys
<1>5. key \in TypingKeys => [line EXCEPT !.text = @ \o key] \in IntendedType
  <2>1. key \in TypingKeys => line.text \o key \in Seq(Printable)
    BY <1>1, <1>4, ConcatProperties
  <2>. QED
    BY <1>1, <2>1 DEF IntendedType
<1>6. line.text # <<>> => SubSeq(line.text, 1, Len(line.text) - 1) \in Seq(Printable)
  BY <1>1, SubSeqProperties, LenProperties
<1>7. line.text # <<>> => [line EXCEPT !.text = SubSeq(@, 1, Len(@) - 1)] \in IntendedType
  BY <1>1, <1>6 DEF IntendedType
<1>8. [line EXCEPT !.tooLong = TRUE] \in IntendedType /\ line \in IntendedType
  BY <1>1 DEF IntendedType
<1>9. Meaning(key, line) \in IntendedType
  BY <1>1, <1>2, <1>3, <1>5, <1>7, <1>8 DEF Meaning
<1>. QED
  BY <1>9 DEF line

ScreenInv == LineTypeOK /\ ScreenShowsLine

(* The buffer and the screen begin empty. *)
LEMMA ScreenInit == LineInit => ScreenInv
<1>1. <<>> \in Seq(Bytes) /\ <<>> \in Seq(Printable) /\ <<>> \in Seq(Replies)
  OBVIOUS
<1>2. Len(<<>>) = 0 /\ 0 <= MaxLine
  OBVIOUS
<1>3. LineInit => intended \in [text : Seq(Printable), tooLong : BOOLEAN, replies : Seq(Replies)]
  BY <1>1 DEF LineInit, Fresh
<1>4. LineInit => enter \in EnterKeys /\ incoming \in Seq(Bytes) /\ bytes \in Seq(Printable)
  BY <1>1 DEF LineInit
<1>6. LineInit => Len(bytes) <= MaxLine
  <2>1. LineInit => bytes = <<>>
    BY DEF LineInit
  <2>. QED
    BY <1>2, <2>1
<1>7. LineInit => overflow \in BOOLEAN /\ lastWasCr \in BOOLEAN
  BY Zenon DEF LineInit
<1>8. LineInit => escapeState \in 0 .. 2
  <2>1. LineInit => escapeState = 0
    BY DEF LineInit
  <2>. QED
    BY <2>1
<1>5. LineInit => screen \in Seq(Printable) /\ replies \in Seq(Replies) /\ screen = bytes
  BY <1>1 DEF LineInit
<1>. QED
  BY <1>3, <1>4, <1>5, <1>6, <1>7, <1>8 DEF ScreenInv, LineTypeOK, ScreenShowsLine

(* A key that is pressed has no effect yet on either. *)
LEMMA PressKeepsInv ==
    ASSUME ScreenInv, NEW key \in Keys, Press(key)
    PROVE  ScreenInv'
<1>1. LineTypeOK /\ incoming' = key /\ intended' = Meaning(key, intended)
      /\ UNCHANGED <<enter, buffer, screen, replies>>
  BY DEF ScreenInv, Press
<1>2. incoming' \in Seq(Bytes)
  BY <1>1, KeyType DEF LineTypeOK
<1>3. intended' \in IntendedType
  BY <1>1, MeaningType
<1>. QED
  BY <1>1, <1>2, <1>3 DEF ScreenInv, LineTypeOK, ScreenShowsLine, IntendedType, buffer

(* A sequence without its last element. *)
LEMMA ShortenedSeq ==
    ASSUME NEW S, NEW seq \in Seq(S), Len(seq) > 0
    PROVE  /\ SubSeq(seq, 1, Len(seq) - 1) \in Seq(S)
           /\ Len(SubSeq(seq, 1, Len(seq) - 1)) = Len(seq) - 1
<1>1. Len(seq) \in Nat
  BY LenProperties
<1>2. \A i \in 1 .. Len(seq) - 1 : seq[i] \in S
  BY <1>1, ElementOfSeq
<1> DEFINE n == Len(seq) - 1
<1>3. n \in Int /\ 1 \in Int /\ n \in Nat /\ (\A i \in 1 .. n : seq[i] \in S)
  BY <1>1, <1>2
<1> HIDE DEF n
<1>4. SubSeq(seq, 1, n) \in Seq(S) /\ Len(SubSeq(seq, 1, n)) = IF 1 <= n THEN n - 1 + 1 ELSE 0
  BY <1>3, SubSeqProperties
<1>5. Len(SubSeq(seq, 1, n)) = n
  BY <1>3, <1>4
<1>. QED
  BY <1>4, <1>5 DEF n

(* Every byte that push handles keeps them equal, and within bounds. *)
LEMMA PushKeepsInv ==
    ASSUME ScreenInv, NEW byte \in Bytes, Received(byte), Push(byte)
    PROVE  ScreenInv'
<1>0. <<>> \in Seq(Printable) /\ Len(<<>>) = 0 /\ 0 <= MaxLine
  OBVIOUS
<1>1. LineTypeOK /\ screen = bytes /\ Len(bytes) \in Nat
  BY LenProperties DEF ScreenInv, LineTypeOK, ScreenShowsLine
<1>2. incoming' \in Seq(Bytes) /\ UNCHANGED <<enter, intended>>
  BY <1>1, HeadTailProperties DEF Received, LineTypeOK
(* All that is left to show of a byte: *)
<1> DEFINE Goal == /\ bytes' \in Seq(Printable) /\ Len(bytes') <= MaxLine
                   /\ overflow' \in BOOLEAN /\ lastWasCr' \in BOOLEAN /\ escapeState' \in 0 .. 2
                   /\ screen' = bytes'
                   /\ replies' \in Seq(Replies)
<1> SUFFICES Goal
  BY <1>1, <1>2 DEF ScreenInv, LineTypeOK, ScreenShowsLine
<1>3. CASE SkipLf(byte)
  BY <1>1, <1>3 DEF SkipLf, NoEcho, LineTypeOK
<1>4. CASE EndLine(byte)
  <2>1. Answer([text |-> bytes, tooLong |-> overflow]) \in Replies
    BY <1>1, AnswerType DEF LineTypeOK
  <2>2. bytes' = <<>> /\ screen' = <<>> /\ overflow' = FALSE /\ lastWasCr' \in BOOLEAN
        /\ escapeState' = 0 /\ replies' = Append(replies, Answer([text |-> bytes, tooLong |-> overflow]))
    BY <1>4 DEF EndLine, Respond
  <2>3. replies' \in Seq(Replies)
    BY <1>1, <2>1, <2>2 DEF LineTypeOK
  <2>4. Len(bytes') <= MaxLine /\ screen' = bytes' /\ bytes' \in Seq(Printable)
    BY <1>0, <2>2
  <2>5. overflow' \in BOOLEAN
    BY <2>2, Zenon
  <2>6. escapeState' \in 0 .. 2
    BY <2>2
  <2>. QED
    BY <2>2, <2>3, <2>4, <2>5, <2>6
<1>5. CASE Escape(byte)
  <2>1. UNCHANGED <<bytes, overflow, screen, replies>> /\ lastWasCr' = FALSE
    BY <1>5 DEF Escape, Other, NoEcho
  <2>2. escapeState' \in 0 .. 2
    BY <1>1, <1>5 DEF Escape, NextEscape, LineTypeOK
  <2>. QED
    BY <1>1, <2>1, <2>2 DEF LineTypeOK
<1>6. CASE Kill(byte)
  <2>1. bytes' = <<>> /\ overflow' = FALSE /\ lastWasCr' = FALSE
        /\ UNCHANGED <<escapeState, replies>>
        /\ screen' = SubSeq(bytes, 1, Len(bytes) - Len(bytes))
    BY <1>1, <1>6 DEF Kill, Plain, Other, Erase
  <2>2. screen' = <<>>
    BY <1>1, <2>1, SubSeqProperties DEF LineTypeOK
  <2>. QED
    BY <1>0, <1>1, <2>1, <2>2 DEF LineTypeOK
<1>7. CASE Rubout(byte)
  <2>1. lastWasCr' = FALSE /\ UNCHANGED <<escapeState, overflow, replies>>
    BY <1>7 DEF Rubout, Plain, Other, Erase, NoEcho
  <2>2. CASE Rubs
    <3>1. bytes' = SubSeq(bytes, 1, Len(bytes) - 1) /\ screen' = bytes'
      BY <1>1, <1>7, <2>2 DEF Rubout, Erase
    <3>2. bytes \in Seq(Printable) /\ Len(bytes) > 0
      BY <1>1, <2>2, EmptySeq DEF Rubs, LineTypeOK
    <3>3. SubSeq(bytes, 1, Len(bytes) - 1) \in Seq(Printable)
          /\ Len(SubSeq(bytes, 1, Len(bytes) - 1)) = Len(bytes) - 1
      BY <3>2, <1>1, ShortenedSeq
    <3>4. bytes' \in Seq(Printable) /\ Len(bytes') <= MaxLine
      BY <1>1, <3>1, <3>3 DEF LineTypeOK
    <3>. QED
      BY <1>1, <2>1, <3>1, <3>4 DEF LineTypeOK
  <2>3. CASE ~Rubs
    BY <1>1, <1>7, <2>1, <2>3 DEF Rubout, NoEcho, LineTypeOK
  <2>. QED
    BY <2>2, <2>3
<1>8. CASE Ignore(byte)
  BY <1>1, <1>8 DEF Ignore, Plain, Other, NoEcho, LineTypeOK
<1>9. CASE Overflow(byte)
  BY <1>1, <1>9 DEF Overflow, Plain, Other, NoEcho, LineTypeOK
<1>10. CASE Store(byte)
  <2>1. /\ byte \in Printable /\ Len(bytes) < MaxLine /\ bytes' = Append(bytes, byte)
        /\ screen' = Append(screen, byte) /\ lastWasCr' = FALSE
        /\ UNCHANGED <<overflow, escapeState, replies>>
    BY <1>10 DEF Store, HasRoom, Plain, Other, Echo
  <2>2. bytes' \in Seq(Printable) /\ Len(bytes') = Len(bytes) + 1
    BY <1>1, <2>1, AppendProperties DEF LineTypeOK
  <2>3. Len(bytes') <= MaxLine
    BY <1>1, <2>1, <2>2
  <2>. QED
    BY <1>1, <2>1, <2>2, <2>3 DEF LineTypeOK
<1>. QED
  BY <1>3, <1>4, <1>5, <1>6, <1>7, <1>8, <1>9, <1>10 DEF Push

(* The invariant of the buffer and the screen. *)
LEMMA ScreenInvariance == LineSpec => []ScreenInv
<1>1. ScreenInv /\ [LineNext]_lineVars => ScreenInv'
  <2>1. ASSUME ScreenInv, NEW key \in Keys, Press(key) PROVE ScreenInv'
    BY <2>1, PressKeepsInv
  <2>2. ASSUME ScreenInv, NEW byte \in Bytes, Received(byte) /\ Push(byte) PROVE ScreenInv'
    BY <2>2, PushKeepsInv
  <2>3. ASSUME ScreenInv, UNCHANGED lineVars PROVE ScreenInv'
    BY <2>3 DEF lineVars, buffer, ScreenInv, LineTypeOK, ScreenShowsLine
  <2>. QED
    BY <2>1, <2>2, <2>3 DEF LineNext
<1>. QED
  BY ScreenInit, <1>1, PTL DEF LineSpec

-----------------------------------------------------------------------------
(* Every byte keeps the types; in particular push writes only inside bytes_. *)
THEOREM LineTypeCorrect == LineSpec => []LineTypeOK
<1>1. ScreenInv => LineTypeOK
  BY DEF ScreenInv
<1>. QED
  BY <1>1, ScreenInvariance, PTL

(* What the terminal shows is what Enter would execute, after any bytes at all. *)
THEOREM ShownIsRun == LineSpec => []ScreenShowsLine
<1>1. ScreenInv => ScreenShowsLine
  BY DEF ScreenInv
<1>. QED
  BY <1>1, ScreenInvariance, PTL

-----------------------------------------------------------------------------
(* The line of LineAsIntended, byte by byte. *)

(* The buffer, as a line. *)
Buffered == [text |-> bytes, tooLong |-> overflow, replies |-> replies]

(* Between two keys.  A CR that could be the first half of a pair was all of Enter. *)
Between ==
    /\ incoming = <<>> /\ escapeState = 0
    /\ intended = Buffered
    /\ lastWasCr => enter = <<"CR">>

(* A key is pressed, and no byte of it has been received. *)
Pressed ==
    /\ incoming \in Keys /\ escapeState = 0
    /\ intended = Meaning(incoming, Buffered)
    /\ lastWasCr => enter = <<"CR">>

(* What is left of a control sequence is to be swallowed. *)
InSequence ==
    /\ \/ escapeState = 1 /\ incoming \in {Tail(Arrow), Tail(DeleteKey), Tail(AltKey)}
       \/ escapeState = 2 /\ incoming \in {Tail(Tail(Arrow)), Tail(Tail(DeleteKey))}
    /\ intended = Buffered
    /\ ~lastWasCr

(* The second half of Enter is. *)
InEnter ==
    /\ incoming = <<"LF">> /\ lastWasCr /\ escapeState = 0
    /\ intended = Buffered

KeyInv == LineTypeOK /\ (Between \/ Pressed \/ InSequence \/ InEnter)

(* The bytes are told apart, and no key is empty. *)
LEMMA KeysApart ==
    ASSUME enter \in EnterKeys
    PROVE  /\ \A key \in Keys \ {enter} :
                 \/ \E b \in Printable : key = <<b>>
                 \/ key \in {<<"BS">>, <<"DEL">>, <<"NAK">>, <<"bell">>, Arrow, DeleteKey, AltKey}
           /\ \A b \in Printable : b \notin {"CR", "LF", "ESC", "BS", "DEL", "NAK", "bell"}
           /\ \A key \in Keys : key # <<>>
<1>1. \A key \in Keys \ {enter} :
        \/ \E b \in Printable : key = <<b>>
        \/ key \in {<<"BS">>, <<"DEL">>, <<"NAK">>, <<"bell">>, Arrow, DeleteKey, AltKey}
  BY DEF Keys, TypingKeys, EraseKeys, Silent, KillKey
<1>2. \A b \in Printable : b \notin {"CR", "LF", "ESC", "BS", "DEL", "NAK", "bell"}
  BY DEF Printable
<1>3. enter # <<>>
  BY DEF EnterKeys
<1>4. Arrow # <<>> /\ DeleteKey # <<>> /\ AltKey # <<>>
  BY DEF Arrow, DeleteKey, AltKey
<1>. QED
  BY <1>1, <1>2, <1>3, <1>4

(* What the keys other than Enter mean, on a line that does not count as too long or does. *)
LEMMA Meanings ==
    ASSUME enter \in EnterKeys, NEW line
    PROVE  /\ \A b \in Printable :
                 Meaning(<<b>>, line) =
                     IF line.tooLong THEN line
                     ELSE IF Len(line.text) < MaxLine THEN [line EXCEPT !.text = @ \o <<b>>]
                     ELSE [line EXCEPT !.tooLong = TRUE]
           /\ \A key \in EraseKeys :
                 Meaning(key, line) =
                     IF ~line.tooLong /\ line.text # <<>>
                     THEN [line EXCEPT !.text = SubSeq(@, 1, Len(@) - 1)] ELSE line
           /\ Meaning(KillKey, line) = Fresh(line.replies)
           /\ \A key \in Silent : Meaning(key, line) = line
           /\ Meaning(enter, line) = Fresh(Append(line.replies, Answer(line)))
<1>1. ASSUME NEW b \in Printable
      PROVE  <<b>> # enter /\ <<b>> \in TypingKeys /\ <<b>> \notin EraseKeys /\ <<b>> # KillKey
  BY <1>1 DEF EnterKeys, TypingKeys, EraseKeys, KillKey, Printable
<1>2. ASSUME NEW b \in Printable
      PROVE  Meaning(<<b>>, line) =
                 IF line.tooLong THEN line
                 ELSE IF Len(line.text) < MaxLine THEN [line EXCEPT !.text = @ \o <<b>>]
                 ELSE [line EXCEPT !.tooLong = TRUE]
  BY <1>1 DEF Meaning
<1>3. ASSUME NEW key \in EraseKeys
      PROVE  key # enter /\ key \notin TypingKeys /\ key # KillKey
  BY <1>3 DEF EnterKeys, TypingKeys, EraseKeys, KillKey, Printable
<1>4. ASSUME NEW key \in EraseKeys
      PROVE  Meaning(key, line) =
                 IF ~line.tooLong /\ line.text # <<>>
                 THEN [line EXCEPT !.text = SubSeq(@, 1, Len(@) - 1)] ELSE line
  <2>1. CASE ~line.tooLong /\ line.text # <<>>
    BY <1>3, <1>4, <2>1 DEF Meaning
  <2>2. CASE ~(~line.tooLong /\ line.text # <<>>)
    BY <1>3, <2>2 DEF Meaning
  <2>. QED
    BY <2>1, <2>2
<1>5. KillKey # enter /\ KillKey \notin TypingKeys /\ KillKey \notin EraseKeys
  BY DEF EnterKeys, TypingKeys, EraseKeys, KillKey, Printable
<1>6. Meaning(KillKey, line) = Fresh(line.replies)
  BY <1>5 DEF Meaning
<1>7. ASSUME NEW key \in Silent
      PROVE  key # enter /\ key \notin TypingKeys /\ key \notin EraseKeys /\ key # KillKey
  BY <1>7 DEF EnterKeys, TypingKeys, EraseKeys, KillKey, Printable, Silent, Arrow, DeleteKey, AltKey
<1>8. ASSUME NEW key \in Silent PROVE Meaning(key, line) = line
  BY <1>7 DEF Meaning
<1>9. Meaning(enter, line) = Fresh(Append(line.replies, Answer(line)))
  <2>1. enter \notin TypingKeys /\ enter \notin EraseKeys /\ enter # KillKey
    BY <1>1, <1>3, <1>5 DEF TypingKeys
  <2>. QED
    BY <2>1 DEF Meaning
<1>. QED
  BY <1>2, <1>4, <1>6, <1>8, <1>9

(* A byte of a control sequence: the line stays. *)
LEMMA EscapeByte ==
    ASSUME LineTypeOK, NEW byte, byte \notin {"CR", "LF"}, escapeState # 0 \/ byte = "ESC", Push(byte)
    PROVE  Buffered' = Buffered /\ escapeState' = NextEscape(byte) /\ ~lastWasCr'
<1>1. Escape(byte)
  <2>1. ~SkipLf(byte) /\ ~EndLine(byte)
    BY DEF SkipLf, SecondOfCrLf, EndLine
  <2>2. ~Kill(byte) /\ ~Rubout(byte) /\ ~Ignore(byte) /\ ~Overflow(byte) /\ ~Store(byte)
    BY DEF Kill, Rubout, Ignore, Overflow, Store, Plain, Printable, Control
  <2>. QED
    BY <2>1, <2>2 DEF Push
<1>. QED
  BY <1>1 DEF Escape, Other, NoEcho, Buffered

(* CR and LF, unless it is the second of a pair, end the line and answer it. *)
LEMMA EnterByte ==
    ASSUME LineTypeOK, NEW byte, byte \in {"CR", "LF"}, ~SecondOfCrLf(byte), Push(byte)
    PROVE  /\ Buffered' = Fresh(Append(replies, Answer(Buffered)))
           /\ escapeState' = 0 /\ (lastWasCr' <=> byte = "CR")
<1>1. EndLine(byte)
  <2>1. ~SkipLf(byte) /\ ~Escape(byte)
    BY DEF SkipLf, Escape, Other
  <2>2. ~Kill(byte) /\ ~Rubout(byte) /\ ~Ignore(byte) /\ ~Overflow(byte) /\ ~Store(byte)
    BY DEF Kill, Rubout, Ignore, Overflow, Store, Plain, Other
  <2>. QED
    BY <2>1, <2>2 DEF Push
<1>2. bytes' = <<>> /\ overflow' = FALSE /\ escapeState' = 0 /\ lastWasCr' = (byte = "CR")
      /\ replies' = Append(replies, Answer([text |-> bytes, tooLong |-> overflow]))
  BY <1>1 DEF EndLine, Respond
<1>3. Answer([text |-> bytes, tooLong |-> overflow]) = Answer(Buffered)
  <2> DEFINE short == [text |-> bytes, tooLong |-> overflow]
             line == Buffered
  <2>1. short.text = line.text /\ short.tooLong = line.tooLong
    BY DEF Buffered
  <2> HIDE DEF short, line
  <2>2. Answer(short) = Answer(line)
    BY <2>1 DEF Answer
  <2>. QED
    BY <2>2 DEF short, line
<1>4. Buffered' = Fresh(Append(replies, Answer(Buffered)))
  BY <1>2, <1>3 DEF Buffered, Fresh
<1>. QED
  BY <1>2, <1>4

(* The second of a pair does nothing. *)
LEMMA SecondByte ==
    ASSUME LineTypeOK, NEW byte, SecondOfCrLf(byte), Push(byte)
    PROVE  Buffered' = Buffered /\ escapeState' = escapeState /\ ~lastWasCr'
<1>1. SkipLf(byte)
  <2>1. ~EndLine(byte) /\ ~Escape(byte)
    BY DEF SecondOfCrLf, EndLine, Escape, Other
  <2>2. ~Kill(byte) /\ ~Rubout(byte) /\ ~Ignore(byte) /\ ~Overflow(byte) /\ ~Store(byte)
    BY DEF SecondOfCrLf, Kill, Rubout, Ignore, Overflow, Store, Plain, Other
  <2>. QED
    BY <2>1, <2>2 DEF Push
<1>. QED
  BY <1>1 DEF SkipLf, NoEcho, Buffered

(* A key of one byte, other than Enter, does to the buffer what it means. *)
LEMMA PlainByte ==
    ASSUME LineTypeOK, NEW byte \in Printable \cup {"BS", "DEL", "NAK", "bell"},
           escapeState = 0, Push(byte)
    PROVE  Buffered' = Meaning(<<byte>>, Buffered) /\ escapeState' = 0 /\ ~lastWasCr'
<1>1. byte \notin {"CR", "LF", "ESC"} /\ enter \in EnterKeys
  BY DEF Printable, LineTypeOK
<1>2. ~SkipLf(byte) /\ ~EndLine(byte) /\ ~Escape(byte)
  BY <1>1 DEF SkipLf, SecondOfCrLf, EndLine, Escape
<1>3. Kill(byte) \/ Rubout(byte) \/ Ignore(byte) \/ Overflow(byte) \/ Store(byte)
  BY <1>2 DEF Push
<1>4. escapeState' = 0 /\ ~lastWasCr'
  BY <1>3 DEF Kill, Rubout, Ignore, Overflow, Store, Plain, Other
<1>5. Buffered.text = bytes /\ Buffered.tooLong = overflow /\ Buffered.replies = replies
  BY DEF Buffered
<1>6. CASE Kill(byte)
  <2>1. byte = "NAK" /\ bytes' = <<>> /\ overflow' = FALSE /\ replies' = replies
    BY <1>6 DEF Kill, Erase
  <2>2. Meaning(<<byte>>, Buffered) = Fresh(replies)
    BY <1>1, <1>5, <2>1, Meanings DEF KillKey
  <2>. QED
    BY <1>4, <2>1, <2>2 DEF Buffered, Fresh
<1>7. CASE Rubout(byte)
  <2>1. <<byte>> \in EraseKeys
    BY <1>7 DEF Rubout, EraseKeys
  <2>2. Meaning(<<byte>>, Buffered) =
            IF ~overflow /\ bytes # <<>>
            THEN [Buffered EXCEPT !.text = SubSeq(bytes, 1, Len(bytes) - 1)] ELSE Buffered
    BY <1>1, <1>5, <2>1, Meanings
  <2>3. overflow' = overflow /\ replies' = replies
        /\ bytes' = IF ~overflow /\ bytes # <<>> THEN SubSeq(bytes, 1, Len(bytes) - 1) ELSE bytes
    BY <1>7 DEF Rubout, Rubs, Erase, NoEcho
  <2>. QED
    BY <1>4, <2>2, <2>3 DEF Buffered
<1>8. CASE Ignore(byte)
  <2>1. Buffered' = Buffered
    BY <1>8 DEF Ignore, NoEcho, Buffered
  <2>2. CASE byte \in Printable /\ overflow
    BY <1>1, <1>4, <1>5, <2>1, <2>2, Meanings
  <2>3. CASE byte \in Control
    <3>1. <<byte>> \in Silent
      BY <2>3 DEF Control, Silent
    <3>. QED
      BY <1>1, <1>4, <2>1, <3>1, Meanings
  <2>. QED
    BY <1>8, <2>2, <2>3 DEF Ignore
<1>9. CASE Overflow(byte)
  <2>1. byte \in Printable /\ ~overflow /\ ~(Len(bytes) < MaxLine)
        /\ overflow' = TRUE /\ bytes' = bytes /\ replies' = replies
    BY <1>9 DEF Overflow, HasRoom, NoEcho
  <2>2. Meaning(<<byte>>, Buffered) = [Buffered EXCEPT !.tooLong = TRUE]
    BY <1>1, <1>5, <2>1, Meanings
  <2>. QED
    BY <1>4, <2>1, <2>2 DEF Buffered
<1>10. CASE Store(byte)
  <2>1. byte \in Printable /\ ~overflow /\ Len(bytes) < MaxLine
        /\ overflow' = overflow /\ bytes' = Append(bytes, byte) /\ replies' = replies
    BY <1>10 DEF Store, HasRoom, Echo
  <2>2. Meaning(<<byte>>, Buffered) = [Buffered EXCEPT !.text = bytes \o <<byte>>]
    BY <1>1, <1>5, <2>1, Meanings
  <2>3. bytes \o <<byte>> = Append(bytes, byte)
    BY <2>1 DEF LineTypeOK
  <2>. QED
    BY <1>4, <2>1, <2>2, <2>3 DEF Buffered
<1>. QED
  BY <1>3, <1>6, <1>7, <1>8, <1>9, <1>10
(* Every byte brings the buffer nearer to the line that the key asks for. *)
LEMMA PushKeepsKey ==
    ASSUME KeyInv, NEW byte \in Bytes, Received(byte), Push(byte), LineTypeOK'
    PROVE  KeyInv'
<1>1. LineTypeOK /\ enter \in EnterKeys /\ enter' = enter /\ intended' = intended
      /\ incoming # <<>> /\ byte = Head(incoming) /\ incoming' = Tail(incoming)
  BY DEF KeyInv, LineTypeOK, Received
<1>2. CASE Pressed /\ incoming # enter
  <2>1. CASE incoming \in {Arrow, DeleteKey, AltKey}
    <3>1. byte = "ESC"
      BY <1>1, <2>1 DEF Arrow, DeleteKey, AltKey
    <3>2. Buffered' = Buffered /\ escapeState' = 1 /\ ~lastWasCr'
      BY <1>1, <1>2, <3>1, EscapeByte DEF Pressed, NextEscape
    <3>3. intended = Buffered
      BY <1>1, <1>2, <2>1, Meanings DEF Pressed, Silent
    <3>4. InSequence'
      BY <1>1, <2>1, <3>2, <3>3 DEF InSequence
    <3>. QED
      BY <3>4 DEF KeyInv
  <2>2. CASE incoming \notin {Arrow, DeleteKey, AltKey}
    <3>1. PICK b \in Printable \cup {"BS", "DEL", "NAK", "bell"} : incoming = <<b>>
      BY <1>1, <1>2, <2>2, KeysApart DEF Pressed
    <3>2. byte = b /\ incoming' = <<>>
      BY <1>1, <3>1
    <3>3. Buffered' = intended /\ escapeState' = 0 /\ ~lastWasCr'
      BY <1>1, <1>2, <3>1, <3>2, PlainByte DEF Pressed
    <3>4. Between'
      BY <1>1, <3>2, <3>3 DEF Between
    <3>. QED
      BY <3>4 DEF KeyInv
  <2>. QED
    BY <2>1, <2>2
<1>3. CASE Pressed /\ incoming = enter
  <2>1. byte \in {"CR", "LF"} /\ (byte = "LF" => enter = <<"LF">>)
        /\ (byte = "CR" => enter \in {<<"CR">>, <<"CR", "LF">>})
    BY <1>1, <1>3 DEF EnterKeys
  <2>2. ~SecondOfCrLf(byte)
    <3>1. <<"LF">> # <<"CR">>
      OBVIOUS
    <3>. QED
      BY <1>3, <2>1, <3>1 DEF SecondOfCrLf, Pressed
  <2>3. /\ Buffered' = Fresh(Append(replies, Answer(Buffered)))
        /\ escapeState' = 0 /\ (lastWasCr' <=> byte = "CR")
    BY <1>1, <2>1, <2>2, EnterByte
  <2>4. Buffered' = intended
    <3>1. Buffered.replies = replies
      BY DEF Buffered
    <3>. QED
      BY <1>1, <1>3, <2>3, <3>1, Meanings DEF Pressed
  <2>5. CASE enter = <<"CR", "LF">>
    <3>1. incoming' = <<"LF">> /\ byte = "CR"
      BY <1>1, <1>3, <2>5
    <3>2. InEnter'
      BY <1>1, <2>3, <2>4, <3>1 DEF InEnter
    <3>. QED
      BY <3>2 DEF KeyInv
  <2>6. CASE enter # <<"CR", "LF">>
    <3>1. incoming' = <<>>
      BY <1>1, <1>3, <2>6 DEF EnterKeys
    <3>2. lastWasCr' => enter' = <<"CR">>
      BY <1>1, <2>1, <2>3, <2>6
    <3>3. Between'
      BY <1>1, <2>3, <2>4, <3>1, <3>2 DEF Between
    <3>. QED
      BY <3>3 DEF KeyInv
  <2>. QED
    BY <2>5, <2>6
<1>4. CASE InSequence
  <2>1. byte \in {"[", "3", "~"}
    BY <1>1, <1>4 DEF InSequence, Arrow, DeleteKey, AltKey
  <2>2. Buffered' = Buffered /\ escapeState' = NextEscape(byte) /\ ~lastWasCr'
    BY <1>1, <1>4, <2>1, EscapeByte DEF InSequence
  <2>3. intended' = Buffered'
    BY <1>1, <1>4, <2>2 DEF InSequence
  <2>4. CASE escapeState = 1
    <3>1. CASE incoming \in {Tail(Arrow), Tail(DeleteKey)}
      <4>1. byte = "[" /\ incoming' \in {Tail(Tail(Arrow)), Tail(Tail(DeleteKey))}
        <5>1. Head(Tail(Arrow)) = "[" /\ Head(Tail(DeleteKey)) = "["
          BY DEF Arrow, DeleteKey
        <5>. QED
          BY <1>1, <3>1, <5>1
      <4>2. escapeState' = 2
        BY <2>2, <2>4, <4>1 DEF NextEscape
      <4>3. InSequence'
        BY <2>2, <2>3, <4>1, <4>2 DEF InSequence
      <4>. QED
        BY <4>3 DEF KeyInv
    <3>2. CASE incoming = Tail(AltKey)
      <4>1. byte = "3" /\ incoming' = <<>>
        BY <1>1, <3>2 DEF AltKey
      <4>2. escapeState' = 0
        BY <2>2, <2>4, <4>1 DEF NextEscape
      <4>3. Between'
        BY <2>2, <2>3, <4>1, <4>2 DEF Between
      <4>. QED
        BY <4>3 DEF KeyInv
    <3>. QED
      BY <1>4, <2>4, <3>1, <3>2 DEF InSequence
  <2>5. CASE escapeState = 2
    <3>1. CASE incoming = Tail(Tail(Arrow))
      <4>1. byte = "~" /\ incoming' = <<>>
        BY <1>1, <3>1 DEF Arrow
      <4>2. escapeState' = 0
        BY <2>2, <2>5, <4>1 DEF NextEscape, Final
      <4>3. Between'
        BY <2>2, <2>3, <4>1, <4>2 DEF Between
      <4>. QED
        BY <4>3 DEF KeyInv
    <3>2. CASE incoming = Tail(Tail(DeleteKey))
      <4>1. byte = "3" /\ incoming' = Tail(Tail(Arrow))
        BY <1>1, <3>2 DEF DeleteKey, Arrow
      <4>2. escapeState' = 2
        BY <2>2, <2>5, <4>1 DEF NextEscape, Final
      <4>3. InSequence'
        BY <2>2, <2>3, <4>1, <4>2 DEF InSequence
      <4>. QED
        BY <4>3 DEF KeyInv
    <3>. QED
      BY <1>4, <2>5, <3>1, <3>2 DEF InSequence
  <2>. QED
    BY <1>4, <2>4, <2>5 DEF InSequence
<1>5. CASE InEnter
  <2>1. byte = "LF" /\ incoming' = <<>> /\ SecondOfCrLf(byte)
    BY <1>1, <1>5 DEF InEnter, SecondOfCrLf
  <2>2. Buffered' = Buffered /\ escapeState' = 0 /\ ~lastWasCr'
    BY <1>1, <1>5, <2>1, SecondByte DEF InEnter
  <2>3. Between'
    BY <1>1, <1>5, <2>1, <2>2 DEF Between, InEnter
  <2>. QED
    BY <2>3 DEF KeyInv
<1>6. ~Between
  BY <1>1 DEF Between
<1>. QED
  BY <1>2, <1>3, <1>4, <1>5, <1>6 DEF KeyInv

(* A key is pressed between two keys. *)
LEMMA PressKeepsKey ==
    ASSUME KeyInv, NEW key \in Keys, Press(key), LineTypeOK'
    PROVE  KeyInv'
<1>1. incoming = <<>> /\ incoming' = key /\ intended' = Meaning(key, intended)
      /\ UNCHANGED <<enter, buffer, screen, replies>> /\ enter \in EnterKeys
  BY DEF Press, KeyInv, LineTypeOK
<1>2. ~Pressed /\ ~InSequence /\ ~InEnter
  BY <1>1, KeysApart DEF Pressed, InSequence, InEnter, Arrow, DeleteKey, AltKey
<1>3. Between
  BY <1>2 DEF KeyInv
<1>4. Keys' = Keys /\ \A line : Meaning(key, line)' = Meaning(key, line)
  BY <1>1 DEF Keys, Meaning
<1>5. Buffered' = Buffered
  BY <1>1 DEF buffer, Buffered
<1>6. intended' = Meaning(incoming, Buffered)'
  BY <1>1, <1>3, <1>5 DEF Between, Meaning
<1>7. Pressed'
  BY <1>1, <1>3, <1>4, <1>6 DEF Between, Pressed, buffer
<1>. QED
  BY <1>7 DEF KeyInv

(* Hence the buffer is the line that was meant whenever no key is half received. *)
THEOREM ExecutedIsMeant == LineSpec => []LineAsIntended
<1>1. LineInit /\ LineTypeOK => KeyInv
  BY DEF LineInit, KeyInv, Between, Buffered, Fresh
<1>2. ScreenInv /\ KeyInv /\ [LineNext]_lineVars /\ ScreenInv' => KeyInv'
  <2>1. ASSUME ScreenInv, KeyInv, ScreenInv', NEW key \in Keys, Press(key) PROVE KeyInv'
    BY <2>1, PressKeepsKey DEF ScreenInv
  <2>2. ASSUME ScreenInv, KeyInv, ScreenInv', NEW byte \in Bytes, Received(byte) /\ Push(byte) PROVE KeyInv'
    BY <2>2, PushKeepsKey DEF ScreenInv
  <2>3. ASSUME KeyInv, UNCHANGED lineVars PROVE KeyInv'
    BY <2>3 DEF lineVars, buffer, KeyInv, LineTypeOK, Between, Pressed, InSequence, InEnter,
                Buffered, Keys, Meaning
  <2>. QED
    BY <2>1, <2>2, <2>3 DEF LineNext
<1>3. ScreenInv => LineTypeOK
  BY DEF ScreenInv
<1>4. KeyInv => LineAsIntended
  <2>1. ASSUME KeyInv, incoming = <<>> PROVE Between
    <3>1. ~Pressed /\ ~InSequence /\ ~InEnter
      BY <2>1, KeysApart DEF KeyInv, LineTypeOK, Pressed, InSequence, InEnter, Arrow, DeleteKey, AltKey
    <3>. QED
      BY <2>1, <3>1 DEF KeyInv
  <2>2. Between => bytes = intended.text /\ overflow = intended.tooLong /\ replies = intended.replies
    BY DEF Between, Buffered
  <2>. QED
    BY <2>1, <2>2 DEF LineAsIntended
<1>. QED
  BY <1>1, <1>2, <1>3, <1>4, ScreenInvariance, PTL DEF LineSpec

-----------------------------------------------------------------------------
(* The configuration that the commands of the shell stage. *)

(* Every non-empty set of natural numbers has a least element: the induction of what follows. *)
LEMMA Least ==
    ASSUME NEW T \in SUBSET Nat, T # {}
    PROVE  \E x \in T : \A y \in T : x <= y
<1> DEFINE R == {pair \in Nat \X Nat : pair[1] < pair[2]}
<1>1. IsWellFoundedOn(R, Nat)
  BY NatLessThanWellFounded DEF OpToRel
<1>2. \A x, y \in Nat : <<y, x>> \in R <=> y < x
  OBVIOUS
<1> HIDE DEF R
<1>3. PICK x \in T : \A y \in T : ~ (<<y, x>> \in R)
  BY <1>1, WFMin
<1>4. ASSUME NEW y \in T PROVE x <= y
  <2>1. x \in Nat /\ y \in Nat /\ ~ (<<y, x>> \in R)
    BY <1>3
  <2>2. ~ (y < x)
    BY <1>2, <2>1
  <2>. QED
    BY <2>1, <2>2
<1>. QED
  BY <1>4

(* The first of some indices is the least. *)
LEMMA FirstIsLeast ==
    ASSUME NEW T \in SUBSET Nat, T # {}
    PROVE  First(T) \in T /\ \A j \in T : First(T) <= j
BY Least DEF First

(* The groups of a configuration. *)
LEMMA GroupsTyped ==
    ASSUME NEW c \in Configurations
    PROVE  /\ c.groups \in Seq(Groups) /\ Len(c.groups) \in Nat
           /\ DOMAIN c.groups = 1 .. Len(c.groups)
           /\ \A i \in 1 .. Len(c.groups) : c.groups[i] \in Groups /\ c.groups[i].count \in Nat
<1>1. c.groups \in Seq(Groups)
  BY DEF Configurations
<1>2. \A i \in 1 .. Len(c.groups) : c.groups[i] \in Groups
  BY <1>1, ElementOfSeq
<1>3. \A g \in Groups : g.count \in Nat
  BY DEF Groups
<1>. QED
  BY <1>1, <1>2, <1>3, LenProperties

(* The running total of validate grows by the count of each group. *)
LEMMA RunningTotal ==
    ASSUME NEW c \in Configurations
    PROVE  /\ Aircraft(c, 0) = 0
           /\ \A i \in 1 .. Len(c.groups) :
                Aircraft(c, i) = Aircraft(c, i - 1) + c.groups[i].count
<1> DEFINE L == Len(c.groups)
           Unfold(f, n) == [i \in 0 .. n |-> IF i = 0 THEN 0 ELSE f[i - 1] + c.groups[i].count]
           total == CHOOSE f : f = [i \in 0 .. Len(c.groups) |->
                                        IF i = 0 THEN 0 ELSE f[i - 1] + c.groups[i].count]
<1>1. L \in Nat
  BY GroupsTyped
<1>2. \A i \in 0 .. L : Aircraft(c, i) = total[i]
  BY DEF Aircraft
<1>3. \A n \in 0 .. L : \E f : f = Unfold(f, n)
  <2> DEFINE Missing == {n \in 0 .. L : ~ \E f : f = Unfold(f, n)}
  <2>1. SUFFICES ASSUME Missing # {} PROVE FALSE
    OBVIOUS
  <2>2. Missing \in SUBSET Nat
    BY <1>1
  <2> HIDE DEF Missing
  <2>3. PICK n \in Missing : \A m \in Missing : n <= m
    BY <2>1, <2>2, Least
  <2>4. n \in 0 .. L /\ ~ \E f : f = Unfold(f, n)
    BY <2>3 DEF Missing
  <2>5. CASE n = 0
    <3> DEFINE f == [i \in 0 .. 0 |-> 0]
    <3>1. f = Unfold(f, 0)
      OBVIOUS
    <3>. QED
      BY <2>4, <2>5, <3>1
  <2>6. CASE n # 0
    <3>1. n - 1 \in 0 .. L /\ n \in 1 .. L /\ n \in Nat
      BY <1>1, <2>4, <2>6
    <3>2. n - 1 \notin Missing
      BY <2>3, <3>1
    <3>3. PICK g : g = Unfold(g, n - 1)
      BY <3>1, <3>2 DEF Missing
    <3> DEFINE f == [i \in 0 .. n |-> IF i = n THEN g[n - 1] + c.groups[n].count ELSE g[i]]
    <3>4. \A i \in 0 .. n - 1 : g[i] = IF i = 0 THEN 0 ELSE g[i - 1] + c.groups[i].count
      BY <3>3
    <3>5. \A i \in 0 .. n : f[i] = IF i = 0 THEN 0 ELSE f[i - 1] + c.groups[i].count
      <4> SUFFICES ASSUME NEW i \in 0 .. n
                   PROVE  f[i] = IF i = 0 THEN 0 ELSE f[i - 1] + c.groups[i].count
        OBVIOUS
      <4>1. CASE i = n
        BY <3>1, <4>1
      <4>2. CASE i # n /\ i = 0
        BY <3>1, <3>4, <4>2
      <4>3. CASE i # n /\ i # 0
        <5>1. i \in 0 .. n - 1 /\ i - 1 \in 0 .. n - 1 /\ i - 1 \in 0 .. n /\ i - 1 # n
          BY <3>1, <4>3
        <5>2. f[i] = g[i] /\ f[i - 1] = g[i - 1]
          BY <4>3, <5>1
        <5>. QED
          BY <3>4, <4>3, <5>1, <5>2
      <4>. QED
        BY <4>1, <4>2, <4>3
    <3>6. f = [i \in 0 .. n |-> f[i]]
      OBVIOUS
    <3> HIDE DEF f
    <3>7. f = Unfold(f, n)
      BY <3>5, <3>6
    <3>. QED
      BY <2>4, <3>7
  <2>. QED
    BY <2>5, <2>6
<1>4. total = Unfold(total, L)
  <2>1. \E f : f = Unfold(f, L)
    BY <1>1, <1>3
  <2>. QED
    BY <2>1
<1> HIDE DEF total
<1>5. \A i \in 0 .. L : total[i] = IF i = 0 THEN 0 ELSE total[i - 1] + c.groups[i].count
  BY <1>4
<1>6. Aircraft(c, 0) = 0
  BY <1>1, <1>2, <1>5
<1>7. ASSUME NEW i \in 1 .. L PROVE Aircraft(c, i) = Aircraft(c, i - 1) + c.groups[i].count
  <2>1. i \in 0 .. L /\ i - 1 \in 0 .. L /\ i # 0
    BY <1>1
  <2>. QED
    BY <1>2, <1>5, <2>1
<1>. QED
  BY <1>6, <1>7

(* It is a number, and never shrinks: a total that is too high anywhere is too high in the end. *)
LEMMA TotalGrows ==
    ASSUME NEW c \in Configurations
    PROVE  /\ \A i \in 0 .. Len(c.groups) : Aircraft(c, i) \in Nat
           /\ \A i, j \in 0 .. Len(c.groups) : i <= j => Aircraft(c, i) <= Aircraft(c, j)
<1> DEFINE L == Len(c.groups)
           total(i) == Aircraft(c, i)
<1>1. L \in Nat /\ \A i \in 1 .. L : c.groups[i].count \in Nat
  BY GroupsTyped
<1>2. total(0) = 0 /\ \A i \in 1 .. L : total(i) = total(i - 1) + c.groups[i].count
  BY RunningTotal
<1> HIDE DEF total, L
<1> DEFINE Wrong == {j \in 0 .. L : ~ (total(j) \in Nat /\ \A i \in 0 .. j : total(i) <= total(j))}
<1>3. ASSUME Wrong # {} PROVE FALSE
  <2>1. Wrong \in SUBSET Nat
    BY <1>1
  <2> HIDE DEF Wrong
  <2>2. PICK j \in Wrong : \A k \in Wrong : j <= k
    BY <1>3, <2>1, Least
  <2>3. j \in 0 .. L /\ ~ (total(j) \in Nat /\ \A i \in 0 .. j : total(i) <= total(j))
    BY <2>2 DEF Wrong
  <2>4. j # 0
    <3>1. total(0) \in Nat /\ \A i \in 0 .. 0 : total(i) <= total(0)
      BY <1>2
    <3>. QED
      BY <2>3, <3>1
  <2>5. j - 1 \in 0 .. L /\ j \in 1 .. L /\ j \in Nat
    BY <1>1, <2>3, <2>4
  <2>6. j - 1 \notin Wrong
    BY <2>2, <2>5
  <2>7. total(j - 1) \in Nat /\ \A i \in 0 .. j - 1 : total(i) <= total(j - 1)
    BY <2>5, <2>6 DEF Wrong
  <2>8. total(j) = total(j - 1) + c.groups[j].count /\ c.groups[j].count \in Nat
    BY <1>1, <1>2, <2>5
  <2>9. total(j) \in Nat /\ total(j - 1) <= total(j)
    BY <2>7, <2>8
  <2>10. ASSUME NEW i \in 0 .. j PROVE total(i) <= total(j)
    <3>1. CASE i = j
      BY <2>9, <3>1
    <3>2. CASE i # j
      <4>1. i \in 0 .. j - 1
        BY <2>5, <3>2
      <4>2. total(i) <= total(j - 1)
        BY <2>7, <4>1
      <4>3. i \notin Wrong /\ i \in 0 .. L
        <5>1. i \in 0 .. L /\ ~ (j <= i)
          BY <1>1, <2>5, <4>1
        <5>. QED
          BY <2>2, <5>1
      <4>4. total(i) \in Nat
        BY <4>3 DEF Wrong
      <4>. QED
        BY <2>7, <2>9, <4>2, <4>4
    <3>. QED
      BY <3>1, <3>2
  <2>. QED
    BY <2>3, <2>9, <2>10
<1>4. \A j \in 0 .. L : total(j) \in Nat /\ \A i \in 0 .. j : total(i) <= total(j)
  BY <1>3
<1>5. ASSUME NEW i \in 0 .. L, NEW j \in 0 .. L, i <= j PROVE total(i) <= total(j)
  BY <1>1, <1>4, <1>5
<1>. QED
  BY <1>4, <1>5 DEF total, L
(* A sequence without one of its elements. *)
LEMMA RemovedSeq ==
    ASSUME NEW S, NEW seq \in Seq(S), NEW k \in 1 .. Len(seq)
    PROVE  SubSeq(seq, 1, k - 1) \o SubSeq(seq, k + 1, Len(seq)) \in Seq(S)
<1> DEFINE before == k - 1
           behind == k + 1
           end == Len(seq)
<1>1. end \in Nat /\ \A i \in 1 .. end : seq[i] \in S
  BY LenProperties, ElementOfSeq
<1>2. /\ before \in Int /\ behind \in Int /\ end \in Int /\ 1 \in Int
      /\ \A i \in 1 .. before : i \in 1 .. end
      /\ \A i \in behind .. end : i \in 1 .. end
  BY <1>1
<1> HIDE DEF before, behind, end
<1>3. SubSeq(seq, 1, before) \in Seq(S)
  BY <1>1, <1>2, SubSeqProperties
<1>4. SubSeq(seq, behind, end) \in Seq(S)
  BY <1>1, <1>2, SubSeqProperties
<1>5. SubSeq(seq, 1, before) \o SubSeq(seq, behind, end) \in Seq(S)
  BY <1>3, <1>4, ConcatProperties
<1>. QED
  BY <1>5 DEF before, behind, end

(* What the shell has staged is a configuration. *)
StagedInv == staged \in Configurations

(* Every command stages a configuration, whatever it found staged. *)
LEMMA StagedTyped == FleetSpec => []StagedInv
<1>1. FleetInit => StagedInv
  <2>1. <<>> \in Seq(Groups) /\ "missing" \in Sites /\ MinPeriod \in Nat
    BY FleetAssumption DEF Sites
  <2>2. DefaultConfig \in Configurations
    BY <2>1 DEF DefaultConfig, Configurations
  <2>3. Stored \subseteq Configurations
    BY FleetAssumption
  <2>. QED
    BY <2>2, <2>3 DEF FleetInit, StagedInv
<1>2. ASSUME StagedInv, [FleetNext]_staged PROVE StagedInv'
  <2>0. staged \in Configurations
    BY <1>2 DEF StagedInv
  <2>1. ASSUME NEW groups \in Seq(Groups) PROVE [staged EXCEPT !.groups = groups] \in Configurations
    BY <2>0 DEF Configurations
  <2>2. CASE SiteSet
    BY <2>0, <2>2 DEF SiteSet, Configurations, Sites, StagedInv
  <2>3. CASE GroupAdd
    <3>1. PICK name \in Names, count \in Counts, protocol \in Protocols, transport \in Transports :
            staged' = [staged EXCEPT !.groups =
                        Append(staged.groups, Group(name, count, protocol, transport))]
      BY <2>3 DEF GroupAdd
    <3>2. Group(name, count, protocol, transport) \in Groups
      BY FleetAssumption DEF Group, Groups, None
    <3>3. Append(staged.groups, Group(name, count, protocol, transport)) \in Seq(Groups)
      BY <2>0, <3>2, GroupsTyped, AppendProperties
    <3>. QED
      BY <2>1, <3>1, <3>3 DEF StagedInv
  <2>4. CASE GroupClear
    <3>1. <<>> \in Seq(Groups)
      OBVIOUS
    <3>. QED
      BY <2>1, <2>4, <3>1 DEF GroupClear, StagedInv
  <2>5. ASSUME NEW name \in Names, GroupDelete(name) PROVE StagedInv'
    <3> DEFINE named == {i \in DOMAIN staged.groups : staged.groups[i].name = name}
               rest == SubSeq(staged.groups, 1, First(named) - 1)
                            \o SubSeq(staged.groups, First(named) + 1, Len(staged.groups))
    <3>1. named # {} /\ staged' = [staged EXCEPT !.groups = rest]
      BY <2>5 DEF GroupDelete
    <3>2. First(named) \in 1 .. Len(staged.groups)
      <4>1. named \in SUBSET Nat /\ named \subseteq 1 .. Len(staged.groups)
        BY <2>0, GroupsTyped
      <4> HIDE DEF named
      <4>. QED
        BY <3>1, <4>1, FirstIsLeast
    <3>3. rest \in Seq(Groups)
      BY <2>0, <3>2, GroupsTyped, RemovedSeq
    <3>. QED
      BY <2>1, <3>1, <3>3 DEF StagedInv
  <2>6. CASE UNCHANGED staged
    BY <1>2, <2>6 DEF StagedInv
  <2>. QED
    BY <1>2, <2>2, <2>3, <2>4, <2>5, <2>6 DEF FleetNext
<1>. QED
  BY <1>1, <1>2, PTL DEF FleetSpec

-----------------------------------------------------------------------------
(* What validate looks at in the groups of a configuration. *)
AllGroups(c) == {c.groups[i] : i \in DOMAIN c.groups}

(* A period of the list in Faults is wrong exactly if validate refuses it. *)
LEMMA WrongPeriods ==
    ASSUME NEW c \in Configurations
    PROVE  LET groups == {c.groups[i] : i \in DOMAIN c.groups}
               periods == {c.period} \cup ({g.period : g \in groups} \ {None})
                        \cup ((UNION {{g.overrides[k] : k \in Kinds} : g \in groups}) \ {None})
           IN  (\E p \in periods : p \notin MinPeriod .. MaxPeriod)
               <=> ~ ValidPeriod(c.period) \/ \E g \in groups : ~ GoodPeriods(g)
<1> DEFINE groups == {c.groups[i] : i \in DOMAIN c.groups}
           ofGroups == {g.period : g \in groups} \ {None}
           ofKinds == (UNION {{g.overrides[k] : k \in Kinds} : g \in groups}) \ {None}
           Wrong(p) == p \notin MinPeriod .. MaxPeriod
<1>1. \A g \in groups : g \in Groups
  BY GroupsTyped
<1>2. /\ c.period \in Nat
      /\ \A g \in Groups : g.period \in Nat \cup {None} /\ \A k \in Kinds : g.overrides[k] \in Nat \cup {None}
  BY DEF Configurations, Groups
<1>3. \A p \in Nat : Wrong(p) <=> ~ ValidPeriod(p)
  BY FleetAssumption DEF ValidPeriod
<1> HIDE DEF groups, Wrong
<1>4. (\E p \in ofGroups : Wrong(p)) <=> \E g \in groups : g.period # None /\ Wrong(g.period)
  OBVIOUS
<1>5. (\E p \in ofKinds : Wrong(p))
      <=> \E g \in groups : \E k \in Kinds : g.overrides[k] # None /\ Wrong(g.overrides[k])
  <2>1. ASSUME NEW p \in ofKinds, Wrong(p)
        PROVE  \E g \in groups : \E k \in Kinds : g.overrides[k] # None /\ Wrong(g.overrides[k])
    BY <2>1
  <2>2. ASSUME NEW g \in groups, NEW k \in Kinds, g.overrides[k] # None, Wrong(g.overrides[k])
        PROVE  \E p \in ofKinds : Wrong(p)
    <3>1. g.overrides[k] \in ofKinds
      BY <2>2
    <3>. QED
      BY <2>2, <3>1
  <2>. QED
    BY <2>1, <2>2
<1>6. ASSUME NEW g \in groups
      PROVE  ~ GoodPeriods(g) <=> \/ g.period # None /\ Wrong(g.period)
                                  \/ \E k \in Kinds : g.overrides[k] # None /\ Wrong(g.overrides[k])
  <2>1. g.period \in Nat \cup {None} /\ \A k \in Kinds : g.overrides[k] \in Nat \cup {None}
    BY <1>1, <1>2
  <2>. QED
    BY <1>3, <2>1 DEF GoodPeriods
<1> HIDE DEF ofGroups, ofKinds
<1>7. (\E p \in {c.period} \cup ofGroups \cup ofKinds : Wrong(p))
      <=> Wrong(c.period) \/ (\E p \in ofGroups : Wrong(p)) \/ (\E p \in ofKinds : Wrong(p))
  OBVIOUS
<1>8. Wrong(c.period) <=> ~ ValidPeriod(c.period)
  BY <1>2, <1>3
<1>9. (\E p \in {c.period} \cup ofGroups \cup ofKinds : Wrong(p))
      <=> ~ ValidPeriod(c.period) \/ \E g \in groups : ~ GoodPeriods(g)
  BY <1>4, <1>5, <1>6, <1>7, <1>8
<1>. QED
  BY <1>9 DEF groups, ofGroups, ofKinds, Wrong

(* What each fault of the list says, in the terms of the code. *)
LEMMA FaultsListed ==
    ASSUME NEW c \in Configurations
    PROVE  \A e : e \in Faults(c) <=>
                \/ e = "MissingSite" /\ c.site = "missing"
                \/ e = "InvalidSite" /\ c.site = "invalid"
                \/ e = "InvalidPeriod"
                   /\ (~ ValidPeriod(c.period) \/ \E g \in AllGroups(c) : ~ GoodPeriods(g))
                \/ e = "InvalidGroupName" /\ \E g \in AllGroups(c) : g.name = ""
                \/ e = "InvalidGroupCount" /\ \E g \in AllGroups(c) : g.count = 0
                \/ e = "DuplicateGroupName" /\ \E i \in DOMAIN c.groups : Repeats(c, i)
                \/ e = "UnsupportedCombination" /\ \E g \in AllGroups(c) : ~ Supported(g)
                \/ e = "InvalidTrajectory" /\ \E g \in AllGroups(c) : ~ g.goodTrajectory
                \/ e = "TooManyAircraft" /\ Aircraft(c, Len(c.groups)) > MaxAircraft
                \/ e = "NoAircraft" /\ Aircraft(c, Len(c.groups)) = 0
<1> DEFINE groups == {c.groups[i] : i \in DOMAIN c.groups}
           periods == {c.period} \cup ({g.period : g \in groups} \ {None})
                        \cup ((UNION {{g.overrides[k] : k \in Kinds} : g \in groups}) \ {None})
           noSite == c.site = "missing"
           badSite == c.site = "invalid"
           badPeriod == \E p \in periods : p \notin MinPeriod .. MaxPeriod
           noName == \E g \in groups : g.name = ""
           noCount == \E g \in groups : g.count = 0
           twice == \E i, j \in DOMAIN c.groups : i # j /\ c.groups[i].name = c.groups[j].name
           unsupported == \E g \in groups :
                g.wifiMode # "Beacon" \/ (g.protocol = "Gb46750" /\ g.transport \in BleTransports)
           badTrajectory == \E g \in groups : ~ g.goodTrajectory
           tooMany == Aircraft(c, Len(c.groups)) > MaxAircraft
           nobody == Aircraft(c, Len(c.groups)) = 0
           Fault(name, present) == IF present THEN {name} ELSE {}
<1>1. Faults(c) = UNION {
        Fault("MissingSite", noSite), Fault("InvalidSite", badSite),
        Fault("InvalidPeriod", badPeriod), Fault("InvalidGroupName", noName),
        Fault("InvalidGroupCount", noCount), Fault("DuplicateGroupName", twice),
        Fault("UnsupportedCombination", unsupported), Fault("InvalidTrajectory", badTrajectory),
        Fault("TooManyAircraft", tooMany), Fault("NoAircraft", nobody)}
  BY Zenon DEF Faults
<1>2. unsupported <=> \E g \in AllGroups(c) : ~ Supported(g)
  BY DEF Supported, AllGroups
<1>3. badPeriod <=> ~ ValidPeriod(c.period) \/ \E g \in AllGroups(c) : ~ GoodPeriods(g)
  BY WrongPeriods, Zenon DEF AllGroups
<1>4. twice <=> \E i \in DOMAIN c.groups : Repeats(c, i)
  <2>1. DOMAIN c.groups = 1 .. Len(c.groups) /\ Len(c.groups) \in Nat
    BY GroupsTyped
  <2>2. ASSUME twice PROVE \E i \in DOMAIN c.groups : Repeats(c, i)
    <3>1. PICK i, j \in DOMAIN c.groups : i # j /\ c.groups[i].name = c.groups[j].name
      BY <2>2
    <3>2. CASE i < j
      BY <2>1, <3>1, <3>2 DEF Repeats
    <3>3. CASE j < i
      BY <2>1, <3>1, <3>3 DEF Repeats
    <3>. QED
      BY <2>1, <3>1, <3>2, <3>3
  <2>3. ASSUME NEW i \in DOMAIN c.groups, Repeats(c, i) PROVE twice
    <3>1. PICK j \in 1 .. i - 1 : c.groups[j].name = c.groups[i].name
      BY <2>3 DEF Repeats
    <3>2. j \in DOMAIN c.groups /\ j # i
      BY <2>1, <3>1
    <3>. QED
      BY <3>1, <3>2
  <2>. QED
    BY <2>2, <2>3
<1>5. /\ noName <=> \E g \in AllGroups(c) : g.name = ""
      /\ noCount <=> \E g \in AllGroups(c) : g.count = 0
      /\ badTrajectory <=> \E g \in AllGroups(c) : ~ g.goodTrajectory
  BY DEF AllGroups
<1> HIDE DEF noSite, badSite, badPeriod, noName, noCount, twice, unsupported, badTrajectory,
             tooMany, nobody
<1>6. ASSUME NEW e
      PROVE  e \in Faults(c) <=>
                \/ e = "MissingSite" /\ noSite
                \/ e = "InvalidSite" /\ badSite
                \/ e = "InvalidPeriod" /\ badPeriod
                \/ e = "InvalidGroupName" /\ noName
                \/ e = "InvalidGroupCount" /\ noCount
                \/ e = "DuplicateGroupName" /\ twice
                \/ e = "UnsupportedCombination" /\ unsupported
                \/ e = "InvalidTrajectory" /\ badTrajectory
                \/ e = "TooManyAircraft" /\ tooMany
                \/ e = "NoAircraft" /\ nobody
  <2>1. e \in Faults(c) <=>
                \/ e \in Fault("MissingSite", noSite)
                \/ e \in Fault("InvalidSite", badSite)
                \/ e \in Fault("InvalidPeriod", badPeriod)
                \/ e \in Fault("InvalidGroupName", noName)
                \/ e \in Fault("InvalidGroupCount", noCount)
                \/ e \in Fault("DuplicateGroupName", twice)
                \/ e \in Fault("UnsupportedCombination", unsupported)
                \/ e \in Fault("InvalidTrajectory", badTrajectory)
                \/ e \in Fault("TooManyAircraft", tooMany)
                \/ e \in Fault("NoAircraft", nobody)
    <3> HIDE DEF Fault
    <3>. QED
      BY <1>1
  <2>2. /\ e \in Fault("MissingSite", noSite) <=> e = "MissingSite" /\ noSite
        /\ e \in Fault("InvalidSite", badSite) <=> e = "InvalidSite" /\ badSite
        /\ e \in Fault("InvalidPeriod", badPeriod) <=> e = "InvalidPeriod" /\ badPeriod
        /\ e \in Fault("InvalidGroupName", noName) <=> e = "InvalidGroupName" /\ noName
        /\ e \in Fault("InvalidGroupCount", noCount) <=> e = "InvalidGroupCount" /\ noCount
        /\ e \in Fault("DuplicateGroupName", twice) <=> e = "DuplicateGroupName" /\ twice
        /\ e \in Fault("UnsupportedCombination", unsupported) <=> e = "UnsupportedCombination" /\ unsupported
        /\ e \in Fault("InvalidTrajectory", badTrajectory) <=> e = "InvalidTrajectory" /\ badTrajectory
        /\ e \in Fault("TooManyAircraft", tooMany) <=> e = "TooManyAircraft" /\ tooMany
        /\ e \in Fault("NoAircraft", nobody) <=> e = "NoAircraft" /\ nobody
    OBVIOUS
  <2> HIDE DEF Fault
  <2>. QED
    BY <2>1, <2>2, Zenon
<1> DEFINE hasBadPeriod == ~ ValidPeriod(c.period) \/ \E g \in AllGroups(c) : ~ GoodPeriods(g)
           hasNoName == \E g \in AllGroups(c) : g.name = ""
           hasNoCount == \E g \in AllGroups(c) : g.count = 0
           hasTwice == \E i \in DOMAIN c.groups : Repeats(c, i)
           hasUnsupported == \E g \in AllGroups(c) : ~ Supported(g)
           hasBadTrajectory == \E g \in AllGroups(c) : ~ g.goodTrajectory
<1>7. /\ badPeriod <=> hasBadPeriod
      /\ noName <=> hasNoName
      /\ noCount <=> hasNoCount
      /\ twice <=> hasTwice
      /\ unsupported <=> hasUnsupported
      /\ badTrajectory <=> hasBadTrajectory
  BY <1>2, <1>3, <1>4, <1>5
<1> HIDE DEF hasBadPeriod, hasNoName, hasNoCount, hasTwice, hasUnsupported, hasBadTrajectory
<1>8. ASSUME NEW e
      PROVE  e \in Faults(c) <=>
                \/ e = "MissingSite" /\ noSite
                \/ e = "InvalidSite" /\ badSite
                \/ e = "InvalidPeriod" /\ hasBadPeriod
                \/ e = "InvalidGroupName" /\ hasNoName
                \/ e = "InvalidGroupCount" /\ hasNoCount
                \/ e = "DuplicateGroupName" /\ hasTwice
                \/ e = "UnsupportedCombination" /\ hasUnsupported
                \/ e = "InvalidTrajectory" /\ hasBadTrajectory
                \/ e = "TooManyAircraft" /\ tooMany
                \/ e = "NoAircraft" /\ nobody
  BY <1>6, <1>7, Zenon
<1>. QED
  BY <1>8, Zenon DEF noSite, badSite, tooMany, nobody, hasBadPeriod, hasNoName, hasNoCount,
        hasTwice, hasUnsupported, hasBadTrajectory

-----------------------------------------------------------------------------
(* The verdict of validate on one group names a fault of the configuration, or clears the group. *)
LEMMA VerdictOfGroup ==
    ASSUME NEW c \in Configurations, NEW i \in DOMAIN c.groups
    PROVE  /\ GroupVerdict(c, i) # "None" => GroupVerdict(c, i) \in Faults(c)
           /\ GroupVerdict(c, i) = "None" =>
                LET g == c.groups[i] IN
                /\ g.name # "" /\ g.count # 0 /\ ~ Repeats(c, i) /\ Supported(g)
                /\ g.goodTrajectory /\ GoodPeriods(g) /\ ~ TooMany(c, i)
<1> DEFINE g == c.groups[i]
<1>1. g \in AllGroups(c)
  BY DEF AllGroups
<1>2. TooMany(c, i) => Aircraft(c, Len(c.groups)) > MaxAircraft
  <2>1. i \in 0 .. Len(c.groups) /\ Len(c.groups) \in 0 .. Len(c.groups) /\ i <= Len(c.groups)
    BY GroupsTyped
  <2>2. /\ Aircraft(c, i) \in Nat /\ Aircraft(c, Len(c.groups)) \in Nat
        /\ Aircraft(c, i) <= Aircraft(c, Len(c.groups))
    BY <2>1, TotalGrows
  <2>. QED
    BY <2>2, FleetAssumption DEF TooMany
<1> DEFINE verdict == GroupVerdict(c, i)
<1>3. /\ verdict = "InvalidGroupName" => g.name = ""
      /\ verdict = "InvalidGroupCount" => g.count = 0
      /\ verdict = "DuplicateGroupName" => Repeats(c, i)
      /\ verdict = "UnsupportedCombination" => ~ Supported(g)
      /\ verdict = "InvalidTrajectory" => ~ g.goodTrajectory
      /\ verdict = "InvalidPeriod" => ~ GoodPeriods(g)
      /\ verdict = "TooManyAircraft" => TooMany(c, i)
      /\ verdict = "None" =>
            /\ g.name # "" /\ g.count # 0 /\ ~ Repeats(c, i) /\ Supported(g)
            /\ g.goodTrajectory /\ GoodPeriods(g) /\ ~ TooMany(c, i)
      /\ verdict \in {"InvalidGroupName", "InvalidGroupCount", "DuplicateGroupName", "InvalidPeriod",
            "UnsupportedCombination", "InvalidTrajectory", "TooManyAircraft", "None"}
  BY DEF GroupVerdict
<1> HIDE DEF verdict, g
<1>4. ASSUME verdict # "None" PROVE verdict \in Faults(c)
  <2>1. CASE verdict = "InvalidGroupName"
    BY <1>1, <1>3, <2>1, FaultsListed
  <2>2. CASE verdict = "InvalidGroupCount"
    BY <1>1, <1>3, <2>2, FaultsListed
  <2>3. CASE verdict = "DuplicateGroupName"
    BY <1>3, <2>3, FaultsListed
  <2>4. CASE verdict = "InvalidPeriod"
    BY <1>1, <1>3, <2>4, FaultsListed
  <2>5. CASE verdict = "UnsupportedCombination"
    BY <1>1, <1>3, <2>5, FaultsListed
  <2>6. CASE verdict = "InvalidTrajectory"
    BY <1>1, <1>3, <2>6, FaultsListed
  <2>7. CASE verdict = "TooManyAircraft"
    BY <1>2, <1>3, <2>7, FaultsListed
  <2>. QED
    BY <1>3, <1>4, <2>1, <2>2, <2>3, <2>4, <2>5, <2>6, <2>7
<1>. QED
  BY <1>3, <1>4 DEF verdict, g

(* The aircraft of groups whose total fits are as many as they are numbered: one through the total. *)
LEMMA AircraftFit ==
    ASSUME NEW c \in Configurations, c.groups # <<>>, ~ TooMany(c, Len(c.groups)),
           \A i \in DOMAIN c.groups : c.groups[i].count # 0
    PROVE  Cardinality(Expand(c)) \in 1 .. MaxAircraft
<1> DEFINE L == Len(c.groups)
           total(i) == Aircraft(c, i)
           count(i) == c.groups[i].count
<1>1. L \in Nat /\ L # 0 /\ DOMAIN c.groups = 1 .. L /\ \A i \in 1 .. L : count(i) \in Nat /\ count(i) # 0
  BY GroupsTyped, EmptySeq
<1>2. /\ \A i \in 0 .. L : total(i) \in Nat
      /\ \A i, j \in 0 .. L : i <= j => total(i) <= total(j)
  BY TotalGrows
<1>3. \A i \in 1 .. L : total(i) = total(i - 1) + count(i)
  BY RunningTotal
<1>4. total(L) <= MaxAircraft
  BY <1>1, <1>2, FleetAssumption DEF TooMany
<1>5. \A x \in Expand(c) :
        /\ x.group \in 1 .. L /\ x.instance \in 0 .. count(x.group) - 1
        /\ x = [group |-> x.group, instance |-> x.instance,
                identity |-> <<c.groups[x.group].name, x.instance, c.groups[x.group].protocol>>]
  BY <1>1 DEF Expand, Instances
<1>6. Expand(c) # {}
  <2>1. 1 \in DOMAIN c.groups /\ 0 \in Instances(c.groups[1])
    BY <1>1 DEF Instances
  <2>2. [group |-> 1, instance |-> 0, identity |-> <<c.groups[1].name, 0, c.groups[1].protocol>>]
            \in Expand(c)
    <3> DEFINE Of(i) == {[group |-> i, instance |-> n,
                    identity |-> <<c.groups[i].name, n, c.groups[i].protocol>>] :
                        n \in Instances(c.groups[i])}
    <3>1. [group |-> 1, instance |-> 0, identity |-> <<c.groups[1].name, 0, c.groups[1].protocol>>]
            \in Of(1)
      BY <2>1
    <3>2. Expand(c) = UNION {Of(i) : i \in DOMAIN c.groups}
      BY Zenon DEF Expand
    <3> HIDE DEF Of
    <3>. QED
      BY <2>1, <3>1, <3>2
  <2>. QED
    BY <2>2
<1> HIDE DEF L, total, count
<1> DEFINE number == [x \in Expand(c) |-> total(x.group - 1) + x.instance + 1]
<1>7. ASSUME NEW x \in Expand(c)
      PROVE  /\ x.group \in 1 .. L /\ number[x] \in Int
             /\ total(x.group - 1) < number[x] /\ number[x] <= total(x.group)
  <2>1. x.group \in 1 .. L /\ x.group - 1 \in 0 .. L /\ x.group \in 0 .. L
        /\ x.instance \in 0 .. count(x.group) - 1 /\ count(x.group) \in Nat
    BY <1>1, <1>5
  <2>2. /\ total(x.group - 1) \in Nat /\ total(x.group) \in Nat
        /\ total(x.group) = total(x.group - 1) + count(x.group)
    BY <1>2, <1>3, <2>1
  <2>3. number[x] = total(x.group - 1) + x.instance + 1
    OBVIOUS
  <2>. QED
    BY <2>1, <2>2, <2>3
<1>8. ASSUME NEW x \in Expand(c), NEW y \in Expand(c), number[x] = number[y] PROVE x = y
  <2>0. number[x] = total(x.group - 1) + x.instance + 1 /\ number[y] = total(y.group - 1) + y.instance + 1
    OBVIOUS
  <2> HIDE DEF number
  <2>1. ~ (x.group < y.group) /\ ~ (y.group < x.group)
    <3>1. ASSUME NEW a \in Expand(c), NEW b \in Expand(c), a.group < b.group
          PROVE  number[a] < number[b]
      <4>1. a.group \in 0 .. L /\ b.group - 1 \in 0 .. L /\ a.group <= b.group - 1
        <5>1. a.group \in 1 .. L /\ b.group \in 1 .. L
          BY <1>7
        <5>. QED
          BY <1>1, <3>1, <5>1
      <4>2. total(a.group) <= total(b.group - 1) /\ total(a.group) \in Nat /\ total(b.group - 1) \in Nat
        BY <1>2, <4>1
      <4>3. number[a] \in Int /\ number[b] \in Int
            /\ number[a] <= total(a.group) /\ total(b.group - 1) < number[b]
        BY <1>7
      <4>. QED
        BY <4>2, <4>3
    <3>2. number[x] \in Int /\ number[y] \in Int
      BY <1>7
    <3>. QED
      BY <1>8, <3>1, <3>2
  <2>2. x.group = y.group
    BY <1>1, <1>7, <2>1
  <2>3. x.instance \in Int /\ y.instance \in Int
    BY <1>1, <1>5
  <2>4. total(x.group - 1) \in Nat
    <3>1. x.group - 1 \in 0 .. L
      BY <1>1, <1>7
    <3>. QED
      BY <1>2, <3>1
  <2>5. x.instance = y.instance
    <3> DEFINE before == total(x.group - 1)
    <3>1. /\ before \in Nat
          /\ number[x] = before + x.instance + 1 /\ number[y] = before + y.instance + 1
      BY <2>0, <2>2, <2>4
    <3>2. before + x.instance + 1 = before + y.instance + 1
      BY <1>8, <3>1
    <3>3. \A m, i, j \in Int : m + i + 1 = m + j + 1 => i = j
      OBVIOUS
    <3> HIDE DEF before
    <3>. QED
      BY <2>3, <3>1, <3>2, <3>3
  <2>. QED
    BY <1>5, <2>2, <2>5
<1>9. ASSUME NEW x \in Expand(c) PROVE number[x] \in 1 .. total(L)
  <2>1. x.group \in 0 .. L /\ L \in 0 .. L /\ x.group <= L /\ x.group - 1 \in 0 .. L
    BY <1>1, <1>7
  <2>2. /\ total(x.group) <= total(L) /\ total(x.group) \in Nat /\ total(L) \in Nat
        /\ total(x.group - 1) \in Nat
    BY <1>2, <2>1
  <2>. QED
    BY <1>7, <2>2
<1>10. number \in Injection(Expand(c), 1 .. total(L))
  <2>1. number \in [Expand(c) -> 1 .. total(L)]
    BY <1>9
  <2> HIDE DEF number
  <2>. QED
    BY <1>8, <2>1, Fun_IsInj
<1> HIDE DEF number
<1>11. total(L) \in Nat
  BY <1>1, <1>2
<1>12. IsFiniteSet(1 .. total(L)) /\ Cardinality(1 .. total(L)) = total(L)
  BY <1>11, FS_Interval
<1>13. IsFiniteSet(Expand(c)) /\ Cardinality(Expand(c)) <= total(L)
  BY <1>10, <1>12, FS_Injection
<1>14. Cardinality(Expand(c)) \in Nat /\ Cardinality(Expand(c)) # 0
  BY <1>6, <1>13, FS_EmptySet, FS_CardinalityType
<1>. QED
  BY <1>4, <1>11, <1>13, <1>14, FleetAssumption

(* Groups of different names derive different identities. *)
LEMMA IdentitiesDiffer ==
    ASSUME NEW c \in Configurations, \A i \in DOMAIN c.groups : ~ Repeats(c, i),
           NEW x \in Expand(c), NEW y \in Expand(c), x.identity = y.identity
    PROVE  x = y
<1>1. DOMAIN c.groups = 1 .. Len(c.groups) /\ Len(c.groups) \in Nat
  BY GroupsTyped
<1>2. \A z \in Expand(c) :
        /\ z.group \in DOMAIN c.groups
        /\ z.identity = <<c.groups[z.group].name, z.instance, c.groups[z.group].protocol>>
        /\ z = [group |-> z.group, instance |-> z.instance, identity |-> z.identity]
  BY DEF Expand
<1>3. c.groups[x.group].name = c.groups[y.group].name /\ x.instance = y.instance
  BY <1>2
<1>4. ~ (x.group < y.group) /\ ~ (y.group < x.group)
  <2>1. x.group \in DOMAIN c.groups /\ y.group \in DOMAIN c.groups
    BY <1>2
  <2>. QED
    BY <1>1, <1>3, <2>1 DEF Repeats
<1>5. x.group = y.group
  BY <1>1, <1>2, <1>4
<1>. QED
  BY <1>2, <1>3, <1>5

(* Every period of a group without fault is within the limits, the default one included. *)
LEMMA PeriodsFit ==
    ASSUME NEW c \in Configurations, ValidPeriod(c.period),
           NEW i \in DOMAIN c.groups, GoodPeriods(c.groups[i]), NEW k \in Kinds
    PROVE  ValidPeriod(EffectivePeriod(c, c.groups[i], k))
<1> DEFINE g == c.groups[i]
<1>1. CASE g.overrides[k] # None
  BY <1>1 DEF EffectivePeriod, GoodPeriods
<1>2. CASE g.overrides[k] = None /\ g.period # None
  BY <1>2 DEF EffectivePeriod, GoodPeriods
<1>3. CASE g.overrides[k] = None /\ g.period = None
  BY <1>3 DEF EffectivePeriod, GoodPeriods
<1>. QED
  BY <1>1, <1>2, <1>3

(* VerdictIsRight of any configuration at all. *)
LEMMA ValidateIsRight ==
    ASSUME NEW c \in Configurations
    PROVE  IF Validate(c) = "None" THEN Faults(c) = {} /\ Fits(c) ELSE Validate(c) \in Faults(c)
<1> DEFINE faulty == {i \in DOMAIN c.groups : GroupVerdict(c, i) # "None"}
           L == Len(c.groups)
<1>1. L \in Nat /\ DOMAIN c.groups = 1 .. L
  BY GroupsTyped
<1>2. CASE c.site = "missing"
  BY <1>2, FaultsListed DEF Validate
<1>3. CASE c.site = "invalid"
  BY <1>3, FaultsListed DEF Validate
<1>4. CASE c.site \notin {"missing", "invalid"} /\ ~ ValidPeriod(c.period)
  BY <1>4, FaultsListed DEF Validate
<1>5. CASE c.site \notin {"missing", "invalid"} /\ ValidPeriod(c.period) /\ faulty # {}
  <2>1. Validate(c) = GroupVerdict(c, First(faulty))
    BY <1>5 DEF Validate
  <2>2. First(faulty) \in faulty
    <3>1. faulty \in SUBSET Nat
      BY <1>1
    <3> HIDE DEF faulty
    <3>. QED
      BY <1>5, <3>1, FirstIsLeast
  <2>. QED
    BY <2>1, <2>2, VerdictOfGroup
<1>6. CASE c.site \notin {"missing", "invalid"} /\ ValidPeriod(c.period) /\ faulty = {}
           /\ c.groups = <<>>
  <2>1. Validate(c) = "NoAircraft"
    BY <1>6 DEF Validate
  <2>2. Aircraft(c, L) = 0
    BY <1>6, RunningTotal, EmptySeq
  <2>. QED
    BY <2>1, <2>2, FaultsListed
<1>7. CASE c.site \notin {"missing", "invalid"} /\ ValidPeriod(c.period) /\ faulty = {}
           /\ c.groups # <<>>
  <2>1. Validate(c) = "None"
    BY <1>7 DEF Validate
  <2>2. ASSUME NEW i \in DOMAIN c.groups
        PROVE  /\ c.groups[i].name # "" /\ c.groups[i].count # 0 /\ ~ Repeats(c, i)
               /\ Supported(c.groups[i]) /\ c.groups[i].goodTrajectory /\ GoodPeriods(c.groups[i])
               /\ ~ TooMany(c, i)
    <3>1. GroupVerdict(c, i) = "None"
      BY <1>7
    <3>. QED
      BY <3>1, VerdictOfGroup
  <2>3. L \in DOMAIN c.groups /\ 1 \in DOMAIN c.groups
    BY <1>1, <1>7, EmptySeq, GroupsTyped
  <2>4. ~ (Aircraft(c, L) > MaxAircraft) /\ Aircraft(c, L) # 0
    <3>1. ~ (Aircraft(c, L) > MaxAircraft)
      BY <2>2, <2>3 DEF TooMany
    <3>2. c.groups[1].count \in Nat /\ c.groups[1].count # 0 /\ 1 \in 1 .. L
      BY <1>1, <2>2, <2>3, GroupsTyped
    <3>3. Aircraft(c, 1) = Aircraft(c, 1 - 1) + c.groups[1].count /\ Aircraft(c, 0) = 0
      BY <3>2, RunningTotal
    <3>4. 1 \in 0 .. L /\ L \in 0 .. L /\ 1 <= L
      BY <1>1, <3>2
    <3>5. Aircraft(c, 1) <= Aircraft(c, L) /\ Aircraft(c, L) \in Nat
      BY <3>4, TotalGrows
    <3>6. Aircraft(c, 1) # 0 /\ Aircraft(c, 1) \in Nat
      BY <3>2, <3>3
    <3>. QED
      BY <3>1, <3>5, <3>6
  <2>5. /\ ~ \E g \in AllGroups(c) : g.name = ""
        /\ ~ \E g \in AllGroups(c) : g.count = 0
        /\ ~ \E g \in AllGroups(c) : ~ Supported(g)
        /\ ~ \E g \in AllGroups(c) : ~ g.goodTrajectory
        /\ ~ \E g \in AllGroups(c) : ~ GoodPeriods(g)
        /\ ~ \E i \in DOMAIN c.groups : Repeats(c, i)
    BY <2>2 DEF AllGroups
  <2>6. \A e : e \notin Faults(c)
    BY <1>7, <2>4, <2>5, FaultsListed
  <2>7. Fits(c)
    BY <1>7, <2>2, <2>3, AircraftFit, IdentitiesDiffer, PeriodsFit DEF Fits
  <2>. QED
    BY <2>1, <2>6, <2>7
<1>. QED
  BY <1>2, <1>3, <1>4, <1>5, <1>6, <1>7

(* Whatever sequence of commands led to the staged configuration, and whatever flash held when it *)
(* began, validate accepts it exactly if nothing of the list is wrong with it: its one pass over a  *)
(* growing total misses no fault, reports none that is not there, and what it accepts fits the       *)
(* runtime, for every limit (config.cpp:45-104, shell.cpp:214-258).                                  *)
THEOREM VerdictHolds == FleetSpec => []VerdictIsRight
<1>1. StagedInv => VerdictIsRight
  BY ValidateIsRight DEF StagedInv, VerdictIsRight
<1>. QED
  BY <1>1, StagedTyped, PTL

=============================================================================
