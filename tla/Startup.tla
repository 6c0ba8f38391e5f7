------------------------------- MODULE Startup -------------------------------
(***************************************************************************)
(* The boot of the device: app_main (main.c) starts the demos, the         *)
(* coreMQTT-Agent manager (xCoreMqttAgentManagerStart) and WiFi            *)
(* (app_wifi.c), and each of them runs as soon as it is created, next to   *)
(* app_main and to what was started before it.                             *)
(*                                                                         *)
(* The tasks are those of ConnectionManager, from the moment that app_main *)
(* creates them, and the event loop calls a handler once it is registered. *)
(* ConnectionManager assumes a manager that has been started and that no   *)
(* event escapes: StartsManager says that booting gets there.              *)
(***************************************************************************)
EXTENDS ConnectionManager

VARIABLES
    mainPc,         \* where app_main is
    created,        \* the event loop, the agent's context and the tasks
    handlers,       \* the event handlers registered with the event loop
    tempPc,         \* prvTempSubPubAndLEDControlTask, up to its first wait
    tempConnected,  \* its CORE_MQTT_AGENT_CONNECTED_BIT
    credentials,    \* those of the access point that NVS keeps
    provisioning,   \* the provisioning manager is in use
    station,        \* what the WiFi station has been asked to do
    wifiBit         \* WIFI_CONNECTED_EVENT of app_wifi.c's event group

bootVars == <<mainPc, created, handlers, tempPc, tempConnected, credentials,
              provisioning, station, wifiBit>>
wifiVars == <<credentials, provisioning, station, wifiBit>>
allVars  == <<vars, bootVars>>

MainPcs == {"networkContext", "nvs", "eventLoop", "subPubDemo", "tempDemo",
            "otaDemo", "managerHandlers", "agentInit", "agentTask",
            "connectionTask", "setDisconnected", "wifiInit", "wifiStart",
            "waitWifi", "done", "returned", "aborted"}
Created  == {"eventLoop", "agentContext", "tempTask", "agentTask",
             "connectionTask"}
Handlers == {"subPub", "temp", "ota", "manager", "managerWifi", "appWifi"}

\* NVS is as the last run of the device left it.
StartupInit ==
    /\ bits = {}
    /\ TasksInit
    /\ mainPc = "networkContext"
    /\ created = {}
    /\ handlers = {}
    /\ tempPc = "created"
    /\ tempConnected = FALSE
    /\ credentials \in {"none", "good", "bad"}
    /\ provisioning = FALSE
    /\ station = "off"
    /\ wifiBit = FALSE

-----------------------------------------------------------------------------
(* app_main and prvStartEnabledDemos.                                      *)

MainGoto(from, to) == mainPc = from /\ mainPc' = to

Create(object) == created' = created \cup {object}

\* esp_event_handler_instance_register fails without the loop, and the demos
\* do not look at its result.
Register(hs) == handlers' = IF "eventLoop" \in created THEN handlers \cup hs
                                                       ELSE handlers

\* prvInitializeNetworkContext: without an endpoint, a name, a certificate, a
\* key or memory for the mutex app_main returns, and nothing is ever started.
InitializeNetworkContext(success) ==
    /\ MainGoto("networkContext", IF success THEN "nvs" ELSE "returned")
    /\ UNCHANGED <<vars, created, handlers, tempPc, tempConnected, wifiVars>>

\* A partition that NVS cannot read is erased, credentials included.
InitializeNvs(readable) ==
    /\ MainGoto("nvs", "eventLoop")
    /\ credentials' = IF readable THEN credentials ELSE "none"
    /\ UNCHANGED <<vars, created, handlers, tempPc, tempConnected, provisioning,
                   station, wifiBit>>

CreateEventLoop ==
    /\ MainGoto("eventLoop", "subPubDemo")
    /\ Create("eventLoop")
    /\ UNCHANGED <<vars, handlers, tempPc, tempConnected, wifiVars>>

\* Mutant of StartSubPubDemo: as in the temperature demo, the handler is left to
\* the tasks, which may not have run when the first event comes.
StartSubPubDemoUnregistered ==
    /\ MainGoto("subPubDemo", "tempDemo")
    /\ UNCHANGED <<vars, created, handlers, tempPc, tempConnected, wifiVars>>

\* Its tasks wait for the bit that the handler sets.
StartSubPubDemo ==
    /\ MainGoto("subPubDemo", "tempDemo")
    /\ Register({"subPub"})
    /\ UNCHANGED <<vars, created, tempPc, tempConnected, wifiVars>>

\* Only the task is created here: it registers its handler itself.
StartTempDemo ==
    /\ MainGoto("tempDemo", "otaDemo")
    /\ Create("tempTask")
    /\ UNCHANGED <<vars, handlers, tempPc, tempConnected, wifiVars>>

\* Not started if the code signing certificate is refused.
StartOtaDemo(certified) ==
    /\ IF certified
          THEN Register({"ota"})
          ELSE UNCHANGED handlers
    /\ MainGoto("otaDemo", "managerHandlers")
    /\ UNCHANGED <<vars, created, tempPc, tempConnected, wifiVars>>

-----------------------------------------------------------------------------
(* xCoreMqttAgentManagerStart.                                             *)

ManagerUnchanged == UNCHANGED <<vars, tempPc, tempConnected, wifiVars>>

\* Mutant of RegisterManager: nothing is registered for WiFi and IP events.
RegisterManagerOnly ==
    /\ MainGoto("managerHandlers", "agentInit")
    /\ Register({"manager"})
    /\ ManagerUnchanged /\ UNCHANGED created

\* The event group, and a handler each for agent, IP and WiFi events.
RegisterManager ==
    /\ MainGoto("managerHandlers", "agentInit")
    /\ Register({"manager", "managerWifi"})
    /\ ManagerUnchanged /\ UNCHANGED created

\* prvCoreMqttAgentInit.
InitializeAgent ==
    /\ MainGoto("agentInit", "agentTask")
    /\ Create("agentContext")
    /\ ManagerUnchanged /\ UNCHANGED handlers

CreateAgentTask ==
    /\ MainGoto("agentTask", "connectionTask")
    /\ Create("agentTask")
    /\ ManagerUnchanged /\ UNCHANGED handlers

CreateConnectionTask ==
    /\ MainGoto("connectionTask", "setDisconnected")
    /\ Create("connectionTask")
    /\ ManagerUnchanged /\ UNCHANGED handlers

\* Mutant of SetDisconnected: the state that the connection task waits for.
SetNothing ==
    /\ MainGoto("setDisconnected", "wifiInit")
    /\ UNCHANGED <<vars, created, handlers, tempPc, tempConnected, wifiVars>>

SetDisconnected ==
    /\ MainGoto("setDisconnected", "wifiInit")
    /\ bits' = bits \cup {"DISCONNECTED"}
    /\ connPc' = ConnWoken(bits')
    /\ UNCHANGED <<eventQueue, loopVars, agentPc, tls, xCleanSession,
                   processLoops, notified, envVars, created, handlers, tempPc,
                   tempConnected, wifiVars>>

\* Out of memory: app_main asserts that the OTA task could be created, and that
\* no step of the manager's start failed.
AssertionFails ==
    /\ mainPc \in {"otaDemo", "managerHandlers", "agentInit", "agentTask",
                   "connectionTask"}
    /\ mainPc' = "aborted"
    /\ UNCHANGED <<vars, created, handlers, tempPc, tempConnected, wifiVars>>

-----------------------------------------------------------------------------
(* app_wifi_init and app_wifi_start.                                       *)

InitializeWifi ==
    /\ MainGoto("wifiInit", "wifiStart")
    /\ Register({"appWifi"})
    /\ UNCHANGED <<vars, created, tempPc, tempConnected, wifiVars>>

\* wifi_init_sta: STA_START is posted.
StartStation ==
    /\ credentials # "none"
    /\ MainGoto("wifiStart", "waitWifi")
    /\ station' = "started"
    /\ UNCHANGED <<vars, created, handlers, tempPc, tempConnected, credentials,
                   provisioning, wifiBit>>

\* get_device_pop: the proof of possession is made of the MAC address, or of the
\* random bytes that claiming has left in NVS.
DevicePop(popType, macRead, randomBytes) ==
    CASE popType = "POP_TYPE_MAC"    -> macRead
      [] popType = "POP_TYPE_RANDOM" -> randomBytes >= 4

\* Without a proof of possession, or an identifier for the Bluetooth service,
\* app_wifi_start returns an error, which app_main does not look at.
StartProvisioning(macRead, uuidSet) ==
    /\ credentials = "none"
    /\ IF DevicePop("POP_TYPE_MAC", macRead, 0) /\ uuidSet
          THEN MainGoto("wifiStart", "waitWifi") /\ provisioning' = TRUE
          ELSE MainGoto("wifiStart", "done") /\ UNCHANGED provisioning
    /\ UNCHANGED <<vars, created, handlers, tempPc, tempConnected, credentials,
                   station, wifiBit>>

\* vWaitOnWifiConnected.
WaitOnWifiConnected ==
    /\ wifiBit
    /\ MainGoto("waitWifi", "done")
    /\ UNCHANGED <<vars, created, handlers, tempPc, tempConnected, wifiVars>>

StartDemos ==
    \/ StartSubPubDemo \/ StartTempDemo
    \/ \E certified \in BOOLEAN : StartOtaDemo(certified)
StartManager ==
    \/ RegisterManager \/ InitializeAgent \/ CreateAgentTask
    \/ CreateConnectionTask \/ SetDisconnected \/ AssertionFails
StartWifi ==
    \/ InitializeWifi \/ StartStation \/ WaitOnWifiConnected
    \/ \E macRead, uuidSet \in BOOLEAN : StartProvisioning(macRead, uuidSet)

Main ==
    \/ \E success \in BOOLEAN : InitializeNetworkContext(success)
    \/ \E readable \in BOOLEAN : InitializeNvs(readable)
    \/ CreateEventLoop \/ StartDemos \/ StartManager \/ StartWifi

-----------------------------------------------------------------------------
(* prvTempSubPubAndLEDControlTask.                                         *)

TempGoto(from, to) ==
    /\ "tempTask" \in created
    /\ tempPc = from /\ tempPc' = to
    /\ UNCHANGED <<vars, mainPc, created, tempConnected, wifiVars>>

TempRegisters ==
    /\ TempGoto("created", "subscribing")
    /\ Register({"temp"})

\* Until MQTTAgent_Init has been called MQTTAgent_Subscribe returns an error,
\* and the task calls it again, without a pause.
TempSubscribes ==
    /\ "agentContext" \in created
    /\ TempGoto("subscribing", "waiting")
    /\ UNCHANGED handlers

Temp == TempRegisters \/ TempSubscribes

-----------------------------------------------------------------------------
(* The event loop: an event goes to the handlers registered by then.       *)

loopUnchanged == <<mainPc, created, handlers, tempPc, credentials, provisioning>>

IfRegistered(h, Handle, event) ==
    IF h \in handlers
    THEN Handle
    ELSE Dispatch(event) /\ UNCHANGED <<loopLocal, loopVars, bits, connPc>>

LoopGotIp ==
    /\ IfRegistered("managerWifi", HandleGotIp, "GotIp")
    /\ wifiBit' = (wifiBit \/ "appWifi" \in handlers)
    /\ UNCHANGED <<loopUnchanged, tempConnected, station>>

\* Mutant of LoopStaDisconnected: the access point is asked for only once.
LoopStaDisconnectedGivesUp ==
    /\ IfRegistered("managerWifi", HandleStaDisconnected, "StaDisconnected")
    /\ UNCHANGED <<loopUnchanged, tempConnected, station, wifiBit>>

\* esp_wifi_connect, once more.
LoopStaDisconnected ==
    /\ IfRegistered("managerWifi", HandleStaDisconnected, "StaDisconnected")
    /\ station' = IF "appWifi" \in handlers THEN "joining" ELSE station
    /\ UNCHANGED <<loopUnchanged, tempConnected, wifiBit>>

LoopConnected ==
    /\ IfRegistered("subPub", HandleConnected, "Connected")
    /\ tempConnected' = (tempConnected \/ "temp" \in handlers)
    /\ UNCHANGED <<loopUnchanged, station, wifiBit>>

LoopDisconnected ==
    /\ IfRegistered("manager", HandleDisconnected, "Disconnected")
    /\ tempConnected' = (tempConnected /\ "temp" \notin handlers)
    /\ UNCHANGED <<loopUnchanged, station, wifiBit>>

LoopHandlerGoesOn ==
    /\ HandlerClearConnected \/ HandlerSetDisconnected
    /\ UNCHANGED bootVars

\* STA_START is the first event of WiFi, so it needs no place in the queue.
LoopStaStart ==
    /\ loopPc = "idle" /\ station = "started"
    /\ station' = IF "appWifi" \in handlers THEN "joining" ELSE "idle"
    /\ UNCHANGED <<vars, loopUnchanged, tempConnected, wifiBit>>

\* WIFI_PROV_END, posted once the station has joined with new credentials.
LoopProvEnd ==
    /\ loopPc = "idle" /\ provisioning /\ wifiBit
    /\ provisioning' = FALSE
    /\ UNCHANGED <<vars, mainPc, created, handlers, tempPc, tempConnected,
                   credentials, station, wifiBit>>

Loop ==
    \/ LoopGotIp \/ LoopStaDisconnected \/ LoopConnected \/ LoopDisconnected
    \/ LoopHandlerGoesOn \/ LoopStaStart \/ LoopProvEnd

-----------------------------------------------------------------------------
(* The user, the access point and the peer.                                *)

netBootUnchanged == <<mainPc, created, handlers, tempPc, tempConnected,
                      provisioning, wifiBit>>

\* The provisioning manager stores what it is given before it tries it.
UserProvisions(given) ==
    /\ provisioning /\ credentials = "none"
    /\ credentials' = given
    /\ station' = "joining"
    /\ UNCHANGED <<vars, netBootUnchanged>>

\* Nothing orders this with what the temperature task has done by then.
StationJoins ==
    /\ station = "joining" /\ credentials = "good"
    /\ WifiJoins
    /\ station' = "idle"
    /\ UNCHANGED <<netBootUnchanged, credentials>>

StationFailsToJoin ==
    /\ station = "joining"
    /\ WifiFailsToJoin
    /\ station' = "idle"
    /\ UNCHANGED <<netBootUnchanged, credentials>>

Peer ==
    \/ \E given \in {"good", "bad"} : UserProvisions(given)
    \/ StationFailsToJoin
    \/ (WifiDrops \/ SocketBreaks) /\ UNCHANGED bootVars

-----------------------------------------------------------------------------
Connection ==
    "connectionTask" \in created /\ (ConnAttempt \/ ConnWatch) /\ UNCHANGED bootVars
CommandLoop == "agentTask" \in created /\ Agent /\ UNCHANGED bootVars

\* Nothing runs after a failed assertion, or has anything to do if app_main gave
\* up, or could not start provisioning.
Halted ==
    /\ \/ mainPc \in {"returned", "aborted"}
       \/ mainPc = "done" /\ credentials = "none"
    /\ UNCHANGED allVars

StartupNext ==
    \/ /\ mainPc # "aborted"
       /\ Main \/ Temp \/ Connection \/ CommandLoop \/ Loop \/ StationJoins \/ Peer
    \/ Halted

StartupSpec == StartupInit /\ [][StartupNext]_allVars

\* As in ConnectionManager; app_main, the demo's task and the tasks of the
\* manager share the processor.  All wait for something but the demo's task, whose
\* subscribe spins until the agent is initialised: app_main still comes to run as
\* the default priority of the demo is that of app_main.
Running(A) == mainPc # "aborted" /\ A
StartupFairness ==
    /\ WF_allVars(Running(Main)) /\ WF_allVars(Running(Temp))
    /\ WF_allVars(Running(Connection)) /\ WF_allVars(Running(CommandLoop))
    /\ WF_allVars(Running(Loop)) /\ SF_allVars(Running(StationJoins))

StartupFairSpec == StartupSpec /\ StartupFairness

-----------------------------------------------------------------------------
\* Every variable of the boot keeps its type, as do those of the manager.
StartupTypeOK ==
    /\ TypeOK
    /\ mainPc \in MainPcs
    /\ created \subseteq Created /\ handlers \subseteq Handlers
    /\ tempPc \in {"created", "subscribing", "waiting"}
    /\ tempConnected \in BOOLEAN
    /\ credentials \in {"none", "good", "bad"}
    /\ provisioning \in BOOLEAN
    /\ station \in {"off", "started", "idle", "joining"}
    /\ wifiBit \in BOOLEAN

\* "This needs to be done before starting WiFi ... so demos can register their
\* coreMQTT-Agent event handlers before events happen" (main.c:359).  What the
\* code keeps of it: the handlers that app_main's own calls register in every boot
\* are there before there can be an event of any kind.  The OTA demo's is left
\* out, as it is registered only with a certificate for the image (StartOtaDemo).
\* The temperature demo's is not among them: its task registers it, and may come
\* to run after the first connection has been announced (TempListens).
RegisteredBeforeEvents ==
    eventQueue # <<>> \/ station # "off" =>
        {"subPub", "manager", "managerWifi", "appWifi"} \subseteq handlers

\* app_main's last step of starting the manager sets DISCONNECTED.  Until then
\* no task can tell the difference: the boot, with its tasks appearing one at a
\* time and its handlers registered one at a time, implements ConnectionManager.
BitsOnceStarted ==
    IF mainPc \in {"wifiInit", "wifiStart", "waitWifi", "done"}
    THEN bits ELSE bits \cup {"DISCONNECTED"}
Manager == INSTANCE ConnectionManager WITH bits <- BitsOnceStarted
StartsManager == Manager!Spec

\* What no code recovers from: a failed boot, or credentials that do not serve.
CannotJoin == mainPc \in {"returned", "aborted"} \/ credentials # "good"

\* The temperature task has registered its handler when the announcement of a
\* connection is the event loop's next: nothing in the code sees to it.
TempListens ==
    eventQueue # <<>> /\ Head(eventQueue) = "Connected" => "temp" \in handlers

\* A device with credentials boots into a connection in service, whatever the
\* order in which the tasks it starts come to run.  That the temperature demo
\* knows of the connection is promised only if its task was listening each time
\* one was announced: if it was late, it waits for the next connection.
BootsIntoService ==
    <>[][HandshakeIsSlow]_vars =>
        \/ /\ <>[](InService /\ tempPc = "waiting")
           /\ []TempListens => <>[]tempConnected
        \/ <>[]CannotJoin
=============================================================================
