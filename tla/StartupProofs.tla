---------------------------- MODULE StartupProofs ----------------------------
(***************************************************************************)
(* What holds of the boot for every capacity and any number of faults: the *)
(* handlers are there before the first event, and from the outside the     *)
(* start of the manager cannot be told from a manager that was started.    *)
(***************************************************************************)
EXTENDS Startup, ConnectionManagerProofs

Started     == mainPc \in {"wifiInit", "wifiStart", "waitWifi", "done"}
WifiStarted == mainPc \in {"waitWifi", "done"}

\* The station has never had an address, so no connection was ever attempted and
\* no event posted.
Offline ==
    /\ bits \subseteq {"DISCONNECTED"}
    /\ eventQueue = <<>>
    /\ loopPc = "idle"
    /\ agentPc \in {"waitBits", "blocked"}
    /\ connPc \in {"waitBits", "blocked"}
    /\ tls = "none"
    /\ ~wifi

\* What app_main has done by the time it is where it is.
SubPubRegistered  == mainPc \in {"tempDemo", "otaDemo", "managerHandlers",
                                 "agentInit", "agentTask", "connectionTask",
                                 "setDisconnected"} \/ Started
ManagerRegistered == mainPc \in {"agentInit", "agentTask", "connectionTask",
                                 "setDisconnected"} \/ Started
LoopCreated       == mainPc = "subPubDemo" \/ SubPubRegistered
Progress ==
    /\ LoopCreated => "eventLoop" \in created
    /\ SubPubRegistered => "subPub" \in handlers
    /\ ManagerRegistered => {"manager", "managerWifi"} \subseteq handlers
    /\ WifiStarted \/ mainPc = "wifiStart" => "appWifi" \in handlers

\* Nothing happens before app_main has made it possible.
Quiet ==
    /\ ~WifiStarted => Offline /\ station = "off" /\ ~provisioning
    /\ ~Started => bits = {}

Boot == Progress /\ Quiet

-----------------------------------------------------------------------------
LEMMA BootInit == StartupInit => Boot
BY DEF StartupInit, TasksInit, Boot, Progress, Quiet, Offline, Started,
       WifiStarted, SubPubRegistered, ManagerRegistered,
       LoopCreated

\* While the station has had no address the tasks of the manager can only come
\* to their first wait.
LEMMA OfflineTasks ==
  ASSUME Offline, ConnAttempt \/ ConnWatch \/ Agent
  PROVE  UNCHANGED bits /\ Offline'
<1> USE DEF Offline, loopVars, envVars
<1>1. CASE ConnAttempt
  <2>1. ConnWaitBits
    BY <1>1
       DEF ConnAttempt, ConnTeardown, ConnTlsConnect, ConnMqttConnect,
           ConnResumeSession, ConnResubscribe, ConnAttemptFails, ConnBackoff,
           ConnGoto
  <2> QED
    BY <2>1 DEF ConnWaitBits, ConnGoto, shared, ReadyToConnect
<1>2. CASE ConnWatch
  BY <1>2
     DEF ConnWatch, ConnClearDisconnected, ConnSetConnected, ConnPostConnected,
         ConnLeaveWatch, ConnReadable, ConnNotified, ConnNotifyTimeout,
         ConnSocketError, ConnClearConnected, ConnSetDisconnected,
         ConnPostDisconnected, ConnGoto
<1>3. CASE Agent
  <2>1. AgentWaitBits
    BY <1>3
       DEF Agent, AgentProcessLoop, AgentLoopFails, AgentClearConnected,
           AgentSetDisconnected, AgentPostDisconnected, AgentGoto
  <2> QED
    BY <2>1 DEF AgentWaitBits, AgentGoto, agentLocal, ReadyToRun
<1> QED
  BY <1>1, <1>2, <1>3

\* The only step of app_main that touches what belongs to the manager's tasks
\* sets DISCONNECTED.
LEMMA MainChanges ==
  ASSUME Main
  PROVE  UNCHANGED vars \/ SetDisconnected
BY DEF Main, StartDemos, StartManager, StartWifi, InitializeNetworkContext,
       InitializeNvs, CreateEventLoop, StartSubPubDemo, StartTempDemo,
       StartOtaDemo, RegisterManager, InitializeAgent, CreateAgentTask,
       CreateConnectionTask, AssertionFails, InitializeWifi, StartStation,
       StartProvisioning, WaitOnWifiConnected, ManagerUnchanged

\* A step of app_main keeps its own order, and starts nothing too early.
LEMMA MainStep ==
  ASSUME Boot, Main
  PROVE  Boot'
<1> USE DEF Boot, Progress, Quiet, Started, WifiStarted, SubPubRegistered,
            ManagerRegistered, LoopCreated, MainGoto
<1>1. CASE UNCHANGED vars
  <2>1. Offline' = Offline /\ bits' = bits
    BY <1>1 DEF vars, loopVars, envVars, Offline
  <2> SUFFICES ASSUME ~SetDisconnected PROVE Boot'
    BY <1>1, <2>1 DEF SetDisconnected, Offline
  <2>2. CASE \E success \in BOOLEAN : InitializeNetworkContext(success)
    BY <2>1, <2>2 DEF InitializeNetworkContext, wifiVars
  <2>3. CASE \E readable \in BOOLEAN : InitializeNvs(readable)
    BY <2>1, <2>3 DEF InitializeNvs
  <2>4. CASE CreateEventLoop
    BY <2>1, <2>4 DEF CreateEventLoop, Create, wifiVars
  <2>5. CASE StartSubPubDemo
    BY <2>1, <2>5 DEF StartSubPubDemo, Register, wifiVars
  <2>6. CASE StartTempDemo
    BY <2>1, <2>6 DEF StartTempDemo, Create, wifiVars
  <2>7. CASE \E certified \in BOOLEAN : StartOtaDemo(certified)
    BY <2>1, <2>7 DEF StartOtaDemo, Register, wifiVars
  <2>8. CASE RegisterManager
    BY <2>1, <2>8 DEF RegisterManager, Register, ManagerUnchanged, wifiVars
  <2>9. CASE InitializeAgent
    BY <2>1, <2>9 DEF InitializeAgent, Create, ManagerUnchanged, wifiVars
  <2>10. CASE CreateAgentTask
    BY <2>1, <2>10 DEF CreateAgentTask, Create, ManagerUnchanged, wifiVars
  <2>11. CASE CreateConnectionTask
    BY <2>1, <2>11 DEF CreateConnectionTask, Create, ManagerUnchanged, wifiVars
  <2>12. CASE AssertionFails
    BY <2>1, <2>12 DEF AssertionFails, wifiVars
  <2>13. CASE InitializeWifi
    BY <2>1, <2>13 DEF InitializeWifi, Register, wifiVars
  <2>14. CASE StartStation
    BY <2>1, <2>14 DEF StartStation
  <2>15. CASE \E macRead, uuidSet \in BOOLEAN : StartProvisioning(macRead, uuidSet)
    BY <2>1, <2>15 DEF StartProvisioning
  <2>16. CASE WaitOnWifiConnected
    BY <2>1, <2>16 DEF WaitOnWifiConnected, wifiVars
  <2> QED
    BY <2>2, <2>3, <2>4, <2>5, <2>6, <2>7, <2>8, <2>9, <2>10, <2>11, <2>12,
       <2>13, <2>14, <2>15, <2>16
       DEF Main, StartDemos, StartManager, StartWifi
<1>2. CASE SetDisconnected
  <2>1. bits = {} /\ bits' = {"DISCONNECTED"} /\ Offline
    BY <1>2 DEF SetDisconnected
  <2>2. Offline'
    BY <1>2, <2>1
       DEF SetDisconnected, Offline, ConnWoken, ReadyToConnect, loopVars, envVars
  <2> QED
    BY <1>2, <2>1, <2>2 DEF SetDisconnected, wifiVars
<1> QED
  BY <1>1, <1>2, MainChanges

\* The event loop has nothing to do before WiFi is started.
LEMMA LoopStep ==
  ASSUME Boot, Loop
  PROVE  /\ WifiStarted
         /\ UNCHANGED <<mainPc, created, handlers, tempPc>>
<1>1. UNCHANGED <<mainPc, created, handlers, tempPc>>
  BY DEF Loop, LoopGotIp, LoopStaDisconnected, LoopConnected, LoopDisconnected,
         LoopHandlerGoesOn, LoopStaStart, LoopProvEnd, loopUnchanged, bootVars
<1>2. WifiStarted
  <2> SUFFICES ASSUME ~WifiStarted PROVE FALSE
    OBVIOUS
  <2>1. eventQueue = <<>> /\ loopPc = "idle" /\ station = "off" /\ ~provisioning
    BY DEF Boot, Quiet, Offline
  <2>2. \A event \in Events : ~Dispatch(event)
    BY <2>1 DEF Dispatch
  <2> QED
    BY <2>1, <2>2
       DEF Loop, LoopGotIp, LoopStaDisconnected, LoopConnected,
           LoopDisconnected, LoopHandlerGoesOn, LoopStaStart, LoopProvEnd,
           IfRegistered, HandleGotIp, HandleStaDisconnected, HandleConnected,
           HandleDisconnected, HandlerClearConnected, HandlerSetDisconnected,
           Events
<1> QED
  BY <1>1, <1>2

\* Nor has the station.
LEMMA StationStep ==
  ASSUME Boot, StationJoins
  PROVE  WifiStarted
BY DEF Boot, Quiet, StationJoins

\* Every step of the boot keeps its order, and nobody is called too early.
LEMMA BootStep ==
  ASSUME Boot, [StartupNext]_allVars
  PROVE  Boot'
<1>1. CASE Main
  BY <1>1, MainStep
<1>2. CASE Temp
  <2>1. /\ UNCHANGED <<vars, mainPc, created, wifiVars>>
        /\ handlers \subseteq handlers'
    BY <1>2 DEF Temp, TempRegisters, TempSubscribes, TempGoto, Register
  <2>2. Offline' = Offline /\ bits' = bits
    BY <2>1 DEF vars, loopVars, envVars, Offline
  <2>3. Progress'
    BY <2>1
       DEF Boot, Progress, Started, WifiStarted, SubPubRegistered,
           ManagerRegistered, LoopCreated
  <2>4. Quiet'
    BY <2>1, <2>2 DEF Boot, Quiet, Started, WifiStarted, wifiVars
  <2> QED
    BY <2>3, <2>4 DEF Boot
<1>3. CASE Connection \/ CommandLoop
  <2>1. UNCHANGED bootVars /\ (ConnAttempt \/ ConnWatch \/ Agent)
    BY <1>3 DEF Connection, CommandLoop
  <2>2. Progress'
    BY <2>1
       DEF Boot, Progress, Started, WifiStarted, SubPubRegistered,
           ManagerRegistered, LoopCreated, bootVars
  <2>3. Offline => Offline' /\ UNCHANGED bits
    BY <2>1, OfflineTasks
  <2>4. Quiet'
    BY <2>1, <2>3 DEF Boot, Quiet, Started, WifiStarted, bootVars
  <2> QED
    BY <2>2, <2>4 DEF Boot
<1>4. CASE Loop
  <2>1. Progress'
    BY <1>4, LoopStep
       DEF Boot, Progress, Started, WifiStarted, SubPubRegistered,
           ManagerRegistered, LoopCreated
  <2>2. Quiet'
    BY <1>4, LoopStep DEF Boot, Quiet, Started, WifiStarted
  <2> QED
    BY <2>1, <2>2 DEF Boot
<1>5. CASE StationJoins
  <2>1. WifiStarted
    BY <1>5, StationStep
  <2> QED
    BY <1>5, <2>1
       DEF Boot, Progress, Quiet, Started, WifiStarted, SubPubRegistered,
           ManagerRegistered, LoopCreated,
           StationJoins, netBootUnchanged
<1>6. CASE Peer
  <2>1. UNCHANGED <<mainPc, created, handlers, tempPc>>
    BY <1>6 DEF Peer, UserProvisions, StationFailsToJoin, netBootUnchanged, bootVars
  <2>2. WifiStarted
    BY <1>6
       DEF Peer, UserProvisions, StationFailsToJoin, WifiDrops, SocketBreaks,
           Boot, Quiet, Offline
  <2> QED
    BY <2>1, <2>2
       DEF Boot, Progress, Quiet, Started, WifiStarted, SubPubRegistered,
           ManagerRegistered, LoopCreated
<1>7. CASE UNCHANGED allVars
  BY <1>7
     DEF allVars, bootVars, vars, loopVars, envVars, Boot, Progress, Quiet,
         Offline, Started, WifiStarted, SubPubRegistered, ManagerRegistered, LoopCreated
<1> QED
  BY <1>1, <1>2, <1>3, <1>4, <1>5, <1>6, <1>7 DEF StartupNext, Halted

LEMMA BootInvariant == StartupSpec => []Boot
<1>1. StartupInit => Boot
  BY BootInit
<1>2. Boot /\ [StartupNext]_allVars => Boot'
  BY BootStep
<1> QED
  BY <1>1, <1>2, PTL DEF StartupSpec

\* When there can be an event of any kind the handlers of the subscribe demo, of
\* the manager and of app_wifi are there, whatever order the tasks run in.  Nothing
\* is said of the temperature task's, which it registers itself.
THEOREM HandlersComeFirst == StartupSpec => []RegisteredBeforeEvents
<1>1. Boot => RegisteredBeforeEvents
  <2> SUFFICES ASSUME Boot, eventQueue # <<>> \/ station # "off"
               PROVE  {"subPub", "manager", "managerWifi", "appWifi"} \subseteq handlers
    BY DEF RegisteredBeforeEvents
  <2>1. WifiStarted
    BY DEF Boot, Quiet, Offline
  <2> QED
    BY <2>1 DEF Boot, Progress, Started, WifiStarted, SubPubRegistered,
       ManagerRegistered
<1> QED
  BY <1>1, BootInvariant, PTL

-----------------------------------------------------------------------------
\* Whatever the boot does to the variables of the manager is a step of the
\* manager, except for the one that sets DISCONNECTED.
LEMMA ManagerSteps ==
  ASSUME Boot, [StartupNext]_allVars
  PROVE  [Next]_vars \/ SetDisconnected
<1>1. CASE Main
  BY <1>1, MainChanges
<1>2. CASE Temp
  BY <1>2 DEF Temp, TempRegisters, TempSubscribes, TempGoto
<1>3. CASE Connection \/ CommandLoop
  BY <1>3 DEF Connection, CommandLoop, Next
<1>4. CASE Loop
  <2>1. {"subPub", "manager", "managerWifi"} \subseteq handlers
    BY <1>4, LoopStep
       DEF Boot, Progress, Started, WifiStarted, SubPubRegistered,
           ManagerRegistered
  <2>2. EventLoop \/ UNCHANGED vars
    BY <1>4, <2>1
       DEF Loop, LoopGotIp, LoopStaDisconnected, LoopConnected,
           LoopDisconnected, LoopHandlerGoesOn, LoopStaStart, LoopProvEnd,
           IfRegistered, EventLoop
  <2> QED
    BY <2>2 DEF Next
<1>5. CASE StationJoins \/ Peer
  <2>1. Network \/ UNCHANGED vars
    BY <1>5
       DEF StationJoins, Peer, UserProvisions, StationFailsToJoin, Network
  <2> QED
    BY <2>1 DEF Next
<1>6. CASE UNCHANGED allVars
  BY <1>6 DEF allVars
<1> QED
  BY <1>1, <1>2, <1>3, <1>4, <1>5, <1>6 DEF StartupNext, Halted

\* The variables that only the boot has.
BootTypeOK ==
    /\ mainPc \in MainPcs
    /\ created \subseteq Created /\ handlers \subseteq Handlers
    /\ tempPc \in {"created", "subscribing", "waiting"}
    /\ tempConnected \in BOOLEAN
    /\ credentials \in {"none", "good", "bad"}
    /\ provisioning \in BOOLEAN
    /\ station \in {"off", "started", "idle", "joining"}
    /\ wifiBit \in BOOLEAN

\* No step of the boot gives one of them a value of another type.
LEMMA BootTypeStep ==
  ASSUME BootTypeOK, [StartupNext]_allVars
  PROVE  BootTypeOK'
<1> USE DEF BootTypeOK, MainPcs, Created, Handlers, MainGoto, Register, Create,
            wifiVars
<1>1. CASE StartDemos
  BY <1>1 DEF StartDemos, StartSubPubDemo, StartTempDemo, StartOtaDemo
<1>2. CASE StartManager
  <2>1. UNCHANGED <<tempPc, tempConnected, wifiVars>> /\ mainPc' \in MainPcs
    BY <1>2
       DEF StartManager, RegisterManager, InitializeAgent, CreateAgentTask,
           CreateConnectionTask, SetDisconnected, AssertionFails, ManagerUnchanged
  <2>2. created' \subseteq Created /\ handlers' \subseteq Handlers
    BY <1>2
       DEF StartManager, RegisterManager, InitializeAgent, CreateAgentTask,
           CreateConnectionTask, SetDisconnected, AssertionFails
  <2> QED
    BY <2>1, <2>2
<1>3. CASE StartWifi
  BY <1>3
     DEF StartWifi, InitializeWifi, StartStation, WaitOnWifiConnected,
         StartProvisioning
<1>4. CASE Main /\ ~StartDemos /\ ~StartManager /\ ~StartWifi
  BY <1>4 DEF Main, InitializeNetworkContext, InitializeNvs, CreateEventLoop
<1>5. CASE Temp
  <2>1. UNCHANGED <<mainPc, created, tempConnected, wifiVars>>
    BY <1>5 DEF Temp, TempRegisters, TempSubscribes, TempGoto
  <2>2. tempPc' \in {"subscribing", "waiting"} /\ handlers' \subseteq Handlers
    BY <1>5 DEF Temp, TempRegisters, TempSubscribes, TempGoto
  <2> QED
    BY <2>1, <2>2
<1>6. CASE UNCHANGED bootVars
  BY <1>6 DEF bootVars
<1>7. CASE Connection \/ CommandLoop
  BY <1>6, <1>7 DEF Connection, CommandLoop
<1>8. CASE Loop
  <2>1. UNCHANGED <<mainPc, created, handlers, tempPc, credentials>>
    BY <1>8
       DEF Loop, LoopGotIp, LoopStaDisconnected, LoopConnected,
           LoopDisconnected, LoopHandlerGoesOn, LoopStaStart, LoopProvEnd,
           loopUnchanged, bootVars
  <2>2. tempConnected' \in BOOLEAN
    BY <1>8
       DEF Loop, LoopGotIp, LoopStaDisconnected, LoopConnected,
           LoopDisconnected, LoopHandlerGoesOn, LoopStaStart, LoopProvEnd,
           loopUnchanged, bootVars
  <2>3. provisioning' \in BOOLEAN
    BY <1>8
       DEF Loop, LoopGotIp, LoopStaDisconnected, LoopConnected,
           LoopDisconnected, LoopHandlerGoesOn, LoopStaStart, LoopProvEnd,
           loopUnchanged, bootVars
  <2>4. station' \in {"off", "started", "idle", "joining"}
    BY <1>8
       DEF Loop, LoopGotIp, LoopStaDisconnected, LoopConnected,
           LoopDisconnected, LoopHandlerGoesOn, LoopStaStart, LoopProvEnd,
           loopUnchanged, bootVars
  <2>5. wifiBit' \in BOOLEAN
    BY <1>8
       DEF Loop, LoopGotIp, LoopStaDisconnected, LoopConnected,
           LoopDisconnected, LoopHandlerGoesOn, LoopStaStart, LoopProvEnd,
           loopUnchanged, bootVars
  <2> QED
    BY <2>1, <2>2, <2>3, <2>4, <2>5
<1>9. CASE StationJoins \/ Peer
  <2>1. UNCHANGED <<mainPc, created, handlers, tempPc, tempConnected,
                    provisioning, wifiBit>>
    BY <1>9
       DEF StationJoins, Peer, UserProvisions, StationFailsToJoin,
           netBootUnchanged, bootVars
  <2>2. /\ credentials' \in {"none", "good", "bad"}
        /\ station' \in {"off", "started", "idle", "joining"}
    BY <1>9
       DEF StationJoins, Peer, UserProvisions, StationFailsToJoin, bootVars
  <2> QED
    BY <2>1, <2>2
<1>10. CASE UNCHANGED allVars
  BY <1>6, <1>10 DEF allVars
<1> QED
  BY <1>1, <1>2, <1>3, <1>4, <1>5, <1>7, <1>8, <1>9, <1>10
     DEF StartupNext, Halted

\* The last step of the manager's start can only wake the connection task.
LEMMA SetDisconnectedTyped ==
  ASSUME TypeOK, SetDisconnected
  PROVE  TypeOK'
BY DEF SetDisconnected, TypeOK, ConnWoken, ConnPcs, ConnectPcs, Bits, loopVars,
       envVars

\* Every variable of the boot and of the manager keeps its type.
THEOREM BootTypeCorrect == StartupSpec => []StartupTypeOK
<1>1. StartupInit => TypeOK /\ BootTypeOK
  BY TypeInit DEF StartupInit, BootTypeOK, MainPcs
<1>2. TypeOK /\ BootTypeOK /\ Boot /\ [StartupNext]_allVars
      => TypeOK' /\ BootTypeOK'
  BY ManagerSteps, TypeStep, SetDisconnectedTyped, BootTypeStep
<1>3. TypeOK /\ BootTypeOK => StartupTypeOK
  BY DEF BootTypeOK, StartupTypeOK
<1> QED
  BY <1>1, <1>2, <1>3, BootInvariant, PTL DEF StartupSpec

\* Neither the order of the boot nor a WiFi that is still being provisioned can
\* make the event group disagree with the station once its events are handled.
THEOREM WifiBitFollowsBoot == StartupSpec => []WifiBitAccurate
<1>1. StartupInit => TypeOK /\ WifiTold
  BY TypeInit, WifiInit DEF StartupInit
<1>2. TypeOK /\ WifiTold /\ Boot /\ [StartupNext]_allVars => TypeOK' /\ WifiTold'
  <2> SUFFICES ASSUME TypeOK, WifiTold, Boot, [StartupNext]_allVars
               PROVE  TypeOK' /\ WifiTold'
    OBVIOUS
  <2>1. CASE [Next]_vars
    BY <2>1, TypeStep, WifiStep
  <2>2. CASE SetDisconnected
    BY <2>2, SetDisconnectedTyped, QuietWifi DEF SetDisconnected, envVars
  <2> QED
    BY <2>1, <2>2, ManagerSteps
<1>3. WifiTold => WifiBitAccurate
  BY DEF WifiTold
<1> QED
  BY <1>1, <1>2, <1>3, BootInvariant, PTL DEF StartupSpec

-----------------------------------------------------------------------------
\* Once DISCONNECTED is set, the refinement mapping is the identity.
LEMMA SameBits ==
  ASSUME Started, Started'
  PROVE  BitsOnceStarted = bits /\ BitsOnceStarted' = bits'
BY DEF Started, BitsOnceStarted

\* Then a step of an attempt to connect is one of the abstract manager.
LEMMA SameAttempt ==
  ASSUME Started, Started', ConnAttempt
  PROVE  Manager!ConnAttempt
<1> USE SameBits DEF ConnGoto, Manager!ConnGoto, shared, Manager!shared,
            loopVars, Manager!loopVars, ReadyToConnect,
            Manager!ReadyToConnect, SpendFault, Manager!SpendFault
<1>1. CASE ConnWaitBits
  BY <1>1 DEF ConnWaitBits, Manager!ConnWaitBits, Manager!ConnAttempt
<1>2. CASE ConnTeardown
  BY <1>2 DEF ConnTeardown, Manager!ConnTeardown, Manager!ConnAttempt
<1>3. CASE ConnTlsConnect
  BY <1>3 DEF ConnTlsConnect, Manager!ConnTlsConnect, Manager!ConnAttempt
<1>4. CASE ConnMqttConnect
  BY <1>4 DEF ConnMqttConnect, Manager!ConnMqttConnect, Manager!ConnAttempt
<1>5. CASE ConnResubscribe
  BY <1>5 DEF ConnResubscribe, Manager!ConnResubscribe, Manager!ConnAttempt
<1>6. CASE ConnAttemptFails
  BY <1>6 DEF ConnAttemptFails, Manager!ConnAttemptFails, Manager!ConnAttempt
<1>7. CASE ConnBackoff
  BY <1>7 DEF ConnBackoff, Manager!ConnBackoff, Manager!ConnAttempt
<1>8. ASSUME NEW sessionPresent \in BOOLEAN, ConnResumeSession(sessionPresent)
     PROVE  Manager!ConnAttempt
  BY <1>8 DEF ConnResumeSession, Manager!ConnResumeSession, Manager!ConnAttempt
<1> QED
  BY <1>8, <1>1, <1>2, <1>3, <1>4, <1>5, <1>6, <1>7 DEF ConnAttempt

\* Likewise a step of announcing or watching a connection.
LEMMA SameWatch ==
  ASSUME Started, Started', ConnWatch
  PROVE  Manager!ConnWatch
<1> USE SameBits DEF ConnGoto, Manager!ConnGoto, connLocal,
            Manager!connLocal, loopVars, Manager!loopVars, envVars,
            Manager!envVars, ClearBit, Manager!ClearBit, Post, Manager!Post,
            AgentWoken, Manager!AgentWoken, ReadyToRun, Manager!ReadyToRun
<1>1. CASE ConnClearDisconnected
  BY <1>1 DEF ConnClearDisconnected, Manager!ConnClearDisconnected, Manager!ConnWatch
<1>2. CASE ConnSetConnected
  BY <1>2 DEF ConnSetConnected, Manager!ConnSetConnected, Manager!ConnWatch
<1>3. CASE ConnPostConnected
  BY <1>3 DEF ConnPostConnected, Manager!ConnPostConnected, Manager!ConnWatch
<1>4. CASE ConnLeaveWatch
  BY <1>4 DEF ConnLeaveWatch, Manager!ConnLeaveWatch, Manager!ConnWatch
<1>5. CASE ConnReadable
  BY <1>5 DEF ConnReadable, Manager!ConnReadable, Manager!ConnWatch
<1>6. CASE ConnNotified
  BY <1>6 DEF ConnNotified, Manager!ConnNotified, Manager!ConnWatch
<1>7. CASE ConnNotifyTimeout
  BY <1>7 DEF ConnNotifyTimeout, Manager!ConnNotifyTimeout, Manager!ConnWatch
<1>8. CASE ConnSocketError
  BY <1>8 DEF ConnSocketError, Manager!ConnSocketError, Manager!ConnWatch
<1>9. CASE ConnClearConnected
  BY <1>9 DEF ConnClearConnected, Manager!ConnClearConnected, Manager!ConnWatch
<1>10. CASE ConnSetDisconnected
  BY <1>10 DEF ConnSetDisconnected, Manager!ConnSetDisconnected, Manager!ConnWatch
<1>11. CASE ConnPostDisconnected
  BY <1>11 DEF ConnPostDisconnected, Manager!ConnPostDisconnected, Manager!ConnWatch
<1> QED
  BY <1>1, <1>2, <1>3, <1>4, <1>5, <1>6, <1>7, <1>8, <1>9, <1>10, <1>11 DEF ConnWatch

\* A step of the agent's task.
LEMMA SameAgent ==
  ASSUME Started, Started', Agent
  PROVE  Manager!Agent
<1> USE SameBits DEF AgentGoto, Manager!AgentGoto, agentLocal,
            Manager!agentLocal, loopVars, Manager!loopVars, envVars,
            Manager!envVars, ClearBit, Manager!ClearBit, Post, Manager!Post,
            ReadyToRun, Manager!ReadyToRun, SpendFault, Manager!SpendFault,
            ConnWoken, Manager!ConnWoken, ReadyToConnect,
            Manager!ReadyToConnect
<1>1. CASE AgentWaitBits
  BY <1>1 DEF AgentWaitBits, Manager!AgentWaitBits, Manager!Agent
<1>2. CASE AgentProcessLoop
  BY <1>2 DEF AgentProcessLoop, Manager!AgentProcessLoop, Manager!Agent
<1>3. CASE AgentLoopFails
  BY <1>3 DEF AgentLoopFails, Manager!AgentLoopFails, Manager!Agent
<1>4. CASE AgentClearConnected
  BY <1>4 DEF AgentClearConnected, Manager!AgentClearConnected, Manager!Agent
<1>5. CASE AgentSetDisconnected
  BY <1>5 DEF AgentSetDisconnected, Manager!AgentSetDisconnected, Manager!Agent
<1>6. CASE AgentPostDisconnected
  BY <1>6 DEF AgentPostDisconnected, Manager!AgentPostDisconnected, Manager!Agent
<1> QED
  BY <1>1, <1>2, <1>3, <1>4, <1>5, <1>6 DEF Agent

\* A step of the event loop.
LEMMA SameEventLoop ==
  ASSUME Started, Started', EventLoop
  PROVE  Manager!EventLoop
<1> USE SameBits DEF loopLocal, Manager!loopLocal, loopVars,
            Manager!loopVars, envVars, Manager!envVars, ClearBit,
            Manager!ClearBit, Dispatch, Manager!Dispatch, ConnWoken,
            Manager!ConnWoken, ReadyToConnect, Manager!ReadyToConnect
<1>1. CASE HandleGotIp
  BY <1>1 DEF HandleGotIp, Manager!HandleGotIp, Manager!EventLoop
<1>2. CASE HandleStaDisconnected
  BY <1>2 DEF HandleStaDisconnected, Manager!HandleStaDisconnected, Manager!EventLoop
<1>3. CASE HandleConnected
  BY <1>3 DEF HandleConnected, Manager!HandleConnected, Manager!EventLoop
<1>4. CASE HandleDisconnected
  BY <1>4 DEF HandleDisconnected, Manager!HandleDisconnected, Manager!EventLoop
<1>5. CASE HandlerClearConnected
  BY <1>5 DEF HandlerClearConnected, Manager!HandlerClearConnected, Manager!EventLoop
<1>6. CASE HandlerSetDisconnected
  BY <1>6 DEF HandlerSetDisconnected, Manager!HandlerSetDisconnected, Manager!EventLoop
<1> QED
  BY <1>1, <1>2, <1>3, <1>4, <1>5, <1>6 DEF EventLoop

\* A step of the network.
LEMMA SameNetwork ==
  ASSUME Started, Started', Network
  PROVE  Manager!Network
<1> USE SameBits DEF netUnchanged, Manager!netUnchanged, loopVars,
            Manager!loopVars, envVars, Manager!envVars, Post, Manager!Post,
            SpendFault, Manager!SpendFault
<1>1. CASE WifiJoins
  BY <1>1 DEF WifiJoins, Manager!WifiJoins, Manager!Network
<1>2. CASE WifiFailsToJoin
  BY <1>2 DEF WifiFailsToJoin, Manager!WifiFailsToJoin, Manager!Network
<1>3. CASE WifiDrops
  BY <1>3 DEF WifiDrops, Manager!WifiDrops, Manager!Network
<1>4. CASE SocketBreaks
  BY <1>4 DEF SocketBreaks, Manager!SocketBreaks, Manager!Network
<1> QED
  BY <1>1, <1>2, <1>3, <1>4 DEF Network

\* A step of the manager itself maps to itself once DISCONNECTED is set.
LEMMA SameStep ==
  ASSUME Started, Started', [Next]_vars
  PROVE  [Manager!Next]_Manager!vars
<1>1. CASE Next
  BY <1>1, SameAttempt, SameWatch, SameAgent, SameEventLoop, SameNetwork
     DEF Next, Manager!Next
<1>2. CASE UNCHANGED vars
  BY <1>2, SameBits DEF vars, Manager!vars, loopVars, Manager!loopVars,
         envVars, Manager!envVars
<1> QED
  BY <1>1, <1>2

\* The variables of the manager that the refinement mapping leaves alone.
otherVars == <<eventQueue, loopVars, agentPc, connPc, tls, xCleanSession,
               processLoops, notified, envVars>>

\* Before it, the tasks can only come to their first wait, which the bit that is
\* still to be set does not end.
LEMMA EarlyStep ==
  ASSUME Boot, ~Started, [StartupNext]_allVars
  PROVE  [Manager!Next]_Manager!vars
<1>1. Offline /\ bits = {} /\ BitsOnceStarted = {"DISCONNECTED"}
  BY DEF Boot, Quiet, Started, WifiStarted, BitsOnceStarted
<1> USE DEF loopVars, envVars, Manager!loopVars, Manager!envVars
<1>2. ASSUME UNCHANGED otherVars, (bits' = {} /\ ~Started') \/ bits' = {"DISCONNECTED"}
      PROVE  UNCHANGED Manager!vars
  <2>1. BitsOnceStarted' = BitsOnceStarted
    BY <1>1, <1>2 DEF BitsOnceStarted, Started
  <2> QED
    BY <1>2, <2>1 DEF otherVars, Manager!vars
<1>3. CASE Main
  <2>1. CASE SetDisconnected
    BY <1>1, <1>2, <2>1
       DEF SetDisconnected, ConnWoken, ReadyToConnect, otherVars
  <2>2. CASE UNCHANGED vars /\ ~SetDisconnected
    <3>1. ~Started'
      BY <1>3, <2>2
         DEF Main, StartDemos, StartManager, StartWifi,
             InitializeNetworkContext, InitializeNvs, CreateEventLoop,
             StartSubPubDemo, StartTempDemo, StartOtaDemo, RegisterManager,
             InitializeAgent, CreateAgentTask, CreateConnectionTask,
             AssertionFails, InitializeWifi, StartStation, StartProvisioning,
             WaitOnWifiConnected, MainGoto, Started
    <3> QED
      BY <1>1, <1>2, <2>2, <3>1 DEF vars, otherVars
  <2> QED
    BY <1>3, <2>1, <2>2, MainChanges
<1>4. CASE Temp
  <2>1. UNCHANGED vars /\ ~Started'
    BY <1>4 DEF Temp, TempRegisters, TempSubscribes, TempGoto, Started
  <2> QED
    BY <1>1, <1>2, <2>1 DEF vars, otherVars
<1>5. CASE Connection
  <2>1. ConnWaitBits /\ ~Started'
    BY <1>1, <1>5
       DEF Connection, ConnAttempt, ConnWatch, Offline, bootVars, Started,
           ConnTeardown, ConnTlsConnect, ConnMqttConnect, ConnResumeSession,
           ConnResubscribe, ConnAttemptFails, ConnBackoff,
           ConnClearDisconnected, ConnSetConnected, ConnPostConnected,
           ConnLeaveWatch, ConnReadable, ConnNotified, ConnNotifyTimeout,
           ConnSocketError, ConnClearConnected, ConnSetDisconnected,
           ConnPostDisconnected, ConnGoto
  <2>2. BitsOnceStarted' = BitsOnceStarted
    BY <1>1, <2>1 DEF BitsOnceStarted, Started, ConnWaitBits, shared
  <2>3. Manager!ConnWaitBits
    BY <1>1, <2>1, <2>2
       DEF ConnWaitBits, Manager!ConnWaitBits, ConnGoto, Manager!ConnGoto,
           ReadyToConnect, Manager!ReadyToConnect, shared, Manager!shared
  <2> QED
    BY <2>3 DEF Manager!Next, Manager!ConnAttempt
<1>6. CASE CommandLoop
  <2>1. AgentWaitBits /\ ~Started'
    BY <1>1, <1>6
       DEF CommandLoop, Agent, Offline, bootVars, Started, AgentProcessLoop,
           AgentLoopFails, AgentClearConnected, AgentSetDisconnected,
           AgentPostDisconnected, AgentGoto
  <2>2. BitsOnceStarted' = BitsOnceStarted
    BY <1>1, <2>1 DEF BitsOnceStarted, Started, AgentWaitBits
  <2>3. Manager!AgentWaitBits
    BY <1>1, <2>1, <2>2
       DEF AgentWaitBits, Manager!AgentWaitBits, AgentGoto, Manager!AgentGoto,
           ReadyToRun, Manager!ReadyToRun, agentLocal, Manager!agentLocal
  <2> QED
    BY <2>3 DEF Manager!Next, Manager!Agent
<1>7. ~Loop
  BY LoopStep DEF Started, WifiStarted
<1>8. ~StationJoins
  BY StationStep DEF Started, WifiStarted
<1>9. ~Peer
  BY <1>1
     DEF Peer, UserProvisions, StationFailsToJoin, WifiDrops, SocketBreaks,
         Boot, Quiet, Offline, Started, WifiStarted
<1>10. CASE UNCHANGED allVars
  <2>1. UNCHANGED vars /\ ~Started'
    BY <1>10 DEF allVars, bootVars, Started
  <2> QED
    BY <1>1, <1>2, <2>1 DEF vars, otherVars
<1> QED
  BY <1>3, <1>4, <1>5, <1>6, <1>7, <1>8, <1>9, <1>10 DEF StartupNext, Halted

\* Only app_main moves its program counter.
LEMMA OnlyMainMoves ==
  ASSUME [StartupNext]_allVars, ~Main
  PROVE  UNCHANGED mainPc
BY DEF StartupNext, Halted, Temp, TempRegisters, TempSubscribes, TempGoto,
       Connection, CommandLoop, Loop, LoopGotIp, LoopStaDisconnected,
       LoopConnected, LoopDisconnected, LoopHandlerGoesOn, LoopStaStart,
       LoopProvEnd, loopUnchanged, StationJoins, Peer, UserProvisions,
       StationFailsToJoin, netBootUnchanged, bootVars, allVars

\* app_main has started the manager for good.
LEMMA StaysStarted ==
  ASSUME Started, [StartupNext]_allVars
  PROVE  Started' /\ ~SetDisconnected
<1>1. CASE Main
  BY <1>1
     DEF Main, StartDemos, StartManager, StartWifi, InitializeNetworkContext,
         InitializeNvs, CreateEventLoop, StartSubPubDemo, StartTempDemo,
         StartOtaDemo, RegisterManager, InitializeAgent, CreateAgentTask,
         CreateConnectionTask, SetDisconnected, AssertionFails, InitializeWifi,
         StartStation, StartProvisioning, WaitOnWifiConnected, MainGoto, Started
<1>2. CASE ~Main
  <2>1. UNCHANGED mainPc
    BY <1>2, OnlyMainMoves
  <2> QED
    BY <2>1 DEF Started, SetDisconnected, MainGoto
<1> QED
  BY <1>1, <1>2

\* There is one step with which it starts the manager.
LEMMA StartsOnce ==
  ASSUME ~Started, [StartupNext]_allVars, ~SetDisconnected
  PROVE  ~Started'
<1>1. CASE Main
  BY <1>1
     DEF Main, StartDemos, StartManager, StartWifi, InitializeNetworkContext,
         InitializeNvs, CreateEventLoop, StartSubPubDemo, StartTempDemo,
         StartOtaDemo, RegisterManager, InitializeAgent, CreateAgentTask,
         CreateConnectionTask, AssertionFails, InitializeWifi, StartStation,
         StartProvisioning, WaitOnWifiConnected, MainGoto, Started
<1>2. CASE ~Main
  BY <1>2, OnlyMainMoves DEF Started
<1> QED
  BY <1>1, <1>2

\* The boot, with tasks that appear one at a time and handlers that register one
\* at a time, implements the manager that ConnectionManager takes as started.
THEOREM BootStartsManager == StartupSpec => StartsManager
<1>1. StartupInit => Manager!Init
  BY DEF StartupInit, TasksInit, Manager!Init, Manager!TasksInit, BitsOnceStarted
<1>2. Boot /\ [StartupNext]_allVars => [Manager!Next]_Manager!vars
  <2> SUFFICES ASSUME Boot, [StartupNext]_allVars
               PROVE  [Manager!Next]_Manager!vars
    OBVIOUS
  <2>1. CASE Started
    BY <2>1, ManagerSteps, StaysStarted, SameStep
  <2>2. CASE ~Started
    BY <2>2, EarlyStep
  <2> QED
    BY <2>1, <2>2
<1> QED
  BY <1>1, <1>2, BootInvariant, PTL DEF StartupSpec, StartsManager, Manager!Spec

\* The handshake of the two bits, from the moment app_main has set DISCONNECTED.
BootHandshake ==
    /\ Started => NoLostSignal
    /\ ReconnectHoldsDisconnected

\* The handshake of the two bits, which ConnectionManager shows from its own
\* initial state, holds of the device: from the moment app_main has set
\* DISCONNECTED, a task has the signal or is about to give it, and the connection
\* task, wherever its creation found it, reconnects under that bit only.
THEOREM BootLosesNoSignal ==
  StartupSpec => [](ReconnectHoldsDisconnected /\ (Started => NoLostSignal))
<1>1. StartupInit => TypeOK /\ BootHandshake
  BY TypeInit
     DEF StartupInit, TasksInit, BootHandshake, Started, ReconnectHoldsDisconnected,
         ConnectPcs
<1>2. TypeOK /\ BootHandshake /\ Boot /\ Boot' /\ [StartupNext]_allVars
      => TypeOK' /\ BootHandshake'
  <2> SUFFICES ASSUME TypeOK, BootHandshake, Boot, Boot', [StartupNext]_allVars
               PROVE  TypeOK' /\ BootHandshake'
    OBVIOUS
  <2>1. TypeOK'
    BY ManagerSteps, TypeStep, SetDisconnectedTyped
  <2>2. CASE Started
    <3>1. [Next]_vars /\ Handshake
      BY <2>2, ManagerSteps, StaysStarted DEF BootHandshake, Handshake
    <3> QED
      BY <2>1, <3>1, HandshakeStep DEF BootHandshake, Handshake
  <2>3. CASE SetDisconnected
    BY <2>1, <2>3
       DEF SetDisconnected, BootHandshake, NoLostSignal, ReconnectHoldsDisconnected
  <2>4. CASE ~Started /\ ~SetDisconnected
    <3>1. ~Started'
      BY <2>4, StartsOnce
    <3>2. connPc' \in {"waitBits", "blocked"}
      BY <3>1 DEF Boot, Quiet, Offline, WifiStarted, Started
    <3> QED
      BY <2>1, <3>1, <3>2 DEF BootHandshake, ReconnectHoldsDisconnected, ConnectPcs
  <2> QED
    BY <2>2, <2>3, <2>4
<1>3. BootHandshake => ReconnectHoldsDisconnected /\ (Started => NoLostSignal)
  BY DEF BootHandshake
<1> QED
  BY <1>1, <1>2, <1>3, BootInvariant, PTL DEF StartupSpec
=============================================================================
