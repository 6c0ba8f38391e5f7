-------------------------- MODULE ConnectionManager --------------------------
(***************************************************************************)
(* The coreMQTT-Agent manager (core_mqtt_agent_manager.c): the connection  *)
(* task, the agent task and the default event loop task, which meet in one *)
(* FreeRTOS event group and in the event loop's queue.  The manager has    *)
(* been started (xCoreMqttAgentManagerStart returned pdPASS) and WiFi has  *)
(* not: app_main starts it afterwards.                                     *)
(*                                                                         *)
(* Every clear-then-set of a pair of bits is two steps, and so are a set   *)
(* bit and the event posted for it.  A task blocked in xEventGroupWaitBits *)
(* is woken by the set itself: the bits may be cleared before it runs.     *)
(***************************************************************************)
EXTENDS Naturals, Sequences

CONSTANTS
    EventQueueLength,    \* capacity of the default event loop's queue
    CommandQueueLength,  \* ProcessLoop commands the agent's queue can hold
    MaxFaults            \* bound: WiFi drops, resets and errors of one run

ASSUME ConstantsAssumption ==
    /\ EventQueueLength \in Nat \ {0}
    /\ CommandQueueLength \in Nat \ {0}
    /\ MaxFaults \in Nat

VARIABLES
    bits,           \* xNetworkEventGroup
    eventQueue,     \* events posted to the default event loop
    loopPc,         \* the event loop task
    agentPc,        \* prvMQTTAgentTask
    connPc,         \* prvCoreMqttAgentConnectionTask
    tls,            \* pxNetworkContext->pxTls and the health of its socket
    xCleanSession,
    processLoops,   \* ProcessLoop commands in the agent's queue
    notified,       \* the connection task's notification count, 0 or not
    wifi,           \* the station is associated and has an address
    demoConnected,  \* what the demos' event handlers last recorded
    faults          \* faults spent so far

envVars  == <<wifi, faults>>
loopVars == <<loopPc, demoConnected>>
vars == <<bits, eventQueue, loopVars, agentPc, connPc, tls, xCleanSession,
          processLoops, notified, envVars>>

Bits   == {"WIFI_CONNECTED", "CONNECTED", "DISCONNECTED"}
Events == {"GotIp", "StaDisconnected", "Connected", "Disconnected"}

LoopPcs  == {"idle", "clearConnected", "setDisconnected"}
AgentPcs == {"waitBits", "blocked", "commandLoop", "clearConnected",
             "setDisconnected", "postDisconnected"}
ConnectPcs == {"teardown", "tlsConnect", "mqttConnect", "resumeSession",
               "resubscribe", "backoff", "clearDisconnected"}
ConnPcs == ConnectPcs \cup
            {"waitBits", "blocked", "setConnected", "postConnected", "watch",
             "notifyTake", "clearConnected", "setDisconnected",
             "postDisconnected"}

\* Everything but the event group, which xCoreMqttAgentManagerStart fills last.
TasksInit ==
    /\ eventQueue = <<>>
    /\ loopPc = "idle"
    /\ agentPc = "waitBits"
    /\ connPc = "waitBits"
    /\ tls = "none"
    /\ xCleanSession = TRUE
    /\ processLoops = 0
    /\ notified = FALSE
    /\ wifi = FALSE
    /\ demoConnected = FALSE
    /\ faults = 0

Init == bits = {"DISCONNECTED"} /\ TasksInit

-----------------------------------------------------------------------------
(* The event group, the event loop's queue and the fault budget.           *)

ReadyToRun(b)     == "CONNECTED" \in b
ReadyToConnect(b) == {"WIFI_CONNECTED", "DISCONNECTED"} \subseteq b

AgentWoken(b) == IF agentPc = "blocked" /\ ReadyToRun(b)
                 THEN "commandLoop" ELSE agentPc
ConnWoken(b)  == IF connPc = "blocked" /\ ReadyToConnect(b)
                 THEN "teardown" ELSE connPc

ClearBit(bit) == bits' = bits \ {bit}

\* esp_event_post with portMAX_DELAY: the poster waits for room.
Post(event) == /\ Len(eventQueue) < EventQueueLength
               /\ eventQueue' = Append(eventQueue, event)

SpendFault == /\ faults < MaxFaults
              /\ faults' = faults + 1

-----------------------------------------------------------------------------
(* prvCoreMqttAgentConnectionTask, an attempt to connect.                  *)

ConnGoto(from, to) == connPc = from /\ connPc' = to

\* What the connection task shares with the others and an attempt leaves alone.
shared == <<bits, eventQueue, loopVars, agentPc, processLoops, notified, wifi>>

ConnWaitBits ==
    /\ ConnGoto("waitBits",
                IF ReadyToConnect(bits) THEN "teardown" ELSE "blocked")
    /\ UNCHANGED <<shared, tls, xCleanSession, faults>>

\* xTlsDisconnect, if there is a pxTls to free.
ConnTeardown ==
    /\ ConnGoto("teardown", "tlsConnect")
    /\ tls' = "none"
    /\ UNCHANGED <<shared, xCleanSession, faults>>

ConnTlsConnect ==
    /\ wifi
    /\ ConnGoto("tlsConnect", "mqttConnect")
    /\ tls' = "up"
    /\ UNCHANGED <<shared, xCleanSession, faults>>

ConnMqttConnect ==
    /\ tls = "up"
    /\ ConnGoto("mqttConnect",
                IF xCleanSession THEN "clearDisconnected" ELSE "resumeSession")
    /\ UNCHANGED <<shared, tls, xCleanSession, faults>>

ConnResumeSession(sessionPresent) ==
    /\ ConnGoto("resumeSession",
                IF sessionPresent THEN "clearDisconnected" ELSE "resubscribe")
    /\ UNCHANGED <<shared, tls, xCleanSession, faults>>

\* prvHandleResubscribe only enqueues a command: nothing is sent here.
ConnResubscribe ==
    /\ ConnGoto("resubscribe", "clearDisconnected")
    /\ UNCHANGED <<shared, tls, xCleanSession, faults>>

\* Without WiFi or on a dead socket an attempt fails of itself; a refused
\* handshake or CONNECT, or a full command queue, is a fault.  The attempt's
\* socket is closed before the backoff.
ConnAttemptFails ==
    /\ connPc \in {"tlsConnect", "mqttConnect", "resumeSession", "resubscribe"}
    /\ connPc' = "backoff"
    /\ IF \/ connPc = "tlsConnect" /\ ~wifi
          \/ connPc \in {"mqttConnect", "resumeSession"} /\ tls = "broken"
       THEN UNCHANGED faults
       ELSE SpendFault
    /\ tls' = "none"
    /\ UNCHANGED <<shared, xCleanSession>>

\* BACKOFF_ALGORITHM_RETRY_FOREVER: the next attempt does not look at WiFi.
ConnBackoff ==
    /\ ConnGoto("backoff", "tlsConnect")
    /\ UNCHANGED <<shared, tls, xCleanSession, faults>>

-----------------------------------------------------------------------------
(* prvCoreMqttAgentConnectionTask, announcing and watching a connection.   *)

connLocal == <<loopVars, tls, envVars>>

ConnClearDisconnected ==
    /\ ConnGoto("clearDisconnected", "setConnected")
    /\ xCleanSession' = FALSE
    /\ ClearBit("DISCONNECTED")
    /\ UNCHANGED <<connLocal, eventQueue, agentPc, processLoops, notified>>

ConnSetConnected ==
    /\ ConnGoto("setConnected", "postConnected")
    /\ bits' = bits \cup {"CONNECTED"}
    /\ agentPc' = AgentWoken(bits')
    /\ UNCHANGED <<connLocal, eventQueue, xCleanSession, processLoops, notified>>

ConnPostConnected ==
    /\ ConnGoto("postConnected", "watch")
    /\ Post("Connected")
    /\ UNCHANGED <<connLocal, bits, agentPc, xCleanSession, processLoops,
                   notified>>

\* Mutant of ConnLeaveWatch: CONNECTED, set late, hides DISCONNECTED.
ConnLeaveWatchUnlessConnected ==
    /\ "DISCONNECTED" \in bits /\ "CONNECTED" \notin bits
    /\ ConnGoto("watch", "waitBits")
    /\ UNCHANGED <<connLocal, bits, eventQueue, agentPc, xCleanSession,
                   processLoops, notified>>

ConnLeaveWatch ==
    /\ "DISCONNECTED" \in bits
    /\ ConnGoto("watch", "waitBits")
    /\ UNCHANGED <<connLocal, bits, eventQueue, agentPc, xCleanSession,
                   processLoops, notified>>

\* Mutant of ConnReadable: the full queue is not looked at.
ConnReadableUnchecked ==
    /\ "DISCONNECTED" \notin bits
    /\ ConnGoto("watch", "notifyTake")
    /\ processLoops' = processLoops + 1
    /\ UNCHANGED <<connLocal, bits, eventQueue, agentPc, xCleanSession,
                   notified>>

\* select() says readable: data, or the end of a dead connection.  A full
\* queue drops the command, and the result is ignored.
ConnReadable ==
    /\ "DISCONNECTED" \notin bits
    /\ ConnGoto("watch", "notifyTake")
    /\ processLoops' = IF processLoops < CommandQueueLength
                       THEN processLoops + 1 ELSE processLoops
    /\ UNCHANGED <<connLocal, bits, eventQueue, agentPc, xCleanSession,
                   notified>>

ConnNotified ==
    /\ notified
    /\ ConnGoto("notifyTake", "watch")
    /\ notified' = FALSE
    /\ UNCHANGED <<connLocal, bits, eventQueue, agentPc, xCleanSession,
                   processLoops>>

\* ulTaskNotifyTake gives up after ten seconds.
ConnNotifyTimeout ==
    /\ ~notified
    /\ ConnGoto("notifyTake", "watch")
    /\ UNCHANGED <<connLocal, bits, eventQueue, agentPc, xCleanSession,
                   processLoops, notified>>

ConnSocketError ==
    /\ "DISCONNECTED" \notin bits
    /\ tls = "broken"
    /\ ConnGoto("watch", "clearConnected")
    /\ UNCHANGED <<connLocal, bits, eventQueue, agentPc, xCleanSession,
                   processLoops, notified>>

ConnClearConnected ==
    /\ ConnGoto("clearConnected", "setDisconnected")
    /\ ClearBit("CONNECTED")
    /\ UNCHANGED <<connLocal, eventQueue, agentPc, xCleanSession,
                   processLoops, notified>>

ConnSetDisconnected ==
    /\ ConnGoto("setDisconnected", "postDisconnected")
    /\ bits' = bits \cup {"DISCONNECTED"}
    /\ UNCHANGED <<connLocal, eventQueue, agentPc, xCleanSession,
                   processLoops, notified>>

ConnPostDisconnected ==
    /\ ConnGoto("postDisconnected", "watch")
    /\ Post("Disconnected")
    /\ UNCHANGED <<connLocal, bits, agentPc, xCleanSession, processLoops,
                   notified>>

-----------------------------------------------------------------------------
(* prvMQTTAgentTask.                                                       *)

AgentGoto(from, to) == agentPc = from /\ agentPc' = to

agentLocal == <<loopVars, connPc, tls, xCleanSession, wifi>>

AgentWaitBits ==
    /\ AgentGoto("waitBits",
                 IF ReadyToRun(bits) THEN "commandLoop" ELSE "blocked")
    /\ UNCHANGED <<agentLocal, bits, eventQueue, processLoops, notified, faults>>

\* MQTTAgent_CommandLoop runs a ProcessLoop command and its callback notifies.
AgentProcessLoop ==
    /\ agentPc = "commandLoop"
    /\ tls = "up"
    /\ processLoops > 0
    /\ processLoops' = processLoops - 1
    /\ notified' = TRUE
    /\ UNCHANGED <<agentLocal, agentPc, bits, eventQueue, faults>>

\* Mutant of AgentLoopFails: the error is swallowed and the loop goes on.
AgentLoopSwallowsError ==
    /\ AgentGoto("commandLoop", "commandLoop")
    /\ IF tls = "up" THEN SpendFault ELSE UNCHANGED faults
    /\ UNCHANGED <<agentLocal, bits, eventQueue, processLoops, notified>>

\* MQTTAgent_CommandLoop returns an error: the command it was running fails,
\* and the callback of a failed ProcessLoop notifies all the same.
AgentLoopFails ==
    /\ AgentGoto("commandLoop", "clearConnected")
    /\ IF tls = "up" THEN SpendFault ELSE UNCHANGED faults
    /\ \/ /\ processLoops > 0
          /\ processLoops' = processLoops - 1
          /\ notified' = TRUE
       \/ UNCHANGED <<processLoops, notified>>
    /\ UNCHANGED <<agentLocal, bits, eventQueue>>

AgentClearConnected ==
    /\ AgentGoto("clearConnected", "setDisconnected")
    /\ ClearBit("CONNECTED")
    /\ UNCHANGED <<agentLocal, eventQueue, processLoops, notified, faults>>

AgentSetDisconnected ==
    /\ AgentGoto("setDisconnected", "postDisconnected")
    /\ bits' = bits \cup {"DISCONNECTED"}
    /\ connPc' = ConnWoken(bits')
    /\ UNCHANGED <<loopVars, tls, xCleanSession, envVars, eventQueue,
                   processLoops, notified>>

AgentPostDisconnected ==
    /\ AgentGoto("postDisconnected", "waitBits")
    /\ Post("Disconnected")
    /\ UNCHANGED <<agentLocal, bits, processLoops, notified, faults>>

-----------------------------------------------------------------------------
(* The default event loop task and the handlers it runs.                   *)

loopLocal == <<agentPc, tls, xCleanSession, processLoops, notified, envVars>>

Dispatch(event) ==
    /\ loopPc = "idle"
    /\ eventQueue # <<>>
    /\ Head(eventQueue) = event
    /\ eventQueue' = Tail(eventQueue)

\* prvWifiEventHandler.
HandleGotIp ==
    /\ Dispatch("GotIp")
    /\ bits' = bits \cup {"WIFI_CONNECTED"}
    /\ connPc' = ConnWoken(bits')
    /\ UNCHANGED <<loopLocal, loopVars>>

HandleStaDisconnected ==
    /\ Dispatch("StaDisconnected")
    /\ ClearBit("WIFI_CONNECTED")
    /\ UNCHANGED <<loopLocal, loopVars, connPc>>

\* Mutant of HandleConnected: the handler withdraws DISCONNECTED itself.
HandleConnectedClears ==
    /\ Dispatch("Connected")
    /\ demoConnected' = TRUE
    /\ ClearBit("DISCONNECTED")
    /\ UNCHANGED <<loopLocal, loopPc, connPc>>

\* The demos' handlers were registered first; the manager's only logs this.
HandleConnected ==
    /\ Dispatch("Connected")
    /\ demoConnected' = TRUE
    /\ UNCHANGED <<loopLocal, loopPc, bits, connPc>>

HandleDisconnected ==
    /\ Dispatch("Disconnected")
    /\ demoConnected' = FALSE
    /\ loopPc' = "clearConnected"
    /\ UNCHANGED <<loopLocal, bits, connPc>>

\* prvCoreMqttAgentEventHandler's own clear and set.
HandlerClearConnected ==
    /\ loopPc = "clearConnected"
    /\ loopPc' = "setDisconnected"
    /\ ClearBit("CONNECTED")
    /\ UNCHANGED <<loopLocal, demoConnected, eventQueue, connPc>>

\* Mutant of HandlerSetDisconnected: the second half of the update is missing.
HandlerForgetsDisconnected ==
    /\ loopPc = "setDisconnected"
    /\ loopPc' = "idle"
    /\ UNCHANGED <<loopLocal, demoConnected, eventQueue, bits, connPc>>

HandlerSetDisconnected ==
    /\ loopPc = "setDisconnected"
    /\ loopPc' = "idle"
    /\ bits' = bits \cup {"DISCONNECTED"}
    /\ connPc' = ConnWoken(bits')
    /\ UNCHANGED <<loopLocal, demoConnected, eventQueue>>

-----------------------------------------------------------------------------
(* The network: WiFi (app_wifi's event_handler reconnects it) and the peer. *)

netUnchanged == <<bits, loopVars, agentPc, connPc, xCleanSession,
                  processLoops, notified>>

WifiJoins ==
    /\ ~wifi
    /\ wifi' = TRUE
    /\ Post("GotIp")
    /\ UNCHANGED <<netUnchanged, tls, faults>>

\* An association that does not come about is reported like one that ended.
WifiFailsToJoin ==
    /\ ~wifi
    /\ Post("StaDisconnected")
    /\ UNCHANGED <<netUnchanged, tls, envVars>>

WifiDrops ==
    /\ wifi
    /\ wifi' = FALSE
    /\ SpendFault
    /\ Post("StaDisconnected")
    /\ UNCHANGED <<netUnchanged, tls>>

\* The socket dies with WiFi, or the peer resets it.
SocketBreaks ==
    /\ tls = "up"
    /\ tls' = "broken"
    /\ IF wifi THEN SpendFault ELSE UNCHANGED faults
    /\ UNCHANGED <<netUnchanged, eventQueue, wifi>>

-----------------------------------------------------------------------------
ConnAttempt ==
    \/ ConnWaitBits \/ ConnTeardown \/ ConnTlsConnect \/ ConnMqttConnect
    \/ \E sessionPresent \in BOOLEAN : ConnResumeSession(sessionPresent)
    \/ ConnResubscribe \/ ConnAttemptFails \/ ConnBackoff

ConnWatch ==
    \/ ConnClearDisconnected \/ ConnSetConnected \/ ConnPostConnected
    \/ ConnLeaveWatch \/ ConnReadable \/ ConnNotified \/ ConnNotifyTimeout
    \/ ConnSocketError \/ ConnClearConnected \/ ConnSetDisconnected
    \/ ConnPostDisconnected

Agent ==
    \/ AgentWaitBits \/ AgentProcessLoop \/ AgentLoopFails
    \/ AgentClearConnected \/ AgentSetDisconnected \/ AgentPostDisconnected

EventLoop ==
    \/ HandleGotIp \/ HandleStaDisconnected \/ HandleConnected
    \/ HandleDisconnected \/ HandlerClearConnected \/ HandlerSetDisconnected

Network == WifiJoins \/ WifiFailsToJoin \/ WifiDrops \/ SocketBreaks

Next == ConnAttempt \/ ConnWatch \/ Agent \/ EventLoop \/ Network

\* The scheduler runs every ready task (the two MQTT tasks share a priority
\* and the event loop's is higher); app_wifi asks for the access point again
\* whenever it did not get it, and not for ever in vain.
Fairness ==
    /\ WF_vars(ConnAttempt \/ ConnWatch)
    /\ WF_vars(Agent)
    /\ WF_vars(EventLoop)
    /\ SF_vars(WifiJoins)

Spec == Init /\ [][Next]_vars
FairSpec == Spec /\ Fairness

\* A TLS handshake takes round trips to the broker; what it races against, two
\* event group calls and the draining of the event loop's queue, does not.
LocalWorkDone ==
    /\ eventQueue = <<>>
    /\ loopPc = "idle"
    /\ agentPc \notin {"clearConnected", "setDisconnected",
                       "postDisconnected"}
HandshakeIsSlow == ConnTlsConnect => LocalWorkDone

-----------------------------------------------------------------------------
\* Every variable keeps its type: neither queue holds more than it can, a bit
\* of the group is one of the three, and a task is at a step of its code.
TypeOK ==
    /\ bits \in SUBSET Bits
    /\ eventQueue \in Seq(Events)
    /\ Len(eventQueue) <= EventQueueLength
    /\ loopPc \in LoopPcs
    /\ agentPc \in AgentPcs
    /\ connPc \in ConnPcs
    /\ tls \in {"none", "up", "broken"}
    /\ xCleanSession \in BOOLEAN
    /\ processLoops \in 0 .. CommandQueueLength
    /\ notified \in BOOLEAN
    /\ wifi \in BOOLEAN
    /\ demoConnected \in BOOLEAN
    /\ faults \in 0 .. MaxFaults

\* The two bits are a handshake between tasks that each wait for one of them:
\* with neither set, both tasks would sleep for ever over a live or a dead
\* connection.  Whenever neither is set, a task is between its clear (lines
\* 529, 773, 811, 893) and the set that follows it.
NoLostSignal ==
    {"CONNECTED", "DISCONNECTED"} \cap bits = {} =>
        \/ connPc \in {"setConnected", "setDisconnected"}
        \/ agentPc = "setDisconnected"
        \/ loopPc = "setDisconnected"

Queued(events) == \E i \in DOMAIN eventQueue : eventQueue[i] \in events

\* The manager "needs to be started before starting WiFi so it can handle WiFi
\* connection events" (main.c:288): once the event loop has caught up,
\* WIFI_CONNECTED is set exactly if the station has an address, whatever was
\* lost and joined while handlers were being called.
WifiBitAccurate ==
    ~Queued({"GotIp", "StaDisconnected"}) =>
        (("WIFI_CONNECTED" \in bits) <=> wifi)

\* Only the connection task withdraws DISCONNECTED, and only once it has a new
\* session: from the teardown to line 773 no other task, and no stale event,
\* can make it believe that the session it is replacing is still in use.
ReconnectHoldsDisconnected ==
    connPc \in ConnectPcs => "DISCONNECTED" \in bits

\* A connection is in service: the agent runs its command loop over a live
\* socket, the manager has not been told otherwise and the demos know.
InService ==
    /\ agentPc = "commandLoop"
    /\ tls = "up"
    /\ "CONNECTED" \in bits
    /\ "DISCONNECTED" \notin bits
    /\ demoConnected

\* Once faults stop and handshakes take their time, the manager settles for good
\* in a connection that is in service: stale events and half-updated bits cost
\* reconnects, never the service.
EventuallyInService == <>[][HandshakeIsSlow]_vars => <>[]InService

\* A dead socket is always noticed by one of the two tasks (the command loop's
\* error, line 520, or select's, line 809) and replaced.
DeadSocketReplaced == (tls = "broken") ~> (tls # "broken")

-----------------------------------------------------------------------------
(* What a comment of the code claims and the tasks do not respect.         *)

\* Line 474, where prvHandleResubscribe enqueues with no block time: "the
\* command loop is not running at this point".
CommandLoopStoppedAtResubscribe ==
    connPc = "resubscribe" => agentPc # "commandLoop"
=============================================================================
