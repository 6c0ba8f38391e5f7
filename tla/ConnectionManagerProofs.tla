---------------------- MODULE ConnectionManagerProofs ----------------------
(***************************************************************************)
(* What holds of the connection manager for every queue length and any     *)
(* number of faults.                                                       *)
(***************************************************************************)
EXTENDS ConnectionManager, TLAPS

\* The event loop's queue and the fault budget stay within their bounds.
LEMMA PostTyped ==
  ASSUME TypeOK, NEW event \in Events, Post(event)
  PROVE  /\ eventQueue' \in Seq(Events)
         /\ Len(eventQueue') <= EventQueueLength
BY ConstantsAssumption DEF ConstantsAssumption, Post, TypeOK

\* Taking the head of the event queue leaves a shorter queue of events.
LEMMA DispatchTyped ==
  ASSUME TypeOK, NEW event \in Events, Dispatch(event)
  PROVE  /\ eventQueue' \in Seq(Events)
         /\ Len(eventQueue') <= EventQueueLength
BY ConstantsAssumption DEF ConstantsAssumption, Dispatch, TypeOK

\* A fault spends one unit of the budget and never overdraws it.
LEMMA SpendFaultTyped ==
  ASSUME TypeOK, SpendFault
  PROVE  faults' \in 0 .. MaxFaults
BY ConstantsAssumption DEF ConstantsAssumption, SpendFault, TypeOK

\* Before any task has run every variable has its type.
LEMMA TypeInit ==
  ASSUME TasksInit, bits \in SUBSET Bits
  PROVE  TypeOK
<1> USE DEF TasksInit
<1>1. eventQueue \in Seq(Events) /\ Len(eventQueue) <= EventQueueLength
  BY ConstantsAssumption DEF ConstantsAssumption
<1>2. loopPc \in LoopPcs /\ agentPc \in AgentPcs /\ connPc \in ConnPcs
  BY DEF LoopPcs, AgentPcs, ConnPcs
<1>3. processLoops \in 0 .. CommandQueueLength /\ faults \in 0 .. MaxFaults
  BY ConstantsAssumption DEF ConstantsAssumption
<1> QED
  BY <1>1, <1>2, <1>3 DEF TypeOK

\* A step of any task, or of the network, keeps every variable's type.
LEMMA TypeStep ==
  ASSUME TypeOK, [Next]_vars
  PROVE  TypeOK'
<1> USE ConstantsAssumption DEF ConstantsAssumption
<1> USE DEF TypeOK, Bits, Events, LoopPcs, AgentPcs, ConnPcs, ConnectPcs,
            loopVars, envVars
<1>1. CASE ConnWaitBits
  BY <1>1 DEF ConnWaitBits, ConnGoto, shared, ReadyToConnect
<1>2. CASE ConnTeardown
  BY <1>2 DEF ConnTeardown, ConnGoto, shared
<1>3. CASE ConnTlsConnect
  BY <1>3 DEF ConnTlsConnect, ConnGoto, shared
<1>4. CASE ConnMqttConnect
  BY <1>4 DEF ConnMqttConnect, ConnGoto, shared
<1>5. ASSUME NEW sessionPresent \in BOOLEAN,
           ConnResumeSession(sessionPresent)
     PROVE  TypeOK'
  BY <1>5 DEF ConnResumeSession, ConnGoto, shared
<1>6. CASE ConnResubscribe
  BY <1>6 DEF ConnResubscribe, ConnGoto, shared
<1>7. CASE ConnAttemptFails
  BY <1>7, SpendFaultTyped DEF ConnAttemptFails, shared
<1>8. CASE ConnBackoff
  BY <1>8 DEF ConnBackoff, ConnGoto, shared
<1>9. CASE ConnClearDisconnected
  BY <1>9 DEF ConnClearDisconnected, ConnGoto, connLocal, ClearBit
<1>10. CASE ConnSetConnected
  BY <1>10 DEF ConnSetConnected, ConnGoto, connLocal, AgentWoken, ReadyToRun
<1>11. CASE ConnPostConnected
  BY <1>11, PostTyped DEF ConnPostConnected, ConnGoto, connLocal
<1>12. CASE ConnLeaveWatch
  BY <1>12 DEF ConnLeaveWatch, ConnGoto, connLocal
<1>13. CASE ConnReadable
  BY <1>13 DEF ConnReadable, ConnGoto, connLocal
<1>14. CASE ConnNotified
  BY <1>14 DEF ConnNotified, ConnGoto, connLocal
<1>15. CASE ConnNotifyTimeout
  BY <1>15 DEF ConnNotifyTimeout, ConnGoto, connLocal
<1>16. CASE ConnSocketError
  BY <1>16 DEF ConnSocketError, ConnGoto, connLocal
<1>17. CASE ConnClearConnected
  BY <1>17 DEF ConnClearConnected, ConnGoto, connLocal, ClearBit
<1>18. CASE ConnSetDisconnected
  BY <1>18 DEF ConnSetDisconnected, ConnGoto, connLocal
<1>19. CASE ConnPostDisconnected
  BY <1>19, PostTyped DEF ConnPostDisconnected, ConnGoto, connLocal
<1>20. CASE AgentWaitBits
  BY <1>20 DEF AgentWaitBits, AgentGoto, agentLocal, ReadyToRun
<1>21. CASE AgentProcessLoop
  BY <1>21 DEF AgentProcessLoop, agentLocal
<1>22. CASE AgentLoopFails
  <2>1. faults' \in 0 .. MaxFaults
    BY <1>22, SpendFaultTyped DEF AgentLoopFails
  <2>2. processLoops' \in 0 .. CommandQueueLength
    BY <1>22 DEF AgentLoopFails
  <2>3. /\ xCleanSession' \in BOOLEAN /\ notified' \in BOOLEAN
        /\ wifi' \in BOOLEAN /\ demoConnected' \in BOOLEAN
    BY <1>22 DEF AgentLoopFails, agentLocal
  <2>4. /\ bits' \in SUBSET Bits
        /\ loopPc' \in LoopPcs /\ agentPc' \in AgentPcs
        /\ connPc' \in ConnPcs
    BY <1>22 DEF AgentLoopFails, AgentGoto, agentLocal
  <2>5. /\ tls' \in {"none", "up", "broken"}
        /\ eventQueue' \in Seq(Events)
        /\ Len(eventQueue') <= EventQueueLength
    BY <1>22 DEF AgentLoopFails, agentLocal
  <2> QED
    BY <2>1, <2>2, <2>3, <2>4, <2>5
<1>23. CASE AgentClearConnected
  BY <1>23 DEF AgentClearConnected, AgentGoto, agentLocal, ClearBit
<1>24. CASE AgentSetDisconnected
  BY <1>24 DEF AgentSetDisconnected, AgentGoto, agentLocal, ConnWoken,
         ReadyToConnect
<1>25. CASE AgentPostDisconnected
  BY <1>25, PostTyped DEF AgentPostDisconnected, AgentGoto, agentLocal
<1>26. CASE HandleGotIp
  BY <1>26, DispatchTyped DEF HandleGotIp, loopLocal, ConnWoken,
         ReadyToConnect
<1>27. CASE HandleStaDisconnected
  BY <1>27, DispatchTyped DEF HandleStaDisconnected, loopLocal, ClearBit
<1>28. CASE HandleConnected
  BY <1>28, DispatchTyped DEF HandleConnected, loopLocal
<1>29. CASE HandleDisconnected
  <2>1. /\ eventQueue' \in Seq(Events)
        /\ Len(eventQueue') <= EventQueueLength
    BY <1>29, DispatchTyped DEF HandleDisconnected
  <2>2. loopPc' \in LoopPcs /\ demoConnected' \in BOOLEAN
    BY <1>29 DEF HandleDisconnected
  <2> QED
    BY <1>29, <2>1, <2>2 DEF HandleDisconnected, loopLocal
<1>30. CASE HandlerClearConnected
  BY <1>30 DEF HandlerClearConnected, loopLocal, ClearBit
<1>31. CASE HandlerSetDisconnected
  BY <1>31 DEF HandlerSetDisconnected, loopLocal, ConnWoken, ReadyToConnect
<1>32. CASE WifiJoins
  BY <1>32, PostTyped DEF WifiJoins, netUnchanged
<1>33. CASE WifiDrops
  <2>1. faults' \in 0 .. MaxFaults
    BY <1>33, SpendFaultTyped DEF WifiDrops
  <2>2. /\ eventQueue' \in Seq(Events)
        /\ Len(eventQueue') <= EventQueueLength
    BY <1>33, PostTyped DEF WifiDrops
  <2>3. /\ bits' \in SUBSET Bits
        /\ loopPc' \in LoopPcs /\ agentPc' \in AgentPcs
        /\ connPc' \in ConnPcs
    BY <1>33 DEF WifiDrops, netUnchanged
  <2>4. /\ tls' \in {"none", "up", "broken"}
        /\ processLoops' \in 0 .. CommandQueueLength
    BY <1>33 DEF WifiDrops, netUnchanged
  <2>5. /\ xCleanSession' \in BOOLEAN /\ notified' \in BOOLEAN
        /\ wifi' \in BOOLEAN /\ demoConnected' \in BOOLEAN
    BY <1>33 DEF WifiDrops, netUnchanged
  <2> QED
    BY <2>1, <2>2, <2>3, <2>4, <2>5
<1>34. CASE SocketBreaks
  BY <1>34, SpendFaultTyped DEF SocketBreaks, netUnchanged
<1>35. CASE WifiFailsToJoin
  BY <1>35, PostTyped DEF WifiFailsToJoin, netUnchanged, envVars
<1>36. CASE UNCHANGED vars
  BY <1>36 DEF vars, loopVars, envVars
<1> QED
  BY <1>1, <1>2, <1>3, <1>4, <1>5, <1>6, <1>7, <1>8, <1>9, <1>10, <1>11,
     <1>12, <1>13, <1>14, <1>15, <1>16, <1>17, <1>18, <1>19, <1>20,
     <1>21, <1>22, <1>23, <1>24, <1>25, <1>26, <1>27, <1>28, <1>29,
     <1>30, <1>31, <1>32, <1>33, <1>34, <1>35, <1>36
     DEF Next, ConnAttempt, ConnWatch, Agent, EventLoop, Network

\* Every task keeps to its program counters, no poster overfills the event
\* loop's queue and no task the agent's.
THEOREM TypeCorrect == Spec => []TypeOK
<1>1. Init => TypeOK
  BY TypeInit DEF Init, Bits
<1>2. TypeOK /\ [Next]_vars => TypeOK'
  BY TypeStep
<1> QED
  BY <1>1, <1>2, PTL DEF Spec

\* The two invariants are inductive as they stand, over the type invariant:
\* a cleared bit leaves its task at the set that follows, and only the
\* connection task, leaving ConnectPcs, withdraws DISCONNECTED.
Handshake == NoLostSignal /\ ReconnectHoldsDisconnected

\* Every step keeps the agreement between the manager's stage, the agent task
\* and the two event bits.
LEMMA HandshakeStep ==
  ASSUME TypeOK, Handshake, [Next]_vars
  PROVE  Handshake'
<1> USE DEF Handshake, NoLostSignal, ReconnectHoldsDisconnected, TypeOK, Bits,
            ConnectPcs, loopVars, envVars
<1>1. CASE ConnWaitBits
  BY <1>1 DEF ConnWaitBits, ConnGoto, shared, ReadyToConnect
<1>2. CASE ConnTeardown
  BY <1>2 DEF ConnTeardown, ConnGoto, shared
<1>3. CASE ConnTlsConnect
  BY <1>3 DEF ConnTlsConnect, ConnGoto, shared
<1>4. CASE ConnMqttConnect
  BY <1>4 DEF ConnMqttConnect, ConnGoto, shared
<1>5. ASSUME NEW sessionPresent \in BOOLEAN,
           ConnResumeSession(sessionPresent)
     PROVE  Handshake'
  BY <1>5 DEF ConnResumeSession, ConnGoto, shared
<1>6. CASE ConnResubscribe
  BY <1>6 DEF ConnResubscribe, ConnGoto, shared
<1>7. CASE ConnAttemptFails
  BY <1>7 DEF ConnAttemptFails, shared, SpendFault
<1>8. CASE ConnBackoff
  BY <1>8 DEF ConnBackoff, ConnGoto, shared
<1>9. CASE ConnClearDisconnected
  BY <1>9 DEF ConnClearDisconnected, ConnGoto, connLocal, ClearBit
<1>10. CASE ConnSetConnected
  BY <1>10 DEF ConnSetConnected, ConnGoto, connLocal, AgentWoken, ReadyToRun
<1>11. CASE ConnPostConnected
  BY <1>11 DEF ConnPostConnected, ConnGoto, connLocal, Post
<1>12. CASE ConnLeaveWatch
  BY <1>12 DEF ConnLeaveWatch, ConnGoto, connLocal
<1>13. CASE ConnReadable
  BY <1>13 DEF ConnReadable, ConnGoto, connLocal
<1>14. CASE ConnNotified
  BY <1>14 DEF ConnNotified, ConnGoto, connLocal
<1>15. CASE ConnNotifyTimeout
  BY <1>15 DEF ConnNotifyTimeout, ConnGoto, connLocal
<1>16. CASE ConnSocketError
  BY <1>16 DEF ConnSocketError, ConnGoto, connLocal
<1>17. CASE ConnClearConnected
  BY <1>17 DEF ConnClearConnected, ConnGoto, connLocal, ClearBit
<1>18. CASE ConnSetDisconnected
  BY <1>18 DEF ConnSetDisconnected, ConnGoto, connLocal
<1>19. CASE ConnPostDisconnected
  BY <1>19 DEF ConnPostDisconnected, ConnGoto, connLocal, Post
<1>20. CASE AgentWaitBits
  BY <1>20 DEF AgentWaitBits, AgentGoto, agentLocal, ReadyToRun
<1>21. CASE AgentProcessLoop
  BY <1>21 DEF AgentProcessLoop, agentLocal
<1>22. CASE AgentLoopFails
  BY <1>22 DEF AgentLoopFails, AgentGoto, agentLocal, SpendFault
<1>23. CASE AgentClearConnected
  BY <1>23 DEF AgentClearConnected, AgentGoto, agentLocal, ClearBit
<1>24. CASE AgentSetDisconnected
  BY <1>24 DEF AgentSetDisconnected, AgentGoto, agentLocal, ConnWoken,
         ReadyToConnect
<1>25. CASE AgentPostDisconnected
  BY <1>25 DEF AgentPostDisconnected, AgentGoto, agentLocal, Post
<1>26. CASE HandleGotIp
  BY <1>26 DEF HandleGotIp, loopLocal, Dispatch, ConnWoken, ReadyToConnect
<1>27. CASE HandleStaDisconnected
  BY <1>27 DEF HandleStaDisconnected, loopLocal, Dispatch, ClearBit
<1>28. CASE HandleConnected
  BY <1>28 DEF HandleConnected, loopLocal, Dispatch
<1>29. CASE HandleDisconnected
  BY <1>29 DEF HandleDisconnected, loopLocal, Dispatch
<1>30. CASE HandlerClearConnected
  BY <1>30 DEF HandlerClearConnected, loopLocal, ClearBit
<1>31. CASE HandlerSetDisconnected
  BY <1>31 DEF HandlerSetDisconnected, loopLocal, ConnWoken, ReadyToConnect
<1>32. CASE WifiJoins
  BY <1>32 DEF WifiJoins, netUnchanged, Post
<1>33. CASE WifiDrops
  BY <1>33 DEF WifiDrops, netUnchanged, SpendFault, Post
<1>34. CASE SocketBreaks
  BY <1>34 DEF SocketBreaks, netUnchanged, SpendFault
<1>35. CASE WifiFailsToJoin
  BY <1>35 DEF WifiFailsToJoin, netUnchanged, Post, envVars
<1>36. CASE UNCHANGED vars
  BY <1>36 DEF vars, loopVars, envVars
<1> QED
  BY <1>1, <1>2, <1>3, <1>4, <1>5, <1>6, <1>7, <1>8, <1>9, <1>10, <1>11,
     <1>12, <1>13, <1>14, <1>15, <1>16, <1>17, <1>18, <1>19, <1>20,
     <1>21, <1>22, <1>23, <1>24, <1>25, <1>26, <1>27, <1>28, <1>29,
     <1>30, <1>31, <1>32, <1>33, <1>34, <1>35, <1>36
     DEF Next, ConnAttempt, ConnWatch, Agent, EventLoop, Network

\* The agreement holds throughout.
LEMMA HandshakeInvariant == Spec => []Handshake
<1>1. Init => Handshake
  BY DEF Init, TasksInit, Handshake, NoLostSignal, ReconnectHoldsDisconnected, ConnectPcs
<1>2. TypeOK /\ Handshake /\ [Next]_vars => Handshake'
  BY HandshakeStep
<1> QED
  BY <1>1, <1>2, TypeCorrect, PTL DEF Spec

\* Whatever the interleaving of the three tasks' two-step updates, the event
\* group never loses its signal (core_mqtt_agent_manager.c:529, 773, 811, 893).
THEOREM SignalNeverLost == Spec => []NoLostSignal
<1>1. Handshake => NoLostSignal
  BY DEF Handshake
<1> QED
  BY <1>1, HandshakeInvariant, PTL

\* No event handled late, and no failure of the agent, ends a reconnect early.
THEOREM ReconnectKeepsDisconnected == Spec => []ReconnectHoldsDisconnected
<1>1. Handshake => ReconnectHoldsDisconnected
  BY DEF Handshake
<1> QED
  BY <1>1, HandshakeInvariant, PTL

\* The last WiFi event in the event loop's queue tells the state of the station;
\* if there is none, the event group does.
WifiEvents == {"GotIp", "StaDisconnected"}
LastWifiEvent ==
    \A i \in DOMAIN eventQueue :
        /\ eventQueue[i] \in WifiEvents
        /\ \A j \in DOMAIN eventQueue : j > i => eventQueue[j] \notin WifiEvents
        => (eventQueue[i] = "GotIp" <=> wifi)
WifiTold == WifiBitAccurate /\ LastWifiEvent

\* Posting anything else changes neither.
LEMMA PostOther ==
  ASSUME TypeOK, WifiTold, NEW event \in Events \ WifiEvents, Post(event),
         wifi' = wifi, ("WIFI_CONNECTED" \in bits') <=> ("WIFI_CONNECTED" \in bits)
  PROVE  WifiTold'
<1> USE DEF TypeOK, WifiTold, WifiBitAccurate, LastWifiEvent, Queued, Post
<1>1. /\ DOMAIN eventQueue' = DOMAIN eventQueue \cup {Len(eventQueue) + 1}
      /\ eventQueue'[Len(eventQueue) + 1] = event
      /\ \A i \in DOMAIN eventQueue : eventQueue'[i] = eventQueue[i]
  OBVIOUS
<1>2. event \notin WifiEvents /\ WifiEvents = {"GotIp", "StaDisconnected"}
  BY DEF WifiEvents
<1>3. LastWifiEvent'
  BY <1>1, <1>2
<1>4. WifiBitAccurate'
  BY <1>1, <1>2
<1> QED
  BY <1>3, <1>4

\* Posting a WiFi event makes it the last one.
LEMMA PostWifi ==
  ASSUME TypeOK, NEW event \in WifiEvents, Post(event),
         event = "GotIp" <=> wifi'
  PROVE  WifiTold'
<1> USE DEF TypeOK, WifiTold, WifiBitAccurate, LastWifiEvent, Queued, Post, WifiEvents
<1>1. /\ DOMAIN eventQueue' = DOMAIN eventQueue \cup {Len(eventQueue) + 1}
      /\ eventQueue'[Len(eventQueue) + 1] = event
      /\ DOMAIN eventQueue = 1 .. Len(eventQueue)
  OBVIOUS
<1>2. \A i \in DOMAIN eventQueue : Len(eventQueue) + 1 > i
  BY <1>1
<1>3. LastWifiEvent'
  BY <1>1, <1>2
<1>4. WifiBitAccurate'
  BY <1>1
<1> QED
  BY <1>3, <1>4

\* The handler of the last WiFi event leaves the bit as the event says.
LEMMA DispatchWifi ==
  ASSUME TypeOK, WifiTold, NEW event \in Events, Dispatch(event), wifi' = wifi,
         IF event \in WifiEvents
         THEN ("WIFI_CONNECTED" \in bits') <=> (event = "GotIp")
         ELSE ("WIFI_CONNECTED" \in bits') <=> ("WIFI_CONNECTED" \in bits)
  PROVE  WifiTold'
<1> USE DEF TypeOK, WifiTold, WifiBitAccurate, LastWifiEvent, Queued, Dispatch
<1>1. /\ Len(eventQueue) > 0
      /\ DOMAIN eventQueue = 1 .. Len(eventQueue)
      /\ DOMAIN eventQueue' = 1 .. Len(eventQueue) - 1
      /\ \A i \in 1 .. Len(eventQueue) - 1 : eventQueue'[i] = eventQueue[i + 1]
      /\ eventQueue[1] = event
  OBVIOUS
<1>2. \A i \in DOMAIN eventQueue : i > 1 => i - 1 \in DOMAIN eventQueue' /\ eventQueue'[i - 1] = eventQueue[i]
  BY <1>1
<1>3. LastWifiEvent'
  <2> SUFFICES ASSUME NEW i \in DOMAIN eventQueue', eventQueue'[i] \in WifiEvents,
                      \A j \in DOMAIN eventQueue' : j > i => eventQueue'[j] \notin WifiEvents
               PROVE  eventQueue'[i] = "GotIp" <=> wifi'
    OBVIOUS
  <2>1. i + 1 \in DOMAIN eventQueue /\ eventQueue[i + 1] \in WifiEvents
    BY <1>1
  <2>2. ASSUME NEW j \in DOMAIN eventQueue, j > i + 1
        PROVE  eventQueue[j] \notin WifiEvents
    <3>1. j - 1 \in DOMAIN eventQueue' /\ eventQueue'[j - 1] = eventQueue[j]
      BY <1>1, <1>2, <2>2
    <3>2. j - 1 > i
      BY <1>1, <2>2
    <3> QED
      BY <3>1, <3>2
  <2> QED
    BY <1>1, <2>1, <2>2
<1>4. WifiBitAccurate'
  <2> SUFFICES ASSUME \A j \in DOMAIN eventQueue' : eventQueue'[j] \notin WifiEvents
               PROVE  ("WIFI_CONNECTED" \in bits') <=> wifi'
    BY DEF WifiEvents
  <2>1. \A j \in DOMAIN eventQueue : j > 1 => eventQueue[j] \notin WifiEvents
    BY <1>1, <1>2
  <2>2. CASE event \in WifiEvents
    BY <1>1, <2>1, <2>2
  <2>3. CASE event \notin WifiEvents
    <3>1. \A j \in DOMAIN eventQueue : eventQueue[j] \notin WifiEvents
      BY <1>1, <2>1, <2>3
    <3> QED
      BY <2>3, <3>1 DEF WifiEvents
  <2> QED
    BY <2>2, <2>3
<1> QED
  BY <1>3, <1>4

\* A step that leaves the event queue and the station alone keeps the bit.
LEMMA QuietWifi ==
  ASSUME WifiTold, UNCHANGED <<eventQueue, wifi>>,
         ("WIFI_CONNECTED" \in bits') <=> ("WIFI_CONNECTED" \in bits)
  PROVE  WifiTold'
BY DEF WifiTold, WifiBitAccurate, LastWifiEvent, Queued

\* Every step keeps queue, event group and station telling the same story.
LEMMA WifiStep ==
  ASSUME TypeOK, WifiTold, [Next]_vars
  PROVE  WifiTold'
<1> USE DEF loopVars, envVars
<1>1. CASE ConnAttempt
  BY <1>1, QuietWifi
     DEF ConnAttempt, ConnWaitBits, ConnTeardown, ConnTlsConnect,
         ConnMqttConnect, ConnResumeSession, ConnResubscribe, ConnAttemptFails,
         ConnBackoff, shared
<1>2. CASE ConnWatch
  <2>1. CASE ConnPostConnected
    BY <2>1, PostOther DEF ConnPostConnected, connLocal, Events, WifiEvents
  <2>2. CASE ConnPostDisconnected
    BY <2>2, PostOther DEF ConnPostDisconnected, connLocal, Events, WifiEvents
  <2>3. CASE ~ConnPostConnected /\ ~ConnPostDisconnected
    <3>1. /\ UNCHANGED <<eventQueue, wifi>>
          /\ ("WIFI_CONNECTED" \in bits') <=> ("WIFI_CONNECTED" \in bits)
      BY <1>2, <2>3
         DEF ConnWatch, ConnClearDisconnected, ConnSetConnected, ConnLeaveWatch,
             ConnReadable, ConnNotified, ConnNotifyTimeout, ConnSocketError,
             ConnClearConnected, ConnSetDisconnected, connLocal, ClearBit
    <3> QED
      BY <3>1, QuietWifi
  <2> QED
    BY <2>1, <2>2, <2>3
<1>3. CASE Agent
  <2>1. CASE AgentPostDisconnected
    BY <2>1, PostOther DEF AgentPostDisconnected, agentLocal, Events, WifiEvents
  <2>2. CASE ~AgentPostDisconnected
    <3>1. /\ UNCHANGED <<eventQueue, wifi>>
          /\ ("WIFI_CONNECTED" \in bits') <=> ("WIFI_CONNECTED" \in bits)
      BY <1>3, <2>2
         DEF Agent, AgentWaitBits, AgentProcessLoop, AgentLoopFails,
             AgentClearConnected, AgentSetDisconnected, agentLocal, ClearBit
    <3> QED
      BY <3>1, QuietWifi
  <2> QED
    BY <2>1, <2>2
<1>4. CASE EventLoop
  <2>1. CASE HandleGotIp
    BY <2>1, DispatchWifi DEF HandleGotIp, loopLocal, Events, WifiEvents
  <2>2. CASE HandleStaDisconnected
    BY <2>2, DispatchWifi
       DEF HandleStaDisconnected, loopLocal, ClearBit, Events, WifiEvents
  <2>3. CASE HandleConnected
    BY <2>3, DispatchWifi DEF HandleConnected, loopLocal, Events, WifiEvents
  <2>4. CASE HandleDisconnected
    BY <2>4, DispatchWifi DEF HandleDisconnected, loopLocal, Events, WifiEvents
  <2>5. CASE HandlerClearConnected \/ HandlerSetDisconnected
    BY <2>5, QuietWifi
       DEF HandlerClearConnected, HandlerSetDisconnected, loopLocal, ClearBit
  <2> QED
    BY <1>4, <2>1, <2>2, <2>3, <2>4, <2>5 DEF EventLoop
<1>5. CASE Network
  <2>1. CASE WifiJoins
    BY <2>1, PostWifi DEF WifiJoins, WifiEvents
  <2>2. CASE WifiFailsToJoin
    BY <2>2, PostWifi DEF WifiFailsToJoin, WifiEvents
  <2>3. CASE WifiDrops
    BY <2>3, PostWifi DEF WifiDrops, WifiEvents
  <2>4. CASE SocketBreaks
    BY <2>4, QuietWifi DEF SocketBreaks, netUnchanged
  <2> QED
    BY <1>5, <2>1, <2>2, <2>3, <2>4 DEF Network
<1>6. CASE UNCHANGED vars
  BY <1>6, QuietWifi DEF vars
<1> QED
  BY <1>1, <1>2, <1>3, <1>4, <1>5, <1>6 DEF Next

\* Before any WiFi event is posted the station has no address and no bit is set.
LEMMA WifiInit ==
  ASSUME TasksInit, "WIFI_CONNECTED" \notin bits
  PROVE  WifiTold
BY DEF TasksInit, WifiTold, WifiBitAccurate, LastWifiEvent, Queued

\* Once the event loop has caught up, the event group tells whether the station
\* has an address, through any number of losses and failed attempts to join.
THEOREM WifiBitFollowsStation == Spec => []WifiBitAccurate
<1>1. Init => WifiTold
  BY WifiInit DEF Init
<1>2. TypeOK /\ WifiTold /\ [Next]_vars => WifiTold'
  BY WifiStep
<1>3. WifiTold => WifiBitAccurate
  BY DEF WifiTold
<1> QED
  BY <1>1, <1>2, <1>3, TypeCorrect, PTL DEF Spec
=============================================================================
