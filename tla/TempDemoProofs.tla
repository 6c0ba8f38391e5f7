--------------------------- MODULE TempDemoProofs ---------------------------
(***************************************************************************)
(* What holds of the temperature demo for every capacity of the command    *)
(* queue, any number of other clients, of faults and of expired sessions.  *)
(***************************************************************************)
EXTENDS TempSubPubAndLEDControlDemo, FiniteSetTheorems, FunctionTheorems, TLAPS

\* The task has at most one command in the agent's hands, queued or sent, and
\* only while it waits for it without having been notified; a notification that
\* is pending is the one the task waits for.
WaitsFor(c) == IF c = "subscribe" THEN "waitSubscribed" ELSE "waitPublished"
IsQueued(c) == \E i \in DOMAIN queue : queue[i] = c
QueuedOnce(c) == \A i, j \in DOMAIN queue : queue[i] = c /\ queue[j] = c => i = j
OneOutstanding(c) ==
    /\ IsQueued(c) \/ pending[c] > 0 =>
          taskPc = WaitsFor(c) /\ ~notification.pending
    /\ IsQueued(c) => pending[c] = 0
    /\ QueuedOnce(c)
    /\ pending[c] <= 1
NotificationAwaited ==
    notification.pending =>
        \/ taskPc = "waitSubscribed"
        \/ taskPc = "waitPublished" /\ notification.value = ulValueToNotify
Awaited ==
    /\ \A c \in {"subscribe", "publish"} : OneOutstanding(c)
    /\ NotificationAwaited
    /\ ~timedOut

-----------------------------------------------------------------------------
\* Before the task has run every variable has its type.
LEMMA TypeInit == Init => TypeOK
<1> SUFFICES ASSUME Init PROVE TypeOK
  OBVIOUS
<1> USE ConstantsAssumption DEF ConstantsAssumption, Init
<1>1. /\ ulValueToNotify \in 0 .. NotificationValues - 1
      /\ notification \in [pending : BOOLEAN, value : 0 .. NotificationValues - 1]
      /\ commands \in 0 .. MaxCommands /\ faults \in 0 .. MaxFaults
      /\ expiries \in 0 .. MaxExpiries
  OBVIOUS
<1>2. queue \in Seq(Commands) /\ Len(queue) <= CommandQueueLength
  OBVIOUS
<1>3. pending \in [Own -> Nat]
  OBVIOUS
<1>4. /\ posted \in Seq({"Connected", "Disconnected"}) /\ toBroker \in Seq(Own)
      /\ taskPc \in TaskPcs /\ bits \subseteq Bits
  BY DEF TaskPcs
<1>5. /\ timedOut \in BOOLEAN /\ led \in BOOLEAN /\ registered \in BOOLEAN
      /\ subArgs \in BOOLEAN /\ conn \in {"off", "resubscribe", "announce", "on"}
      /\ xCleanSession \in BOOLEAN /\ link \in BOOLEAN
      /\ session \in {"none", "clean", "persistent"} /\ subscribed \in BOOLEAN
      /\ missed \in BOOLEAN /\ asked \in BOOLEAN /\ abandoned \in BOOLEAN
      /\ watch \in {"left", "watching", "waits"} /\ notified \in BOOLEAN
  OBVIOUS
<1> QED
  BY <1>1, <1>2, <1>3, <1>4, <1>5 DEF TypeOK

\* The callbacks of any commands leave the notification, the list and the history
\* with their types.
LEMMA CompleteTyped ==
  ASSUME TypeOK, NEW cs, NEW success, Complete(cs, success)
  PROVE  /\ notification' \in [pending : BOOLEAN, value : 0 .. NotificationValues - 1]
         /\ registered' \in BOOLEAN
         /\ abandoned' \in BOOLEAN
<1>1. 0 \in 0 .. NotificationValues - 1 /\ 1 \in 0 .. NotificationValues - 1
  BY ConstantsAssumption DEF ConstantsAssumption
<1>2. notification' \in [pending : BOOLEAN, value : 0 .. NotificationValues - 1]
  BY <1>1 DEF Complete, TypeOK
<1>3. registered' \in BOOLEAN /\ abandoned' \in BOOLEAN
  BY DEF Complete
<1> QED
  BY <1>2, <1>3

\* So does the end of a connection, with or without its session.
LEMMA CutTyped ==
  ASSUME TypeOK, Cut
  PROVE  /\ link' \in BOOLEAN
         /\ toBroker' \in Seq(Own)
         /\ session' \in {"none", "clean", "persistent"}
         /\ subscribed' \in BOOLEAN /\ missed' \in BOOLEAN
<1>1. link' \in BOOLEAN
  BY DEF Cut
<1>2. toBroker' \in Seq(Own)
  <2>1. toBroker' = <<>>
    BY DEF Cut
  <2> QED
    BY <2>1
<1>3. session' \in {"none", "clean", "persistent"} /\ subscribed' \in BOOLEAN
  <2>1. \/ session' = "none" /\ subscribed' = FALSE
        \/ UNCHANGED <<session, subscribed>>
    BY DEF Cut, LoseSession
  <2> QED
    BY <2>1 DEF TypeOK
<1>4. missed' \in BOOLEAN
  <2>1. CASE session = "clean"
    BY <2>1 DEF Cut, LoseSession
  <2>2. CASE session # "clean"
    BY <2>2 DEF Cut, TypeOK
  <2> QED
    BY <2>1, <2>2
<1> QED
  BY <1>1, <1>2, <1>3, <1>4

\* Taking a command from the queue leaves a shorter queue of commands.
LEMMA DequeueTyped ==
  ASSUME TypeOK, queue # <<>>, queue' = Tail(queue)
  PROVE  queue' \in Seq(Commands) /\ Len(queue') <= CommandQueueLength
BY ConstantsAssumption DEF ConstantsAssumption, TypeOK

\* A command that finds room does not overfill the queue.
LEMMA EnqueueTyped ==
  ASSUME TypeOK, NEW c \in Commands, HasRoom, queue' = Append(queue, c)
  PROVE  queue' \in Seq(Commands) /\ Len(queue') <= CommandQueueLength
BY ConstantsAssumption DEF ConstantsAssumption, TypeOK, HasRoom

\* A fault spends one unit of the budget and never overdraws it.
LEMMA SpendFaultTyped ==
  ASSUME TypeOK, SpendFault
  PROVE  faults' \in 0 .. MaxFaults
BY ConstantsAssumption DEF ConstantsAssumption, SpendFault, TypeOK

\* The notification is cleared with its value in it.
LEMMA ClearTyped ==
  ASSUME TypeOK, notification' = [notification EXCEPT !.pending = FALSE]
  PROVE  notification' \in [pending : BOOLEAN, value : 0 .. NotificationValues - 1]
BY DEF TypeOK

\* A step of the task keeps every variable's type.
LEMMA TaskTyped ==
  ASSUME TypeOK, Task
  PROVE  TypeOK'
<1> USE DEF TypeOK, TaskPcs, outside, connVars, linkVars, watchVars, brokerVars,
            envVars, TaskGoto
<1>1. CASE StartTask
  <2>1. notification' \in [pending : BOOLEAN, value : 0 .. NotificationValues - 1]
    BY <1>1, ClearTyped DEF StartTask
  <2> QED
    BY <1>1, <2>1 DEF StartTask, AppDriverInit, Bits
<1>2. CASE Subscribe
  <2>1. queue' \in Seq(Commands) /\ Len(queue') <= CommandQueueLength
    BY <1>2, EnqueueTyped DEF Subscribe, Commands, Own
  <2> QED
    BY <1>2, <2>1 DEF Subscribe
<1>3. CASE SubscribeAcknowledged
  <2>1. notification' \in [pending : BOOLEAN, value : 0 .. NotificationValues - 1]
    BY <1>3, ClearTyped DEF SubscribeAcknowledged, TakeNotification
  <2> QED
    BY <1>3, <2>1 DEF SubscribeAcknowledged
<1>4. CASE WaitForNetwork
  BY <1>4 DEF WaitForNetwork
<1>5. CASE Publish
  <2>1. queue' \in Seq(Commands) /\ Len(queue') <= CommandQueueLength
    BY <1>5, EnqueueTyped DEF Publish, Commands, Own
  <2> QED
    BY <1>5, <2>1 DEF Publish
<1>6. CASE PublishAcknowledged
  <2>1. notification' \in [pending : BOOLEAN, value : 0 .. NotificationValues - 1]
    BY <1>6, ClearTyped DEF PublishAcknowledged, TakeNotification
  <2>2. timedOut' \in BOOLEAN
    BY <1>6 DEF PublishAcknowledged
  <2> QED
    BY <1>6, <2>1, <2>2 DEF PublishAcknowledged
<1>7. CASE DelayOver
  BY <1>7, ConstantsAssumption DEF DelayOver, ConstantsAssumption
<1> QED
  BY <1>1, <1>2, <1>3, <1>4, <1>5, <1>6, <1>7 DEF Task

\* A command of another client finds room in the queue or waits.
LEMMA OtherTyped ==
  ASSUME TypeOK, OtherClientEnqueues
  PROVE  TypeOK'
<1>1. queue' \in Seq(Commands) /\ Len(queue') <= CommandQueueLength
  BY EnqueueTyped DEF OtherClientEnqueues, Commands
<1> QED
  BY <1>1 DEF OtherClientEnqueues, TypeOK, taskVars, deviceVars, connVars,
              linkVars, watchVars, brokerVars, envVars

\* The end of the command loop leaves the connection's variables with their types.
LEMMA LoopEndsTyped ==
  ASSUME TypeOK, LoopEnds
  PROVE  /\ conn' \in {"off", "resubscribe", "announce", "on"}
         /\ posted' \in Seq({"Connected", "Disconnected"})
         /\ UNCHANGED <<xCleanSession, subArgs>>
         /\ link' \in BOOLEAN
         /\ toBroker' \in Seq(Own)
         /\ session' \in {"none", "clean", "persistent"}
         /\ subscribed' \in BOOLEAN /\ missed' \in BOOLEAN
<1>1. Cut
  BY DEF LoopEnds
<1>2. /\ conn' = "off" /\ posted' = Append(posted, "Disconnected")
      /\ UNCHANGED <<xCleanSession, subArgs>>
  BY DEF LoopEnds
<1>3. posted' \in Seq({"Connected", "Disconnected"})
  BY <1>2 DEF TypeOK
<1> QED
  BY <1>1, <1>2, <1>3, CutTyped

\* A step of the agent's command loop keeps every variable's type.
LEMMA AgentTyped ==
  ASSUME TypeOK, Agent
  PROVE  TypeOK'
<1> USE DEF taskVars, deviceVars, agentVars, connVars, linkVars, watchVars,
            brokerVars, envVars
<1>1. CASE RunCommand
  <2>1. queue' \in Seq(Commands) /\ Len(queue') <= CommandQueueLength
    BY <1>1, DequeueTyped DEF RunCommand
  <2>2. pending' \in [Own -> Nat]
    BY <1>1 DEF RunCommand, TypeOK
  <2>5. watch' \in {"left", "watching", "waits"} /\ notified' \in BOOLEAN
    BY <1>1 DEF RunCommand, ProcessLoopComplete, TypeOK
  <2>6. UNCHANGED <<taskVars, notification, deviceVars, abandoned, envVars>>
    BY <1>1 DEF RunCommand
  <2>3. CASE LoopEnds
    BY <2>1, <2>2, <2>3, <2>5, <2>6, LoopEndsTyped DEF TypeOK
  <2>4. CASE /\ toBroker' = IF link /\ Head(queue) \in Own
                            THEN Append(toBroker, Head(queue)) ELSE toBroker
             /\ UNCHANGED <<linkVars, link, toDevice, session, subscribed, missed>>
    <3>1. toBroker' \in Seq(Own)
      BY <2>4 DEF TypeOK
    <3> QED
      BY <2>1, <2>2, <2>4, <2>5, <2>6, <3>1 DEF TypeOK
  <2> QED
    BY <1>1, <2>3, <2>4 DEF RunCommand
<1>2. CASE RunCommandFails
  <2>1. queue' \in Seq(Commands) /\ Len(queue') <= CommandQueueLength
    BY <1>2, DequeueTyped DEF RunCommandFails
  <2>2. LoopEnds /\ Complete({Head(queue)}, FALSE)
    BY <1>2 DEF RunCommandFails
  <2> QED
    BY <1>2, <2>1, <2>2, LoopEndsTyped, CompleteTyped DEF RunCommandFails, TypeOK
<1>3. CASE LoopFails
  BY <1>3, LoopEndsTyped DEF LoopFails, TypeOK
<1>4. CASE ReceiveAck
  <2> DEFINE ack == Head(toDevice)
  <2>1. ack.type \in Own /\ pending[ack.type] > 0
        /\ pending' = [pending EXCEPT ![ack.type] = @ - 1]
    BY <1>4 DEF ReceiveAck
  <2>2. pending' \in [Own -> Nat]
    BY <2>1 DEF TypeOK
  <2>3. /\ notification' \in [pending : BOOLEAN, value : 0 .. NotificationValues - 1]
        /\ registered' \in BOOLEAN /\ abandoned' \in BOOLEAN
    <3>1. CASE ack.type = "resubscribe"
      BY <1>4, <3>1 DEF ReceiveAck, TypeOK
    <3>2. CASE ack.type # "resubscribe"
      BY <1>4, <3>2, CompleteTyped DEF ReceiveAck
    <3> QED
      BY <3>1, <3>2
  <2> QED
    BY <1>4, <2>2, <2>3 DEF ReceiveAck, TypeOK
<1>5. CASE ReceivePublish
  <2>1. led' \in BOOLEAN
    BY <1>5 DEF ReceivePublish, LedAfter, TypeOK
  <2>2. CASE Cut /\ SpendFault
    BY <1>5, <2>1, <2>2, CutTyped, SpendFaultTyped DEF ReceivePublish, TypeOK
  <2>3. CASE UNCHANGED <<link, toBroker, session, subscribed, missed, faults>>
    BY <1>5, <2>1, <2>3 DEF ReceivePublish, TypeOK
  <2> QED
    BY <1>5, <2>2, <2>3 DEF ReceivePublish
<1> QED
  BY <1>1, <1>2, <1>3, <1>4, <1>5 DEF Agent, RunLoop, Receive

\* A step of the connection task keeps every variable's type.
LEMMA ConnectionTyped ==
  ASSUME TypeOK, Connection
  PROVE  TypeOK'
<1> USE DEF connUnchanged, taskVars, deviceVars, agentVars, connVars, linkVars,
            watchVars, brokerVars, envVars, LeaveWatch
<1>1. CASE ConnectClean
  BY <1>1 DEF ConnectClean, TypeOK
<1>2. CASE ResumeSession
  <2>1. /\ conn' = "announce" /\ link' = TRUE /\ LeaveWatch
        /\ UNCHANGED <<connUnchanged, queue, xCleanSession, posted, subArgs,
                       session, subscribed, missed>>
    BY <1>2 DEF ResumeSession
  <2>2. toBroker' \in Seq(Own)
    <3>1. toBroker' = <<"publish">> \/ toBroker' = <<>>
      BY <1>2 DEF ResumeSession
    <3>2. <<"publish">> \in Seq({"publish"})
      OBVIOUS
    <3>3. Seq({"publish"}) \subseteq Seq(Own)
      BY DEF Own
    <3>4. CASE toBroker' = <<"publish">>
      BY <3>2, <3>3, <3>4
    <3>5. CASE toBroker' = <<>>
      BY <3>5
    <3> QED
      BY <3>1, <3>4, <3>5
  <2>3. pending' \in [Own -> Nat]
    BY <1>2 DEF ResumeSession, TypeOK
  <2>4. /\ notification' \in [pending : BOOLEAN, value : 0 .. NotificationValues - 1]
        /\ registered' \in BOOLEAN /\ abandoned' \in BOOLEAN
    BY <1>2, CompleteTyped DEF ResumeSession
  <2> QED
    BY <2>1, <2>2, <2>3, <2>4 DEF TypeOK
<1>3. CASE StartSession
  <2>1. /\ conn' = "resubscribe" /\ link' = TRUE /\ session' = "persistent"
        /\ LeaveWatch
        /\ UNCHANGED <<connUnchanged, queue, xCleanSession, posted, subArgs,
                       toBroker, subscribed, missed>>
    BY <1>3 DEF StartSession
  <2>2. pending' \in [Own -> Nat]
    BY <1>3 DEF StartSession
  <2>3. /\ notification' \in [pending : BOOLEAN, value : 0 .. NotificationValues - 1]
        /\ registered' \in BOOLEAN /\ abandoned' \in BOOLEAN
    BY <1>3, CompleteTyped DEF StartSession
  <2> QED
    BY <2>1, <2>2, <2>3 DEF TypeOK
<1>4. CASE Resubscribe
  <2>1. /\ subArgs' \in BOOLEAN /\ abandoned' \in BOOLEAN
        /\ UNCHANGED <<connUnchanged, notification, registered, pending,
                       xCleanSession, posted, watchVars>>
    BY <1>4 DEF Resubscribe, TypeOK
  <2>2. CASE registered /\ ~HasRoom
    BY <1>4, <2>1, <2>2, CutTyped DEF Resubscribe, TypeOK
  <2>3. CASE ~(registered /\ ~HasRoom)
    <3>1. queue' \in Seq(Commands) /\ Len(queue') <= CommandQueueLength
      BY <1>4, <2>3, EnqueueTyped DEF Resubscribe, Commands, Own, TypeOK
    <3> QED
      BY <1>4, <2>1, <2>3, <3>1 DEF Resubscribe, TypeOK
  <2> QED
    BY <2>2, <2>3
<1>5. CASE Announce
  <2>1. posted' \in Seq({"Connected", "Disconnected"})
    BY <1>5 DEF Announce, TypeOK
  <2>2. /\ conn' = "on" /\ xCleanSession' \in BOOLEAN /\ watch' = "watching"
        /\ UNCHANGED <<connUnchanged, notification, registered, agentVars, subArgs,
                       notified, brokerVars, abandoned>>
    BY <1>5 DEF Announce
  <2> QED
    BY <2>1, <2>2 DEF TypeOK
<1>6. CASE WaitRunsOut
  BY <1>6 DEF WaitRunsOut, WatchOn, watchUnchanged, TypeOK
<1> QED
  BY <1>1, <1>2, <1>3, <1>4, <1>5, <1>6 DEF Connection

\* So does a round of the connection task's watch of the socket.
LEMMA WatchTyped ==
  ASSUME TypeOK, WatchReadable \/ LoopDelays
  PROVE  TypeOK'
<1> USE DEF watchUnchanged, taskVars, deviceVars, linkVars, brokerVars
<1>1. CASE WatchReadable
  <2>1. queue' \in Seq(Commands) /\ Len(queue') <= CommandQueueLength
    BY <1>1, EnqueueTyped DEF WatchReadable, Commands, TypeOK
  <2>2. watch' \in {"left", "watching", "waits"} /\ notified' \in BOOLEAN
    BY <1>1 DEF WatchReadable, WatchOn
  <2> QED
    BY <1>1, <2>1, <2>2 DEF WatchReadable, TypeOK
<1>2. CASE LoopDelays
  BY <1>2, SpendFaultTyped DEF LoopDelays, TypeOK
<1> QED
  BY <1>1, <1>2

\* A step of the event loop, or of what is outside the device, does so too.
LEMMA OutsideTyped ==
  ASSUME TypeOK,
         \/ HandleEvent \/ Broker \/ LinkBreaks \/ SessionExpires
         \/ \E payload \in OperatorPayloads : OperatorPublishes(payload)
  PROVE  TypeOK'
<1> USE DEF netUnchanged, taskVars, deviceVars, agentVars, connVars, linkVars,
            watchVars, brokerVars, envVars
<1>1. CASE HandleEvent
  <2>1. bits' \subseteq Bits /\ posted' \in Seq({"Connected", "Disconnected"})
    BY <1>1 DEF HandleEvent, BitsAfter, Bits, TypeOK
  <2> QED
    BY <1>1, <2>1 DEF HandleEvent, TypeOK
<1>2. ASSUME NEW ok \in BOOLEAN, BrokerSubscribes(ok) PROVE TypeOK'
  <2>1. faults' \in 0 .. MaxFaults
    BY <1>2, SpendFaultTyped DEF BrokerSubscribes, TypeOK
  <2>2. subscribed' \in BOOLEAN
    BY <1>2 DEF BrokerSubscribes
  <2>3. toBroker' \in Seq(Own)
    BY <1>2 DEF BrokerSubscribes, BrokerTakes, TypeOK
  <2> QED
    BY <1>2, <2>1, <2>2, <2>3 DEF BrokerSubscribes, TypeOK
<1>3. CASE BrokerPublishes
  <2>1. toBroker' \in Seq(Own)
    BY <1>3 DEF BrokerPublishes, BrokerTakes, TypeOK
  <2> QED
    BY <1>3, <2>1 DEF BrokerPublishes, TypeOK
<1>4. CASE LinkBreaks
  <2>1. /\ Cut /\ SpendFault
        /\ UNCHANGED <<netUnchanged, asked, commands, expiries>>
    BY <1>4 DEF LinkBreaks
  <2> QED
    BY <2>1, CutTyped, SpendFaultTyped DEF TypeOK
<1>5. CASE SessionExpires
  <2>1. /\ session' = "none" /\ subscribed' \in BOOLEAN /\ missed' \in BOOLEAN
        /\ UNCHANGED <<netUnchanged, link, toBroker, asked, commands, faults>>
    BY <1>5 DEF SessionExpires, LoseSession
  <2>2. expiries' \in 0 .. MaxExpiries
    BY <1>5, ConstantsAssumption DEF SessionExpires, ConstantsAssumption, TypeOK
  <2> QED
    BY <2>1, <2>2 DEF TypeOK
<1>6. ASSUME NEW payload \in OperatorPayloads, OperatorPublishes(payload)
      PROVE  TypeOK'
  <2>1. asked' \in BOOLEAN
    BY <1>6 DEF OperatorPublishes, LedAfter, TypeOK
  <2>2. commands' \in 0 .. MaxCommands
    BY <1>6, ConstantsAssumption DEF OperatorPublishes, ConstantsAssumption, TypeOK
  <2>3. missed' \in BOOLEAN
    BY <1>6 DEF OperatorPublishes
  <2> QED
    BY <1>6, <2>1, <2>2, <2>3 DEF OperatorPublishes, TypeOK
<1> QED
  BY <1>1, <1>2, <1>3, <1>4, <1>5, <1>6 DEF Broker

\* Every variable keeps its type and the queue its capacity, whatever the other
\* clients, the broker and the network do.
THEOREM TypeCorrect == Spec => []TypeOK
<1>1. TypeOK /\ [Next]_vars => TypeOK'
  <2> SUFFICES ASSUME TypeOK, [Next]_vars PROVE TypeOK'
    OBVIOUS
  <2>1. CASE Next
    BY <2>1, TaskTyped, OtherTyped, AgentTyped, ConnectionTyped, WatchTyped,
       OutsideTyped DEF Next
  <2>2. CASE UNCHANGED vars
    BY <2>2 DEF vars, taskVars, deviceVars, agentVars, connVars, linkVars,
                watchVars, brokerVars, envVars, TypeOK
  <2> QED
    BY <2>1, <2>2
<1> QED
  BY <1>1, TypeInit, PTL DEF Spec

-----------------------------------------------------------------------------
\* The task starts with no command outstanding and no notification.
LEMMA AwaitedInit == Init => Awaited
BY DEF Init, Awaited, OneOutstanding, NotificationAwaited, IsQueued, QueuedOnce,
       Own

\* A step that leaves the task, its notification and its commands alone.
LEMMA AwaitedUntouched ==
  ASSUME Awaited, UNCHANGED <<taskVars, notification, agentVars>>
  PROVE  Awaited'
BY DEF Awaited, OneOutstanding, NotificationAwaited, IsQueued, QueuedOnce,
       WaitsFor, taskVars, agentVars

\* An appended command is queued, once if it was not before.
LEMMA Enqueued ==
  ASSUME TypeOK, NEW c, NEW d, queue' = Append(queue, c)
  PROVE  /\ IsQueued(d)' <=> IsQueued(d) \/ c = d
         /\ QueuedOnce(d) /\ (IsQueued(d) => c # d) => QueuedOnce(d)'
<1>1. /\ DOMAIN queue = 1 .. Len(queue)
      /\ DOMAIN queue' = 1 .. Len(queue) + 1
      /\ queue'[Len(queue) + 1] = c
      /\ \A i \in 1 .. Len(queue) : queue'[i] = queue[i]
      /\ Len(queue) \in Nat
  BY DEF TypeOK
<1>2. \A i \in DOMAIN queue' : i \in DOMAIN queue \/ i = Len(queue) + 1
  BY <1>1
<1> QED
  BY <1>1, <1>2 DEF IsQueued, QueuedOnce

\* The first command is queued, and no longer if it was there once.
LEMMA Dequeued ==
  ASSUME TypeOK, queue # <<>>, queue' = Tail(queue), NEW d
  PROVE  /\ IsQueued(d)' => IsQueued(d)
         /\ IsQueued(Head(queue))
         /\ QueuedOnce(d) => QueuedOnce(d)'
         /\ QueuedOnce(d) /\ Head(queue) = d => ~IsQueued(d)'
<1>1. /\ DOMAIN queue = 1 .. Len(queue)
      /\ DOMAIN queue' = 1 .. Len(queue) - 1
      /\ \A i \in 1 .. Len(queue) - 1 : queue'[i] = queue[i + 1]
      /\ Len(queue) \in Nat /\ Len(queue) > 0
      /\ queue[1] = Head(queue)
  BY DEF TypeOK
<1>2. 1 \in DOMAIN queue
  BY <1>1
<1>3. \A i \in DOMAIN queue' : i + 1 \in DOMAIN queue /\ i + 1 # 1 /\ queue'[i] = queue[i + 1]
  BY <1>1
<1>4. \A i, j \in DOMAIN queue' : i + 1 = j + 1 => i = j
  BY <1>1
<1> QED
  BY <1>1, <1>2, <1>3, <1>4 DEF IsQueued, QueuedOnce

\* The callbacks of the task's commands end the wait they belong to.
LEMMA Completed ==
  ASSUME TypeOK, Awaited, NEW cs \in SUBSET Commands, NEW success,
         Complete(cs, success), UNCHANGED taskVars,
         \A c \in cs \cap {"subscribe", "publish"} : IsQueued(c) \/ pending[c] > 0,
         \A c \in {"subscribe", "publish"} :
            /\ IsQueued(c)' => IsQueued(c) /\ c \notin cs
            /\ QueuedOnce(c)'
            /\ pending'[c] \in {0, pending[c]} /\ (c \in cs => pending'[c] = 0)
            /\ pending'[c] > 0 => ~IsQueued(c)'
  PROVE  Awaited'
<1> USE DEF Awaited, OneOutstanding, NotificationAwaited, WaitsFor, taskVars
<1>1. CASE "publish" \in cs
  <2>1. taskPc = "waitPublished"
    BY <1>1
  <2>2. notification' = [pending |-> TRUE, value |-> ulValueToNotify]
    BY <1>1 DEF Complete
  <2>3. ~IsQueued("subscribe") /\ ~(pending["subscribe"] > 0)
    BY <2>1
  <2> QED
    BY <1>1, <2>1, <2>2, <2>3
<1>2. CASE "publish" \notin cs /\ "subscribe" \in cs
  <2>1. taskPc = "waitSubscribed"
    BY <1>2
  <2>2. notification' = [pending |-> TRUE, value |-> IF success THEN 0 ELSE 1]
    BY <1>2 DEF Complete
  <2>3. ~IsQueued("publish") /\ ~(pending["publish"] > 0)
    BY <2>1
  <2> QED
    BY <1>2, <2>1, <2>2, <2>3
<1>3. CASE "publish" \notin cs /\ "subscribe" \notin cs
  <2>1. notification' = notification
    BY <1>3 DEF Complete
  <2> QED
    BY <1>3, <2>1
<1> QED
  BY <1>1, <1>2, <1>3

\* The task sends a command only when it has none outstanding, and goes on only
\* with the notification of the one it has sent.
LEMMA TaskAwaited ==
  ASSUME TypeOK, Awaited, Task
  PROVE  Awaited'
<1> USE DEF Awaited, OneOutstanding, NotificationAwaited, WaitsFor, TaskGoto,
            outside
<1>1. CASE StartTask
  BY <1>1 DEF StartTask, IsQueued, QueuedOnce, TypeOK
<1>2. CASE Subscribe
  <2>1. /\ queue' = Append(queue, "subscribe")
        /\ taskPc = "subscribe" /\ taskPc' = "waitSubscribed"
        /\ UNCHANGED <<pending, notification, timedOut>>
    BY <1>2 DEF Subscribe
  <2>2. \A c \in {"subscribe", "publish"} :
            ~IsQueued(c) /\ ~(pending[c] > 0) /\ ~notification.pending
    BY <2>1
  <2>3. IsQueued("subscribe")' /\ ~IsQueued("publish")'
    BY <2>1, <2>2, Enqueued
  <2>4. QueuedOnce("subscribe")' /\ QueuedOnce("publish")'
    BY <2>1, <2>2, Enqueued
  <2> QED
    BY <2>1, <2>2, <2>3, <2>4 DEF TypeOK, Own
<1>3. CASE SubscribeAcknowledged
  BY <1>3 DEF SubscribeAcknowledged, TakeNotification, IsQueued, QueuedOnce, TypeOK
<1>4. CASE WaitForNetwork
  BY <1>4 DEF WaitForNetwork, IsQueued, QueuedOnce
<1>5. CASE Publish
  <2>1. CASE HasRoom
    <3>1. /\ queue' = Append(queue, "publish")
          /\ taskPc = "publish" /\ taskPc' = "waitPublished"
          /\ UNCHANGED <<pending, notification, timedOut>>
      BY <1>5, <2>1 DEF Publish
    <3>2. \A c \in {"subscribe", "publish"} :
              ~IsQueued(c) /\ ~(pending[c] > 0) /\ ~notification.pending
      BY <3>1
    <3>3. IsQueued("publish")' /\ ~IsQueued("subscribe")'
      BY <3>1, <3>2, Enqueued
    <3>4. QueuedOnce("subscribe")' /\ QueuedOnce("publish")'
      BY <3>1, <3>2, Enqueued
    <3> QED
      BY <3>1, <3>2, <3>3, <3>4 DEF TypeOK, Own
  <2>2. CASE ~HasRoom
    BY <1>5, <2>2 DEF Publish, IsQueued, QueuedOnce
  <2> QED
    BY <2>1, <2>2
<1>6. CASE PublishAcknowledged
  BY <1>6 DEF PublishAcknowledged, TakeNotification, IsQueued, QueuedOnce, TypeOK
<1>7. CASE DelayOver
  BY <1>7 DEF DelayOver, IsQueued, QueuedOnce
<1> QED
  BY <1>1, <1>2, <1>3, <1>4, <1>5, <1>6, <1>7 DEF Task

\* A command that is run or answered is out of the agent's hands, or still is the
\* only one of its kind there.
LEMMA AgentAwaited ==
  ASSUME TypeOK, Awaited, Agent
  PROVE  Awaited'
<1> DEFINE W == {"subscribe", "publish"}
<1>1. CASE RunCommand
  <2>1. /\ queue # <<>> /\ queue' = Tail(queue)
        /\ pending' = [c \in Own |-> IF c = Head(queue) THEN pending[c] + 1
                                                        ELSE pending[c]]
        /\ UNCHANGED <<taskVars, notification>>
    BY <1>1 DEF RunCommand
  <2>2. \A d \in W : /\ OneOutstanding(d) /\ pending[d] \in Nat
                     /\ pending'[d] = IF d = Head(queue) THEN pending[d] + 1
                                                         ELSE pending[d]
    BY <2>1 DEF Awaited, TypeOK, Own
  <2>3. ASSUME NEW d \in W PROVE OneOutstanding(d)'
    <3>1. CASE d = Head(queue)
      <4>1. IsQueued(d) /\ ~IsQueued(d)' /\ QueuedOnce(d)'
        BY <2>1, <2>2, <3>1, Dequeued DEF OneOutstanding
      <4>2. pending'[d] = 1
        BY <2>2, <3>1, <4>1 DEF OneOutstanding
      <4> QED
        BY <2>1, <2>2, <4>1, <4>2 DEF OneOutstanding, taskVars, WaitsFor
    <3>2. CASE d # Head(queue)
      <4>1. (IsQueued(d)' => IsQueued(d)) /\ QueuedOnce(d)'
        BY <2>1, <2>2, Dequeued DEF OneOutstanding
      <4> QED
        BY <2>1, <2>2, <3>2, <4>1 DEF OneOutstanding, taskVars, WaitsFor
    <3> QED
      BY <3>1, <3>2
  <2> QED
    BY <2>1, <2>3 DEF Awaited, NotificationAwaited, taskVars
<1>2. CASE RunCommandFails
  <2>1. /\ queue # <<>> /\ queue' = Tail(queue)
        /\ Complete({Head(queue)}, FALSE)
        /\ UNCHANGED <<taskVars, pending>>
    BY <1>2 DEF RunCommandFails
  <2>2. Head(queue) \in Commands
    BY <2>1 DEF TypeOK
  <2>3. \A d \in W : OneOutstanding(d) /\ pending[d] \in Nat
    BY DEF Awaited, TypeOK, Own
  <2>4. IsQueued(Head(queue))
    BY <2>1, Dequeued
  <2>5. ASSUME NEW d \in W
        PROVE  /\ IsQueued(d)' => IsQueued(d) /\ d \notin {Head(queue)}
               /\ QueuedOnce(d)'
               /\ pending'[d] \in {0, pending[d]}
               /\ d \in {Head(queue)} => pending'[d] = 0
               /\ pending'[d] > 0 => ~IsQueued(d)'
    <3>1. /\ IsQueued(d)' => IsQueued(d)
          /\ QueuedOnce(d)'
          /\ Head(queue) = d => ~IsQueued(d)'
      BY <2>1, <2>3, Dequeued DEF OneOutstanding
    <3> QED
      BY <2>1, <2>3, <2>4, <3>1 DEF OneOutstanding
  <2> QED
    BY <2>1, <2>2, <2>4, <2>5, Completed
<1>3. CASE LoopFails \/ ReceivePublish
  BY <1>3, AwaitedUntouched DEF LoopFails, ReceivePublish
<1>4. CASE ReceiveAck
  <2> DEFINE ack == Head(toDevice)
  <2>1. /\ ack.type \in Own /\ pending[ack.type] > 0
        /\ pending' = [pending EXCEPT ![ack.type] = @ - 1]
        /\ UNCHANGED <<taskVars, queue>>
        /\ ack.type = "resubscribe" => UNCHANGED notification
        /\ ack.type # "resubscribe" => Complete({ack.type}, ack.ok)
    BY <1>4 DEF ReceiveAck
  <2>2. \A d \in W : /\ OneOutstanding(d) /\ pending[d] \in Nat
                     /\ pending'[d] = IF d = ack.type THEN pending[d] - 1
                                                      ELSE pending[d]
    BY <2>1 DEF Awaited, TypeOK, Own
  <2>3. \A d : IsQueued(d)' = IsQueued(d) /\ QueuedOnce(d)' = QueuedOnce(d)
    BY <2>1 DEF IsQueued, QueuedOnce
  <2>4. CASE ack.type = "resubscribe"
    <3>1. \A d \in W : OneOutstanding(d)'
      BY <2>1, <2>2, <2>3, <2>4 DEF OneOutstanding, WaitsFor, taskVars
    <3> QED
      BY <2>1, <2>4, <3>1 DEF Awaited, NotificationAwaited, taskVars
  <2>5. CASE ack.type # "resubscribe"
    <3>1. ack.type \in W /\ pending[ack.type] = 1 /\ ~IsQueued(ack.type)
      BY <2>1, <2>2, <2>5 DEF Own, OneOutstanding
    <3>2. {ack.type} \in SUBSET Commands
      BY <2>1 DEF Commands
    <3>3. ASSUME NEW d \in W
          PROVE  /\ IsQueued(d)' => IsQueued(d) /\ d \notin {ack.type}
                 /\ QueuedOnce(d)'
                 /\ pending'[d] \in {0, pending[d]}
                 /\ d \in {ack.type} => pending'[d] = 0
                 /\ pending'[d] > 0 => ~IsQueued(d)'
      BY <2>2, <2>3, <3>1 DEF OneOutstanding
    <3> QED
      BY <2>1, <2>5, <3>1, <3>2, <3>3, Completed
  <2> QED
    BY <2>4, <2>5
<1> QED
  BY <1>1, <1>2, <1>3, <1>4 DEF Agent, RunLoop, Receive

\* A new session fails what is outstanding, and a resumed one the subscriptions:
\* each notifies for the command that it takes away.
LEMMA ConnectionAwaited ==
  ASSUME TypeOK, Awaited, Connection
  PROVE  Awaited'
<1> DEFINE W == {"subscribe", "publish"}
<1>1. CASE ConnectClean \/ Announce \/ WaitRunsOut
  BY <1>1, AwaitedUntouched DEF ConnectClean, Announce, connUnchanged,
     WaitRunsOut, watchUnchanged, agentVars
<1>2. ASSUME NEW cs \in SUBSET Commands, Complete(cs, FALSE),
             UNCHANGED <<taskVars, queue>>,
             \A c \in cs : pending[c] > 0,
             \A c \in W : /\ pending'[c] \in {0, pending[c]}
                          /\ c \in cs => pending'[c] = 0
      PROVE  Awaited'
  <2>1. \A d : IsQueued(d)' = IsQueued(d) /\ QueuedOnce(d)' = QueuedOnce(d)
    BY <1>2 DEF IsQueued, QueuedOnce
  <2>2. \A d \in W : OneOutstanding(d) /\ pending[d] \in Nat
    BY DEF Awaited, TypeOK, Own
  <2>3. ASSUME NEW d \in W
        PROVE  /\ IsQueued(d)' => IsQueued(d) /\ d \notin cs
               /\ QueuedOnce(d)'
               /\ pending'[d] > 0 => ~IsQueued(d)'
    BY <1>2, <2>1, <2>2 DEF OneOutstanding
  <2> QED
    BY <1>2, <2>3, Completed
<1>3. CASE ResumeSession
  <2> DEFINE cancelled == Outstanding({"subscribe", "resubscribe"})
  <2>1. /\ pending' = [c \in Own |-> IF c \in cancelled THEN 0 ELSE pending[c]]
        /\ Complete(cancelled, FALSE)
        /\ UNCHANGED <<taskVars, queue>>
    BY <1>3 DEF ResumeSession, connUnchanged
  <2>2. cancelled \in SUBSET Commands /\ \A c \in cancelled : pending[c] > 0
    BY DEF Outstanding, Commands, Own
  <2>3. \A c \in W : /\ pending'[c] \in {0, pending[c]}
                     /\ c \in cancelled => pending'[c] = 0
    BY <2>1 DEF Own
  <2> QED
    BY <2>1, <2>2, <2>3, <1>2
<1>4. CASE StartSession
  <2> DEFINE failed == Outstanding({"subscribe", "publish"})
  <2>1. /\ pending' = [c \in Own |-> 0]
        /\ Complete(failed, FALSE)
        /\ UNCHANGED <<taskVars, queue>>
    BY <1>4 DEF StartSession, connUnchanged
  <2>2. failed \in SUBSET Commands /\ \A c \in failed : pending[c] > 0
    BY DEF Outstanding, Commands, Own
  <2>3. \A c \in W : pending'[c] = 0
    BY <2>1 DEF Own
  <2> QED
    BY <2>1, <2>2, <2>3, <1>2
<1>5. CASE Resubscribe
  <2>1. /\ UNCHANGED <<taskVars, notification, pending>>
        /\ queue' = queue \/ queue' = Append(queue, "resubscribe")
    BY <1>5 DEF Resubscribe, connUnchanged
  <2>2. CASE queue' = queue
    BY <2>1, <2>2, AwaitedUntouched DEF agentVars
  <2>3. CASE queue' = Append(queue, "resubscribe")
    <3>1. \A d \in W : OneOutstanding(d)
      BY DEF Awaited
    <3>2. ASSUME NEW d \in W
          PROVE  (IsQueued(d)' <=> IsQueued(d)) /\ QueuedOnce(d)'
      BY <2>3, <3>1, Enqueued DEF OneOutstanding
    <3>3. \A d \in W : OneOutstanding(d)'
      BY <2>1, <3>1, <3>2 DEF OneOutstanding, WaitsFor, taskVars
    <3> QED
      BY <2>1, <3>3 DEF Awaited, NotificationAwaited, taskVars
  <2> QED
    BY <2>1, <2>2, <2>3
<1> QED
  BY <1>1, <1>3, <1>4, <1>5 DEF Connection

\* A command of another client, or of the connection task, is none of the task's.
LEMMA OtherAwaited ==
  ASSUME TypeOK, Awaited, OtherClientEnqueues \/ WatchReadable
  PROVE  Awaited'
<1> DEFINE W == {"subscribe", "publish"}
<1>1. /\ UNCHANGED <<taskVars, notification, pending>>
      /\ queue' \in {queue, Append(queue, "other"), Append(queue, "processLoop")}
  BY DEF OtherClientEnqueues, WatchReadable, watchUnchanged
<1>2. \A d \in W : OneOutstanding(d)
  BY DEF Awaited
<1>3. ASSUME NEW d \in W
      PROVE  (IsQueued(d)' <=> IsQueued(d)) /\ QueuedOnce(d)'
  <2>1. CASE queue' = queue
    BY <1>2, <2>1 DEF IsQueued, QueuedOnce, OneOutstanding
  <2>2. CASE queue' = Append(queue, "other")
    BY <1>2, <2>2, Enqueued DEF OneOutstanding
  <2>3. CASE queue' = Append(queue, "processLoop")
    BY <1>2, <2>3, Enqueued DEF OneOutstanding
  <2> QED
    BY <1>1, <2>1, <2>2, <2>3
<1>4. \A d \in W : OneOutstanding(d)'
  BY <1>1, <1>2, <1>3 DEF OneOutstanding, WaitsFor, taskVars
<1> QED
  BY <1>1, <1>4 DEF Awaited, NotificationAwaited, taskVars

\* Every step keeps what the task waits for.
LEMMA AwaitedAlways == Spec => []Awaited
<1>1. TypeOK /\ Awaited /\ [Next]_vars => Awaited'
  <2> SUFFICES ASSUME TypeOK, Awaited, [Next]_vars PROVE Awaited'
    OBVIOUS
  <2>1. CASE HandleEvent \/ Broker \/ LinkBreaks \/ SessionExpires
    BY <2>1, AwaitedUntouched
       DEF HandleEvent, Broker, BrokerSubscribes, BrokerPublishes, LinkBreaks,
           SessionExpires, netUnchanged
  <2>2. CASE \E payload \in OperatorPayloads : OperatorPublishes(payload)
    BY <2>2, AwaitedUntouched DEF OperatorPublishes, netUnchanged
  <2>4. CASE LoopDelays
    BY <2>4, AwaitedUntouched DEF LoopDelays, watchUnchanged, agentVars
  <2>3. CASE UNCHANGED vars
    BY <2>3, AwaitedUntouched DEF vars
  <2> QED
    BY <2>1, <2>2, <2>3, <2>4, TaskAwaited, OtherAwaited, AgentAwaited,
       ConnectionAwaited DEF Next
<1> QED
  BY <1>1, AwaitedInit, TypeCorrect, PTL DEF Spec

\* One notification for every command of the task, overwritten and without an
\* owner, is enough: the number that ends a wait is that of the publish waited
\* for, for every wrap-around, drop, cancellation and retransmission.
THEOREM AckBelongsToPublish == Spec => []AckMatchesPublish
<1>1. Awaited => AckMatchesPublish
  BY DEF Awaited, AckMatchesPublish
<1> QED
  BY <1>1, AwaitedAlways, PTL

-----------------------------------------------------------------------------
\* How often a command is queued, and how many resubscriptions the agent has or is
\* about to get.
Places(c) == {i \in DOMAIN queue : queue[i] = c}
Resubscriptions ==
    Cardinality(Places("resubscribe")) + (IF conn = "resubscribe" THEN 1 ELSE 0)

\* What the watch of the socket has left behind: ProcessLoop commands that nobody
\* waits for, and a notification that ends the next wait before its command has
\* been run.
Late ==
    (IF watch = "waits" /\ Places("processLoop") # {}
     THEN Cardinality(Places("processLoop")) - 1
     ELSE Cardinality(Places("processLoop")))
    + (IF notified THEN 1 ELSE 0)

\* What may still be added to them without another fault: the resubscription to a
\* session that is gone, and the command of a watch whose connection is.
SessionDebt == IF session = "none" /\ (~xCleanSession \/ conn = "announce") THEN 1 ELSE 0
WatchDebt ==
    IF \/ conn = "off" /\ watch # "left"
       \/ conn # "off" /\ ~link
    THEN 1 ELSE 0

\* What a run has spent of its bounds: faults, and sessions that expired.
Mishaps == faults + expiries

OthersFit == Cardinality(Places("other")) <= OtherClients
FaultsPaid == Resubscriptions + Late + SessionDebt + WatchDebt <= Mishaps + 1
FirstSession ==
    /\ (xCleanSession /\ conn = "off") \/ session = "clean" =>
          Resubscriptions = 0 /\ Late + WatchDebt <= Mishaps
    /\ xCleanSession => conn \in {"off", "announce"}
    /\ xCleanSession /\ conn = "off" => session = "none"
SessionOfLink ==
    /\ ~link => session # "clean"
    /\ link => session # "none"
WatchOfConnection == watch # "left" => conn \in {"on", "off"} /\ ~xCleanSession
RoomKept ==
    /\ OthersFit /\ FaultsPaid /\ FirstSession /\ SessionOfLink
    /\ WatchOfConnection /\ PublishAccepted

\* Room for a publish beside a command of every other client, one command for
\* every fault of a run and every session that expires, the command that the watch
\* waits for, and the one that
\* the end of a first connection, whose session was clean, leaves in addition.
RoomForPublish ==
    CommandQueueLength > OtherClients + MaxFaults + MaxExpiries + 2

\* The places of a command in the queue are finitely many.
LEMMA PlacesFinite ==
  ASSUME TypeOK, NEW c
  PROVE  /\ IsFiniteSet(Places(c))
         /\ Cardinality(Places(c)) \in Nat
<1>1. DOMAIN queue = 1 .. Len(queue) /\ Len(queue) \in Nat
  BY DEF TypeOK
<1>2. IsFiniteSet(1 .. Len(queue))
  BY <1>1, FS_Interval
<1>3. Places(c) \in SUBSET (1 .. Len(queue))
  BY <1>1 DEF Places
<1> QED
  BY <1>2, <1>3, FS_Subset, FS_CardinalityType

\* An appended command takes one place more, the other commands keep theirs.
LEMMA EnqueuedCount ==
  ASSUME TypeOK, NEW c, NEW d, queue' = Append(queue, c)
  PROVE  Cardinality(Places(d))' = Cardinality(Places(d)) + (IF c = d THEN 1 ELSE 0)
<1>1. /\ DOMAIN queue = 1 .. Len(queue)
      /\ DOMAIN queue' = 1 .. Len(queue) + 1
      /\ queue'[Len(queue) + 1] = c
      /\ \A i \in 1 .. Len(queue) : queue'[i] = queue[i]
      /\ Len(queue) \in Nat
  BY DEF TypeOK
<1>2. IsFiniteSet(Places(d)) /\ Cardinality(Places(d)) \in Nat
  BY PlacesFinite
<1>3. Len(queue) + 1 \notin Places(d)
  BY <1>1 DEF Places
<1>4. CASE c = d
  <2>1. Places(d)' = Places(d) \cup {Len(queue) + 1}
    BY <1>1, <1>4 DEF Places
  <2> QED
    BY <1>2, <1>3, <1>4, <2>1, FS_AddElement
<1>5. CASE c # d
  <2>1. Places(d)' = Places(d)
    BY <1>1, <1>5 DEF Places
  <2> QED
    BY <1>2, <1>5, <2>1
<1> QED
  BY <1>4, <1>5

\* Without its first command the queue has one place less for it, and every other
\* place has moved by one.
LEMMA DequeuedCount ==
  ASSUME TypeOK, queue # <<>>, queue' = Tail(queue), NEW d
  PROVE  /\ Cardinality(Places(d))' \in Nat
         /\ Cardinality(Places(d))' =
              Cardinality(Places(d)) - (IF Head(queue) = d THEN 1 ELSE 0)
<1>1. /\ DOMAIN queue = 1 .. Len(queue)
      /\ DOMAIN queue' = 1 .. Len(queue) - 1
      /\ \A i \in 1 .. Len(queue) - 1 : queue'[i] = queue[i + 1]
      /\ Len(queue) \in Nat /\ Len(queue) > 0
      /\ queue[1] = Head(queue)
  BY DEF TypeOK
<1>2. IsFiniteSet(Places(d)) /\ Cardinality(Places(d)) \in Nat
  BY PlacesFinite
<1> DEFINE rest == Places(d) \ {1}
           back == [i \in rest |-> i - 1]
<1>3. /\ IsFiniteSet(rest)
      /\ Cardinality(rest) =
            Cardinality(Places(d)) - (IF Head(queue) = d THEN 1 ELSE 0)
  <2>1. 1 \in Places(d) <=> Head(queue) = d
    BY <1>1 DEF Places
  <2> QED
    BY <1>2, <2>1, FS_RemoveElement
<1>4. back \in Bijection(rest, Places(d)')
  <2>1. \A i \in rest : i \in Nat /\ i - 1 \in Places(d)'
    BY <1>1 DEF Places
  <2>2. \A j \in Places(d)' : j \in Nat /\ j + 1 \in rest /\ (j + 1) - 1 = j
    BY <1>1 DEF Places
  <2>3. back \in [rest -> Places(d)']
    BY <2>1
  <2>4. \A i, j \in rest : back[i] = back[j] => i = j
    BY <2>1
  <2>5. \A j \in Places(d)' : \E i \in rest : back[i] = j
    BY <2>2
  <2> HIDE DEF back, rest
  <2> QED
    BY <2>3, <2>4, <2>5, Fun_IsBij
<1>5. Cardinality(Places(d)') = Cardinality(rest)
  <2> HIDE DEF back, rest
  <2> QED
    BY <1>3, <1>4, Fun_ExistsBij, FS_Bijection
<1>6. Cardinality(Places(d))' = Cardinality(Places(d)')
  OBVIOUS
<1>7. Cardinality(rest) \in Nat
  BY <1>3, FS_CardinalityType
<1> QED
  BY <1>3, <1>5, <1>6, <1>7

\* A queue that is left alone keeps its places.
LEMMA SamePlaces ==
  ASSUME queue' = queue, NEW d
  PROVE  Cardinality(Places(d))' = Cardinality(Places(d))
<1>1. Places(d)' = Places(d)
  BY DEF Places
<1>2. Cardinality(Places(d))' = Cardinality(Places(d)')
  OBVIOUS
<1> QED
  BY <1>1, <1>2

\* The faults and expiries of a run are counted, up to their bounds.
LEMMA MishapsNat ==
  TypeOK => Mishaps \in Nat /\ Mishaps <= MaxFaults + MaxExpiries
BY ConstantsAssumption DEF TypeOK, ConstantsAssumption, Mishaps

\* So they are after every step.
LEMMA MishapsNatNext ==
  ASSUME TypeOK'
  PROVE  Mishaps' \in Nat
<1>1. faults' \in Nat /\ expiries' \in Nat
  BY ConstantsAssumption DEF TypeOK, ConstantsAssumption
<1>2. \A f, e \in Nat : f + e \in Nat
  OBVIOUS
<1>3. faults' + expiries' \in Nat
  BY <1>1, <1>2
<1> QED
  BY <1>3 DEF Mishaps

\* A fault is one of them.
LEMMA FaultSpent ==
  ASSUME TypeOK, SpendFault, expiries' = expiries
  PROVE  Mishaps' = Mishaps + 1
BY ConstantsAssumption DEF ConstantsAssumption, TypeOK, SpendFault, Mishaps

\* The quantities that the room is counted in.
RoomTypes ==
    /\ \A c : Cardinality(Places(c)) \in Nat
    /\ \A c : Places(c) = {} <=> Cardinality(Places(c)) = 0
    /\ Resubscriptions \in Nat
    /\ Late \in Nat
    /\ Cardinality(Places("processLoop")) <= Late + 1
    /\ SessionDebt \in Nat /\ SessionDebt <= 1
    /\ WatchDebt \in Nat /\ WatchDebt <= 1

\* They are numbers, and the watch waits for one ProcessLoop command at most.
LEMMA RoomTyped == TypeOK => RoomTypes
<1> SUFFICES ASSUME TypeOK PROVE RoomTypes
  OBVIOUS
<1>1. \A c : /\ Cardinality(Places(c)) \in Nat
             /\ Places(c) = {} <=> Cardinality(Places(c)) = 0
  BY PlacesFinite, FS_EmptySet
<1>2. Resubscriptions \in Nat
  BY <1>1 DEF Resubscriptions
<1>3. Late \in Nat /\ Cardinality(Places("processLoop")) <= Late + 1
  BY <1>1 DEF Late
<1>4. /\ SessionDebt \in Nat /\ SessionDebt <= 1
      /\ WatchDebt \in Nat /\ WatchDebt <= 1
  BY DEF SessionDebt, WatchDebt
<1> QED
  BY <1>1, <1>2, <1>3, <1>4 DEF RoomTypes

\* So they are after every step.
LEMMA RoomTypedNext == TypeOK' => RoomTypes'
BY RoomTyped, PTL

\* Before the task has run the queue is empty and nothing has been left behind.
LEMMA RoomInit == Init => RoomKept
<1> SUFFICES ASSUME Init PROVE RoomKept
  OBVIOUS
<1>1. \A d : Places(d) = {}
  BY DEF Init, Places
<1>2. \A d : Cardinality(Places(d)) = 0
  BY <1>1, FS_EmptySet
<1>3. Resubscriptions = 0 /\ Late = 0 /\ SessionDebt = 0 /\ WatchDebt = 0
  BY <1>2 DEF Init, Resubscriptions, Late, SessionDebt, WatchDebt
<1>4. OthersFit
  BY <1>2, ConstantsAssumption DEF OthersFit, ConstantsAssumption
<1> QED
  BY <1>3, <1>4 DEF Init, RoomKept, FaultsPaid, Mishaps, FirstSession, SessionOfLink,
     WatchOfConnection, PublishAccepted

\* Sums that are paid for stay so when they grow by no more than the faults do.
LEMMA StillPaid ==
  /\ \A r, q, l, k, d, w, v, f, g \in Nat :
        /\ r + l + d + w <= f + 1
        /\ q <= r /\ f <= g
        /\ k + v + f <= l + w + g
        => q + k + d + v <= g + 1
  /\ \A l, k, w, v, f, g \in Nat :
        l + w <= f /\ f <= g /\ k + v + f <= l + w + g => k + v <= g
OBVIOUS

\* A sum grows by no more than the faults do when neither part of it grows.
LEMMA Kept ==
  \A l, k, w, v, f, g \in Nat :
     k <= l /\ v <= w /\ g = f => f <= g /\ k + v + f <= l + w + g
OBVIOUS

\* So it does when one part grows in place of the other.
LEMMA Moved ==
  \A l, k, w, v, f, g \in Nat :
     k <= l + 1 /\ w = v + 1 /\ g = f => f <= g /\ k + v + f <= l + w + g
OBVIOUS

\* So it does when a fault is spent on what one part grows by.
LEMMA Spent ==
  \A l, k, w, v, f, g \in Nat :
     k <= l + 1 /\ v <= w /\ g = f + 1 => f <= g /\ k + v + f <= l + w + g
OBVIOUS

\* The room is kept by whatever leaves the connection alone, adds no resubscription
\* and leaves behind no more than it spends faults.
LEMMA RoomEased ==
  ASSUME TypeOK, TypeOK', RoomKept, OthersFit', PublishAccepted',
         UNCHANGED <<conn, xCleanSession, link, session>>,
         Resubscriptions' <= Resubscriptions,
         Mishaps <= Mishaps',
         Late' + WatchDebt' + Mishaps <= Late + WatchDebt + Mishaps',
         watch' # "left" => watch # "left"
  PROVE  RoomKept'
<1>1. /\ Resubscriptions \in Nat /\ Resubscriptions' \in Nat
      /\ Late \in Nat /\ Late' \in Nat
      /\ WatchDebt \in Nat /\ WatchDebt' \in Nat
      /\ SessionDebt \in Nat /\ SessionDebt' = SessionDebt
  <2>1. SessionDebt' = SessionDebt
    BY DEF SessionDebt
  <2> QED
    BY <2>1, RoomTyped, RoomTypedNext DEF RoomTypes
<1>2. Mishaps \in Nat /\ Mishaps' \in Nat
  BY MishapsNat, MishapsNatNext
<1>3. FaultsPaid'
  <2>1. Resubscriptions + Late + SessionDebt + WatchDebt <= Mishaps + 1
    BY DEF RoomKept, FaultsPaid
  <2>2. Resubscriptions' + Late' + SessionDebt' + WatchDebt' <= Mishaps' + 1
    BY <1>1, <1>2, <2>1, StillPaid
  <2> QED
    BY <2>2 DEF FaultsPaid
<1>4. FirstSession'
  <2>1. Resubscriptions = 0 => Resubscriptions' = 0
    BY <1>1
  <2>2. Late + WatchDebt <= Mishaps => Late' + WatchDebt' <= Mishaps'
    BY <1>1, <1>2, StillPaid
  <2> QED
    BY <2>1, <2>2 DEF RoomKept, FirstSession
<1>5. SessionOfLink' /\ WatchOfConnection'
  BY DEF RoomKept, SessionOfLink, WatchOfConnection
<1> QED
  BY <1>3, <1>4, <1>5 DEF RoomKept

\* So it is by a command of this task or of another client that fits, and by what
\* leaves the queue alone.
LEMMA RoomConnected ==
  ASSUME TypeOK, TypeOK', RoomKept, Mishaps <= Mishaps', taskPc' # "asserted",
         UNCHANGED <<conn, xCleanSession, link, session, watchVars>>,
         \/ queue' = queue
         \/ \E c \in {"subscribe", "publish"} : queue' = Append(queue, c)
         \/ /\ Cardinality(Places("other")) < OtherClients
            /\ queue' = Append(queue, "other")
  PROVE  RoomKept'
<1>1. /\ OthersFit'
      /\ \A d \in {"resubscribe", "processLoop"} :
            Cardinality(Places(d))' = Cardinality(Places(d))
  <2>1. Cardinality(Places("other")) \in Nat /\ OthersFit
    BY RoomTyped DEF RoomTypes, RoomKept
  <2>2. CASE queue' = queue
    BY <2>1, <2>2, SamePlaces DEF OthersFit
  <2>3. ASSUME NEW c \in {"subscribe", "publish"}, queue' = Append(queue, c)
        PROVE  OthersFit' /\ \A d \in {"resubscribe", "processLoop"} :
                  Cardinality(Places(d))' = Cardinality(Places(d))
    <3>1. \A d \in {"other", "resubscribe", "processLoop"} :
             Cardinality(Places(d))' = Cardinality(Places(d)) + 0
      BY <2>3, EnqueuedCount
    <3> QED
      BY <2>1, <3>1, RoomTyped DEF OthersFit, RoomTypes
  <2>4. CASE /\ Cardinality(Places("other")) < OtherClients
             /\ queue' = Append(queue, "other")
    <3>1. /\ Cardinality(Places("other"))' = Cardinality(Places("other")) + 1
          /\ \A d \in {"resubscribe", "processLoop"} :
                Cardinality(Places(d))' = Cardinality(Places(d)) + 0
      BY <2>4, EnqueuedCount
    <3> QED
      BY <2>1, <2>4, <3>1, RoomTyped, ConstantsAssumption
         DEF OthersFit, RoomTypes, ConstantsAssumption
  <2> QED
    BY <2>2, <2>3, <2>4
<1>2. Resubscriptions' = Resubscriptions
  BY <1>1 DEF Resubscriptions
<1>3. Late' = Late
  <2>1. Places("processLoop")' = {} <=> Places("processLoop") = {}
    BY <1>1, RoomTyped, RoomTypedNext DEF RoomTypes
  <2> QED
    BY <1>1, <2>1 DEF Late, watchVars
<1>4. WatchDebt' = WatchDebt
  BY DEF WatchDebt, watchVars
<1>5. Late' + WatchDebt' + Mishaps <= Late + WatchDebt + Mishaps'
      /\ Resubscriptions' <= Resubscriptions
  <2>1. \A r, l, w, f, g \in Nat : f <= g => l + w + f <= l + w + g /\ r <= r
    OBVIOUS
  <2>2. Mishaps \in Nat /\ Mishaps' \in Nat
    BY MishapsNat, MishapsNatNext
  <2> QED
    BY <1>2, <1>3, <1>4, <2>1, <2>2, RoomTyped DEF RoomTypes
<1>6. watch' = watch /\ PublishAccepted'
  BY DEF watchVars, PublishAccepted
<1> QED
  BY <1>1, <1>5, <1>6, RoomEased

\* A round of the watch leaves a command behind only when it takes a notification
\* that was there before, when the connection has gone, or when the command loop
\* has been delayed.
LEMMA WatchRoom ==
  ASSUME TypeOK, TypeOK', RoomKept, WatchReadable \/ WaitRunsOut \/ LoopDelays
  PROVE  RoomKept'
<1> DEFINE P == Cardinality(Places("processLoop"))
<1>1. /\ UNCHANGED <<conn, xCleanSession, link, session, taskPc>>
      /\ watch # "left" /\ conn \in {"on", "off"}
      /\ PublishAccepted'
  BY DEF WatchReadable, WaitRunsOut, LoopDelays, watchUnchanged, linkVars,
         brokerVars, taskVars, RoomKept, WatchOfConnection, PublishAccepted
<1>2. /\ Cardinality(Places("other"))' = Cardinality(Places("other"))
      /\ Cardinality(Places("resubscribe"))' = Cardinality(Places("resubscribe"))
      /\ IF WatchReadable /\ HasRoom THEN P' = P + 1 ELSE P' = P
  <2>1. Cardinality(Places("other")) \in Nat /\ P \in Nat
        /\ Cardinality(Places("resubscribe")) \in Nat
    BY RoomTyped DEF RoomTypes
  <2>2. CASE WatchReadable /\ HasRoom
    <3>1. queue' = Append(queue, "processLoop")
      BY <2>2 DEF WatchReadable
    <3>2. /\ P' = P + 1
          /\ Cardinality(Places("other"))' = Cardinality(Places("other")) + 0
          /\ Cardinality(Places("resubscribe"))' = Cardinality(Places("resubscribe")) + 0
      BY <3>1, EnqueuedCount
    <3> QED
      BY <2>1, <2>2, <3>2
  <2>3. CASE ~(WatchReadable /\ HasRoom)
    <3>1. queue' = queue
      BY <2>3 DEF WatchReadable, WaitRunsOut, LoopDelays
    <3> QED
      BY <2>3, <3>1, SamePlaces
  <2> QED
    BY <2>2, <2>3
<1>3. OthersFit' /\ Resubscriptions' = Resubscriptions
  BY <1>1, <1>2 DEF OthersFit, Resubscriptions, RoomKept
<1>4. /\ P \in Nat /\ P' \in Nat
      /\ Places("processLoop") = {} <=> P = 0
      /\ Places("processLoop")' = {} <=> P' = 0
      /\ Resubscriptions \in Nat
  BY RoomTyped, RoomTypedNext DEF RoomTypes
<1>7. Mishaps \in Nat /\ Mishaps' \in Nat
  BY MishapsNat, MishapsNatNext
<1>5. /\ Mishaps <= Mishaps'
      /\ Late' + WatchDebt' + Mishaps <= Late + WatchDebt + Mishaps'
  <2> DEFINE n == IF notified THEN 1 ELSE 0
             waited(p) == IF p = 0 THEN 0 ELSE p - 1
  <2>1. /\ Late = (IF watch = "waits" THEN waited(P) ELSE P) + n
        /\ Late' = (IF watch' = "waits" THEN waited(P') ELSE P') + n'
    BY <1>4 DEF Late
  <2>2. CASE WatchReadable
    <3>1. /\ watch = "watching" /\ notified' = FALSE /\ Mishaps' = Mishaps
          /\ watch' = IF notified THEN WatchOn ELSE "waits"
          /\ P' = P \/ P' = P + 1
      BY <1>2, <2>2 DEF WatchReadable, watchUnchanged, Mishaps
    <3>2. CASE notified
      <4>1. /\ Late = P + 1 /\ Late' = P' /\ Late' <= Late
        BY <1>4, <2>1, <3>1, <3>2 DEF WatchOn
      <4>2. WatchDebt' <= WatchDebt /\ WatchDebt' \in Nat /\ WatchDebt \in Nat
        BY <1>1, <3>1, <3>2 DEF WatchOn, WatchDebt
      <4>3. Late \in Nat /\ Late' \in Nat
        BY <1>4, <4>1
      <4> QED
        BY <1>7, <3>1, <4>1, <4>2, <4>3, Kept
    <3>3. CASE ~notified
      <4>1. /\ Late = P /\ Late' <= P /\ Late' \in Nat
        BY <1>4, <2>1, <3>1, <3>3
      <4>2. WatchDebt' = WatchDebt /\ WatchDebt \in Nat
        BY <1>1, <3>1, <3>3 DEF WatchDebt
      <4>3. Late \in Nat /\ Late' <= Late /\ WatchDebt' <= WatchDebt
        BY <1>4, <4>1, <4>2
      <4> QED
        BY <1>7, <3>1, <4>1, <4>2, <4>3, Kept
    <3> QED
      BY <3>2, <3>3
  <2>3. CASE WaitRunsOut
    <3>1. /\ watch = "waits" /\ watch' = WatchOn /\ Mishaps' = Mishaps
          /\ notified' = notified /\ queue' = queue
          /\ conn = "off" \/ ~ProcessLoopQueued
      BY <2>3 DEF WaitRunsOut, watchUnchanged, Mishaps
    <3>2. P' = P
      BY <3>1, SamePlaces
    <3>3. CASE conn = "off"
      <4>1. Late' <= Late + 1 /\ Late \in Nat /\ Late' \in Nat
        BY <1>4, <2>1, <3>1, <3>2, <3>3 DEF WatchOn
      <4>2. WatchDebt = WatchDebt' + 1 /\ WatchDebt' \in Nat /\ WatchDebt \in Nat
        BY <1>1, <3>1, <3>3 DEF WatchOn, WatchDebt
      <4>3. Mishaps' = Mishaps
        BY <3>1
      <4> QED
        BY <1>7, <4>1, <4>2, <4>3, Moved
    <3>4. CASE conn # "off"
      <4>1. P = 0
        BY <1>4, <3>1, <3>4 DEF ProcessLoopQueued, Places
      <4>2. Late' = Late /\ Late \in Nat /\ Late' <= Late
        BY <2>1, <3>1, <3>2, <4>1
      <4>3. WatchDebt' = WatchDebt /\ WatchDebt \in Nat /\ WatchDebt' <= WatchDebt
        BY <1>1, <3>1, <3>4 DEF WatchDebt
      <4> QED
        BY <1>7, <3>1, <4>2, <4>3, Kept
    <3> QED
      BY <3>3, <3>4
  <2>4. CASE LoopDelays
    <3>1. /\ watch = "waits" /\ watch' = "watching" /\ conn = "on"
          /\ Mishaps' = Mishaps + 1 /\ notified' = notified /\ queue' = queue
      BY <2>4, FaultSpent DEF LoopDelays, watchUnchanged
    <3>2. P' = P
      BY <3>1, SamePlaces
    <3>3. Late' <= Late + 1 /\ Late \in Nat /\ Late' \in Nat
      BY <1>4, <2>1, <3>1, <3>2
    <3>4. WatchDebt' <= WatchDebt /\ WatchDebt \in Nat /\ WatchDebt' \in Nat
      BY <1>1, <3>1 DEF WatchDebt
    <3>5. Mishaps' = Mishaps + 1
      BY <3>1
    <3> QED
      BY <1>7, <3>3, <3>4, <3>5, Spent
  <2> QED
    BY <2>2, <2>3, <2>4
<1>6. Resubscriptions' <= Resubscriptions
  BY <1>3, <1>4
<1> QED
  BY <1>1, <1>3, <1>5, <1>6, RoomEased

\* A command that has been run leaves its place, and a ProcessLoop command wakes
\* the watch or leaves it a notification in the place of the command.
LEMMA CommandRun ==
  ASSUME TypeOK, TypeOK', RoomKept, queue # <<>>, queue' = Tail(queue),
         IF Head(queue) = "processLoop" THEN ProcessLoopComplete
                                        ELSE UNCHANGED watchVars
  PROVE  /\ OthersFit'
         /\ Cardinality(Places("resubscribe"))' =
              Cardinality(Places("resubscribe"))
                - (IF Head(queue) = "resubscribe" THEN 1 ELSE 0)
         /\ Late' <= Late
         /\ watch' # "left" <=> watch # "left"
<1> DEFINE P == Cardinality(Places("processLoop"))
           O == Cardinality(Places("other"))
<1>1. /\ O' \in Nat /\ O' = O - (IF Head(queue) = "other" THEN 1 ELSE 0)
      /\ P' \in Nat /\ P' = P - (IF Head(queue) = "processLoop" THEN 1 ELSE 0)
      /\ Cardinality(Places("resubscribe"))' =
           Cardinality(Places("resubscribe"))
             - (IF Head(queue) = "resubscribe" THEN 1 ELSE 0)
  BY DequeuedCount
<1>2. /\ O \in Nat /\ P \in Nat
      /\ Places("processLoop") = {} <=> P = 0
      /\ Places("processLoop")' = {} <=> P' = 0
  BY RoomTyped, RoomTypedNext DEF RoomTypes
<1>3. OthersFit'
  BY <1>1, <1>2, ConstantsAssumption DEF OthersFit, RoomKept, ConstantsAssumption
<1>4. watch' # "left" <=> watch # "left"
  BY DEF ProcessLoopComplete, watchVars
<1>5. Late' <= Late
  <2>1. CASE Head(queue) = "processLoop"
    <3>1. P' = P - 1
      BY <1>1, <2>1
    <3>2. CASE watch = "waits"
      <4>1. watch' = "watching" /\ notified' = notified
        BY <2>1, <3>2 DEF ProcessLoopComplete
      <4> QED
        BY <1>1, <1>2, <3>1, <3>2, <4>1 DEF Late
    <3>3. CASE watch # "waits"
      <4>1. watch' = watch /\ notified' = TRUE
        BY <2>1, <3>3 DEF ProcessLoopComplete
      <4> QED
        BY <1>1, <1>2, <3>1, <3>3, <4>1 DEF Late
    <3> QED
      BY <3>2, <3>3
  <2>2. CASE Head(queue) # "processLoop"
    <3>1. P' = P /\ watch' = watch /\ notified' = notified
      BY <1>1, <1>2, <2>2 DEF watchVars
    <3> QED
      BY <1>2, <3>1 DEF Late
  <2> QED
    BY <2>1, <2>2
<1> QED
  BY <1>1, <1>3, <1>4, <1>5

\* A sum is no greater when neither part of it is.
LEMMA SumsOrdered ==
  \A r, q, d, e \in Nat : q <= r /\ e <= d => q + e <= r + d
OBVIOUS

\* What is owed stays paid for when none of it grows, but for a resubscription that
\* takes the place of a session's debt.
LEMMA PaidStill ==
  \A r, q, l, k, d, e, w, v, f \in Nat :
     r + l + d + w <= f + 1 /\ q + e <= r + d /\ k <= l /\ v <= w
     => q + k + e + v <= f + 1
OBVIOUS

\* So it does when a watch's debt takes the place of a resubscription.
LEMMA PaidInstead ==
  \A q, l, k, d, w, v, f \in Nat :
     (q + 1) + l + d + w <= f + 1 /\ k <= l /\ v <= 1 => q + k + d + v <= f + 1
OBVIOUS

\* So it does when a fault adds a watch's debt.
LEMMA PaidByCut ==
  \A r, l, d, w, v, f \in Nat :
     r + l + d + w <= f + 1 /\ v <= w + 1 => r + l + d + v <= (f + 1) + 1
OBVIOUS

\* So it does when a fault adds a session's debt.
LEMMA PaidByExpiry ==
  \A r, l, e, w, f \in Nat :
     r + l + 0 + w <= f + 1 /\ e <= 1 => r + l + e + w <= (f + 1) + 1
OBVIOUS

\* So it does when a fault adds both debts to a run that owed one less than it might.
LEMMA PaidByFirstFault ==
  \A l, e, w, v, f \in Nat :
     l + w <= f /\ e <= 1 /\ v <= w + 1 => 0 + l + e + v <= (f + 1) + 1
OBVIOUS

\* The end of a connection takes a clean session with it and no other.
LEMMA CutSession ==
  ASSUME Cut
  PROVE  link' = FALSE /\ session' = IF session = "clean" THEN "none" ELSE session
BY DEF Cut, LoseSession

\* A fault that cuts the connection pays for what it leaves owed.
LEMMA RoomCut ==
  ASSUME TypeOK, TypeOK', RoomKept, link, Cut, SpendFault,
         UNCHANGED <<taskPc, expiries, queue, conn, xCleanSession, watchVars>>
  PROVE  RoomKept'
<1>1. \A d : Cardinality(Places(d))' = Cardinality(Places(d))
  BY SamePlaces
<1>2. /\ OthersFit' /\ PublishAccepted'
      /\ Resubscriptions' = Resubscriptions /\ Resubscriptions \in Nat
  BY <1>1, RoomTyped DEF Resubscriptions, OthersFit, RoomKept, PublishAccepted,
     RoomTypes
<1>3. Late' = Late /\ Late \in Nat
  <2>1. Places("processLoop")' = Places("processLoop")
    BY DEF Places
  <2> QED
    BY <1>1, <2>1, RoomTyped DEF Late, watchVars, RoomTypes
<1>4. Mishaps \in Nat /\ Mishaps' = Mishaps + 1
  BY MishapsNat, FaultSpent
<1>5. session # "none" /\ link' = FALSE
  BY CutSession DEF RoomKept, SessionOfLink
<1>6. /\ SessionDebt = 0 /\ SessionDebt' \in Nat /\ SessionDebt' <= 1
      /\ session # "clean" => SessionDebt' = 0
  BY <1>5, CutSession DEF SessionDebt
<1>7. WatchDebt' <= WatchDebt + 1 /\ WatchDebt' \in Nat /\ WatchDebt \in Nat
  BY DEF WatchDebt, watchVars
<1>8. FaultsPaid'
  <2>1. CASE session = "clean"
    <3>1. Resubscriptions' = 0 /\ Late + WatchDebt <= Mishaps
      BY <1>2, <2>1 DEF RoomKept, FirstSession
    <3>2. 0 + Late + SessionDebt' + WatchDebt' <= (Mishaps + 1) + 1
      BY <1>3, <1>4, <1>6, <1>7, <3>1, PaidByFirstFault
    <3> QED
      BY <1>3, <1>4, <3>1, <3>2 DEF FaultsPaid
  <2>2. CASE session # "clean"
    <3>1. Resubscriptions + Late + SessionDebt + WatchDebt <= Mishaps + 1
      BY DEF RoomKept, FaultsPaid
    <3>2. SessionDebt \in Nat /\ SessionDebt' = SessionDebt
      BY <1>6, <2>2
    <3>3. Resubscriptions + Late + SessionDebt + WatchDebt' <= (Mishaps + 1) + 1
      BY <1>2, <1>3, <1>4, <1>7, <3>1, <3>2, PaidByCut
    <3> QED
      BY <1>2, <1>3, <1>4, <3>2, <3>3 DEF FaultsPaid
  <2> QED
    BY <2>1, <2>2
<1>9. SessionOfLink' /\ FirstSession' /\ WatchOfConnection'
  BY <1>5, CutSession DEF RoomKept, SessionOfLink, FirstSession,
     WatchOfConnection, watchVars
<1> QED
  BY <1>2, <1>8, <1>9 DEF RoomKept

\* A command loop that ends on a dead connection, or over a resubscription with
\* nothing to send, leaves no more owed than it found.
LEMMA RoomLoopEnds ==
  ASSUME TypeOK, TypeOK', RoomKept, conn = "on", LoopEnds,
         UNCHANGED <<taskPc, Mishaps>>,
         \/ ~link /\ queue' = queue /\ UNCHANGED watchVars
         \/ /\ queue # <<>> /\ queue' = Tail(queue)
            /\ ~link \/ Head(queue) = "resubscribe"
            /\ IF Head(queue) = "processLoop" THEN ProcessLoopComplete
                                              ELSE UNCHANGED watchVars
  PROVE  RoomKept'
<1> DEFINE R == Cardinality(Places("resubscribe"))
<1>1. /\ conn' = "off" /\ xCleanSession' = xCleanSession /\ ~xCleanSession
      /\ link' = FALSE
      /\ session' = IF session = "clean" THEN "none" ELSE session
  BY CutSession DEF LoopEnds, RoomKept, FirstSession
<1>2. /\ Resubscriptions = R /\ Resubscriptions' = R'
      /\ R \in Nat /\ R' \in Nat /\ Late \in Nat /\ Late' \in Nat
      /\ SessionDebt \in Nat /\ SessionDebt' \in Nat
      /\ WatchDebt \in Nat /\ WatchDebt' \in Nat /\ WatchDebt' <= 1
      /\ Mishaps \in Nat
  <2>1. R \in Nat /\ R' \in Nat
    BY RoomTyped, RoomTypedNext DEF RoomTypes
  <2>2. Resubscriptions = R /\ Resubscriptions' = R'
    BY <1>1, <2>1 DEF Resubscriptions
  <2> QED
    BY <2>1, <2>2, RoomTyped, RoomTypedNext, MishapsNat DEF RoomTypes
<1>3. /\ OthersFit' /\ Late' <= Late /\ R' <= R
      /\ link => R = R' + 1
  <2>1. CASE ~link /\ queue' = queue /\ UNCHANGED watchVars
    <3>1. Places("processLoop")' = Places("processLoop")
      BY <2>1 DEF Places
    <3>2. \A d : Cardinality(Places(d))' = Cardinality(Places(d))
      BY <2>1, SamePlaces
    <3>3. Late' = Late
      BY <2>1, <3>1, <3>2 DEF Late, watchVars
    <3> QED
      BY <1>2, <2>1, <3>2, <3>3 DEF OthersFit, RoomKept
  <2>2. CASE /\ queue # <<>> /\ queue' = Tail(queue)
             /\ ~link \/ Head(queue) = "resubscribe"
             /\ IF Head(queue) = "processLoop" THEN ProcessLoopComplete
                                               ELSE UNCHANGED watchVars
    <3>1. OthersFit' /\ Late' <= Late
          /\ R' = R - (IF Head(queue) = "resubscribe" THEN 1 ELSE 0)
      BY <2>2, CommandRun
    <3> QED
      BY <1>2, <2>2, <3>1
  <2> QED
    BY <2>1, <2>2
<1>4. session # "clean" /\ session' = session
  <2>1. CASE ~link
    BY <1>1, <2>1 DEF RoomKept, SessionOfLink
  <2>2. CASE link
    <3>1. Resubscriptions # 0
      BY <1>2, <1>3, <2>2
    <3> QED
      BY <1>1, <3>1 DEF RoomKept, FirstSession
  <2> QED
    BY <2>1, <2>2
<1>5. SessionDebt' = SessionDebt
  BY <1>1, <1>4 DEF SessionDebt
<1>6. Resubscriptions + Late + SessionDebt + WatchDebt <= Mishaps + 1
  BY DEF RoomKept, FaultsPaid
<1>7. Resubscriptions' + Late' + SessionDebt' + WatchDebt' <= Mishaps + 1
  <2>1. CASE link
    <3>1. Resubscriptions = Resubscriptions' + 1
      BY <1>2, <1>3, <2>1
    <3>2. Resubscriptions' + Late' + SessionDebt + WatchDebt' <= Mishaps + 1
      <4>1. /\ Resubscriptions \in Nat /\ Resubscriptions' \in Nat
            /\ Late' <= Late /\ WatchDebt' <= 1
        BY <1>2, <1>3
      <4>2. (Resubscriptions' + 1) + Late + SessionDebt + WatchDebt <= Mishaps + 1
        BY <1>6, <3>1
      <4> QED
        BY <1>2, <4>1, <4>2, PaidInstead
    <3> QED
      BY <1>5, <3>2
  <2>2. CASE ~link
    <3>1. WatchDebt = 1 /\ WatchDebt' <= WatchDebt
      BY <1>2, <2>2 DEF WatchDebt
    <3>2. Resubscriptions' + SessionDebt' <= Resubscriptions + SessionDebt
      BY <1>2, <1>3, <1>5, SumsOrdered
    <3> HIDE DEF R
    <3> QED
      BY <1>2, <1>3, <1>6, <3>1, <3>2, PaidStill
  <2> QED
    BY <2>1, <2>2
<1>8. FaultsPaid' /\ PublishAccepted'
  BY <1>7 DEF FaultsPaid, RoomKept, PublishAccepted
<1>9. SessionOfLink' /\ FirstSession' /\ WatchOfConnection'
  BY <1>1, <1>4 DEF RoomKept, SessionOfLink, FirstSession, WatchOfConnection
<1> QED
  BY <1>3, <1>8, <1>9 DEF RoomKept

\* The command loop makes room, or ends and leaves what it owes.
LEMMA AgentRoom ==
  ASSUME TypeOK, TypeOK', RoomKept, Agent
  PROVE  RoomKept'
<1> USE DEF taskVars, connVars, linkVars, agentVars, envVars
<1>1. /\ taskPc' = taskPc /\ Mishaps \in Nat /\ Mishaps <= Mishaps
      /\ taskPc' # "asserted" /\ PublishAccepted'
  <2>1. UNCHANGED taskVars
    BY DEF Agent, RunLoop, Receive, RunCommand, RunCommandFails, LoopFails,
       ReceiveAck, ReceivePublish
  <2>2. Mishaps \in Nat /\ Mishaps <= Mishaps
    BY MishapsNat
  <2> QED
    BY <2>1, <2>2 DEF RoomKept, PublishAccepted
<1>2. CASE RunCommand
  <2>1. /\ queue # <<>> /\ queue' = Tail(queue) /\ Mishaps' = Mishaps /\ conn = "on"
        /\ IF Head(queue) = "processLoop" THEN ProcessLoopComplete
                                          ELSE UNCHANGED watchVars
    BY <1>2 DEF RunCommand, Mishaps
  <2>2. CASE ~link /\ LoopEnds
    BY <1>1, <2>1, <2>2, RoomLoopEnds
  <2>3. CASE UNCHANGED <<linkVars, link, toDevice, session, subscribed, missed>>
    <3>1. /\ OthersFit' /\ Late' <= Late /\ (watch' # "left" <=> watch # "left")
          /\ Cardinality(Places("resubscribe"))' =
               Cardinality(Places("resubscribe"))
                 - (IF Head(queue) = "resubscribe" THEN 1 ELSE 0)
      BY <2>1, CommandRun
    <3>2. /\ Resubscriptions = Cardinality(Places("resubscribe"))
          /\ Resubscriptions' = Cardinality(Places("resubscribe"))'
          /\ Resubscriptions \in Nat /\ Resubscriptions' \in Nat
          /\ Late \in Nat /\ Late' \in Nat
          /\ WatchDebt \in Nat
      <4>1. /\ \A c : Cardinality(Places(c)) \in Nat
            /\ Cardinality(Places("resubscribe"))' \in Nat
        BY RoomTyped, RoomTypedNext DEF RoomTypes
      <4> QED
        BY <2>1, <2>3, <4>1, RoomTyped, RoomTypedNext
           DEF Resubscriptions, RoomTypes
    <3>3. Resubscriptions' <= Resubscriptions
      BY <3>1, <3>2
    <3>4. WatchDebt' = WatchDebt /\ WatchDebt' <= WatchDebt
      BY <2>1, <2>3, <3>2 DEF WatchDebt
    <3>5. /\ Mishaps <= Mishaps'
          /\ Late' + WatchDebt' + Mishaps <= Late + WatchDebt + Mishaps'
      BY <1>1, <2>1, <3>1, <3>2, <3>4, Kept
    <3> QED
      BY <1>1, <2>3, <3>1, <3>3, <3>5, RoomEased
  <2> QED
    BY <1>2, <2>2, <2>3 DEF RunCommand
<1>3. CASE RunCommandFails
  <2>1. /\ queue # <<>> /\ queue' = Tail(queue) /\ Mishaps' = Mishaps /\ conn = "on"
        /\ ~link \/ Head(queue) = "resubscribe"
        /\ LoopEnds
        /\ Head(queue) # "processLoop" /\ UNCHANGED watchVars
    BY <1>3 DEF RunCommandFails, NothingToSend, Mishaps
  <2> QED
    BY <1>1, <2>1, RoomLoopEnds
<1>4. CASE LoopFails
  BY <1>1, <1>4, RoomLoopEnds DEF LoopFails, Mishaps
<1>5. CASE ReceiveAck
  <2>1. /\ UNCHANGED <<conn, xCleanSession, link, session, watchVars>>
        /\ queue' = queue /\ Mishaps' = Mishaps
    BY <1>5 DEF ReceiveAck, Mishaps
  <2> QED
    BY <1>1, <2>1, RoomConnected
<1>6. CASE ReceivePublish
  <2>1. /\ link /\ UNCHANGED <<taskPc, expiries, queue, conn, xCleanSession, watchVars>>
    BY <1>6 DEF ReceivePublish
  <2>2. CASE Cut /\ SpendFault
    BY <2>1, <2>2, RoomCut
  <2>3. CASE UNCHANGED <<link, toBroker, session, subscribed, missed, faults>>
    <3>1. /\ UNCHANGED <<conn, xCleanSession, link, session, watchVars>>
          /\ queue' = queue /\ Mishaps' = Mishaps
      BY <1>6, <2>1, <2>3 DEF ReceivePublish, Mishaps
    <3> QED
      BY <1>1, <3>1, RoomConnected
  <2> QED
    BY <1>6, <2>2, <2>3 DEF ReceivePublish
<1> QED
  BY <1>2, <1>3, <1>4, <1>5, <1>6 DEF Agent, RunLoop, Receive

\* Connecting ends the watch and settles what it was owed; the resubscription to a
\* new session takes the place of what the old one's end was owed.
LEMMA ConnectionRoom ==
  ASSUME TypeOK, TypeOK', RoomKept, Connection
  PROVE  RoomKept'
<1> USE DEF taskVars, connVars, linkVars, agentVars, brokerVars, envVars,
            connUnchanged
<1> DEFINE R == Cardinality(Places("resubscribe"))
<1>1. CASE WaitRunsOut
  BY <1>1, WatchRoom
<1>2. /\ R \in Nat /\ R' \in Nat
      /\ Resubscriptions \in Nat /\ Resubscriptions' \in Nat
      /\ Late \in Nat /\ Late' \in Nat /\ Mishaps \in Nat
      /\ SessionDebt \in Nat /\ SessionDebt' \in Nat
      /\ WatchDebt \in Nat /\ WatchDebt' \in Nat
      /\ 0 <= WatchDebt
  BY RoomTyped, RoomTypedNext, MishapsNat DEF RoomTypes
<1>3. ASSUME ~WaitRunsOut
      PROVE  taskPc' = taskPc /\ Mishaps' = Mishaps /\ PublishAccepted'
  BY <1>3 DEF Connection, ConnectClean, ResumeSession, StartSession, Resubscribe,
     Announce, Mishaps, RoomKept, PublishAccepted
<1>4. ASSUME ~WaitRunsOut, OthersFit',
             Resubscriptions' + SessionDebt' <= Resubscriptions + SessionDebt,
             Late' <= Late, WatchDebt' <= WatchDebt,
             SessionOfLink', FirstSession', WatchOfConnection'
      PROVE  RoomKept'
  <2>1. Resubscriptions + Late + SessionDebt + WatchDebt <= Mishaps + 1
    BY DEF RoomKept, FaultsPaid
  <2>2. Resubscriptions' + Late' + SessionDebt' + WatchDebt' <= Mishaps + 1
    <3> HIDE DEF R
    <3> QED
      BY <1>2, <1>4, <2>1, PaidStill
  <2> QED
    BY <1>3, <1>4, <2>2 DEF RoomKept, FaultsPaid
<1>5. ASSUME queue' = queue, UNCHANGED notified, watch # "waits", watch' # "waits"
      PROVE  OthersFit' /\ R' = R /\ Late' = Late /\ Late' <= Late
  <2>1. \A d : Cardinality(Places(d))' = Cardinality(Places(d))
    BY <1>5, SamePlaces
  <2>2. Late' = Late
    BY <1>5, <2>1 DEF Late
  <2> QED
    BY <1>2, <2>1, <2>2 DEF OthersFit, RoomKept
<1>6. CASE ConnectClean
  <2>1. /\ queue' = queue /\ xCleanSession' = xCleanSession /\ xCleanSession
        /\ conn = "off" /\ conn' = "announce" /\ link' /\ session' = "clean"
        /\ watch # "waits" /\ watch' = "left" /\ UNCHANGED notified
    BY <1>6 DEF ConnectClean, LeaveWatch
  <2>2. OthersFit' /\ R' = R /\ Late' = Late /\ Late' <= Late
    BY <1>5, <2>1
  <2>3. /\ Resubscriptions = 0 /\ Resubscriptions' = 0
        /\ Late + WatchDebt <= Mishaps
    BY <1>2, <2>1, <2>2 DEF Resubscriptions, RoomKept, FirstSession
  <2>4. /\ SessionDebt' = 0 /\ SessionDebt = 0
        /\ WatchDebt' = 0 /\ WatchDebt = 0
    BY <2>1 DEF SessionDebt, WatchDebt, RoomKept, FirstSession, WatchOfConnection
  <2>5. ~WaitRunsOut /\ Mishaps' = Mishaps
    BY <1>3, <2>1 DEF WaitRunsOut
  <2>6. FirstSession'
    BY <2>1, <2>2, <2>3, <2>4, <2>5 DEF FirstSession
  <2> QED
    BY <1>4, <2>1, <2>2, <2>3, <2>4, <2>5, <2>6
       DEF SessionOfLink, WatchOfConnection
<1>7. CASE ResumeSession
  <2>1. /\ queue' = queue /\ xCleanSession' = xCleanSession /\ ~xCleanSession
        /\ conn = "off" /\ conn' = "announce" /\ link' /\ session' = session
        /\ session = "persistent"
        /\ watch # "waits" /\ watch' = "left" /\ UNCHANGED notified
    BY <1>7 DEF ResumeSession, LeaveWatch
  <2>2. OthersFit' /\ R' = R /\ Late' <= Late
    BY <1>5, <2>1
  <2>3. Resubscriptions = R /\ Resubscriptions' = R
    BY <1>2, <2>1, <2>2 DEF Resubscriptions
  <2>4. SessionDebt' = SessionDebt /\ WatchDebt' = 0
    BY <2>1 DEF SessionDebt, WatchDebt
  <2>5. Resubscriptions' + SessionDebt' <= Resubscriptions + SessionDebt
    BY <1>2, <2>3, <2>4, SumsOrdered
  <2>6. ~WaitRunsOut
    BY <2>1 DEF WaitRunsOut
  <2> QED
    BY <1>2, <1>4, <2>1, <2>2, <2>4, <2>5, <2>6
       DEF SessionOfLink, FirstSession, WatchOfConnection
<1>8. CASE StartSession
  <2>1. /\ queue' = queue /\ xCleanSession' = xCleanSession /\ ~xCleanSession
        /\ conn = "off" /\ conn' = "resubscribe" /\ link'
        /\ session = "none" /\ session' = "persistent"
        /\ watch # "waits" /\ watch' = "left" /\ UNCHANGED notified
    BY <1>8 DEF StartSession, LeaveWatch
  <2>2. OthersFit' /\ R' = R /\ Late' <= Late
    BY <1>5, <2>1
  <2>3. Resubscriptions = R /\ Resubscriptions' = R + 1
    BY <1>2, <2>1, <2>2 DEF Resubscriptions
  <2>4. SessionDebt = 1 /\ SessionDebt' = 0 /\ WatchDebt' = 0
    BY <2>1 DEF SessionDebt, WatchDebt
  <2>5. Resubscriptions' + SessionDebt' <= Resubscriptions + SessionDebt
    BY <1>2, <2>3, <2>4
  <2>6. ~WaitRunsOut
    BY <2>1 DEF WaitRunsOut
  <2> QED
    BY <1>2, <1>4, <2>1, <2>2, <2>4, <2>5, <2>6
       DEF SessionOfLink, FirstSession, WatchOfConnection
<1>9. CASE Resubscribe
  <2>1. /\ conn = "resubscribe" /\ ~xCleanSession /\ xCleanSession' = xCleanSession
        /\ watch = "left" /\ watch' = "left" /\ UNCHANGED notified
    BY <1>9 DEF Resubscribe, RoomKept, FirstSession, WatchOfConnection, watchVars
  <2>2. Resubscriptions = R + 1 /\ session # "clean"
    BY <1>2, <2>1 DEF Resubscriptions, RoomKept, FirstSession
  <2>3. ~WaitRunsOut
    BY <2>1 DEF WaitRunsOut
  <2>4. CASE registered /\ ~HasRoom
    <3>1. queue' = queue /\ conn' = "off" /\ Cut
      BY <1>9, <2>4 DEF Resubscribe
    <3>2. link' = FALSE /\ session' = session
      BY <2>2, <3>1, CutSession
    <3>3. OthersFit' /\ R' = R /\ Late' <= Late
      BY <1>5, <2>1, <3>1
    <3>4. Resubscriptions' = R /\ Resubscriptions' <= Resubscriptions
      BY <1>2, <2>2, <3>1, <3>3 DEF Resubscriptions
    <3>5. SessionDebt' = SessionDebt /\ WatchDebt' = 0
      BY <2>1, <3>1, <3>2 DEF SessionDebt, WatchDebt
    <3>6. Resubscriptions' + SessionDebt' <= Resubscriptions + SessionDebt
      BY <1>2, <3>4, <3>5, SumsOrdered
    <3> QED
      BY <1>2, <1>4, <2>1, <2>2, <2>3, <3>1, <3>2, <3>3, <3>5, <3>6
         DEF SessionOfLink, FirstSession, WatchOfConnection
  <2>5. CASE ~(registered /\ ~HasRoom)
    <3>1. /\ conn' = "announce"
          /\ queue' = queue \/ queue' = Append(queue, "resubscribe")
          /\ UNCHANGED <<link, session>>
      BY <1>9, <2>5 DEF Resubscribe
    <3>2. OthersFit' /\ R' \in {R, R + 1} /\ Late' <= Late
      <4>1. CASE queue' = queue
        BY <1>5, <2>1, <4>1
      <4>2. CASE queue' = Append(queue, "resubscribe")
        <5>1. /\ R' = R + 1
              /\ \A d \in {"other", "processLoop"} :
                    Cardinality(Places(d))' = Cardinality(Places(d)) + 0
          BY <4>2, EnqueuedCount
        <5>2. \A d : Cardinality(Places(d)) \in Nat
          BY RoomTyped DEF RoomTypes
        <5>3. Late' = Late
          BY <2>1, <5>1, <5>2 DEF Late
        <5> QED
          BY <1>2, <5>1, <5>2, <5>3 DEF OthersFit, RoomKept
      <4> QED
        BY <3>1, <4>1, <4>2
    <3>3. Resubscriptions' = R' /\ Resubscriptions' <= Resubscriptions
      BY <1>2, <2>2, <3>1, <3>2 DEF Resubscriptions
    <3>4. /\ SessionDebt' = SessionDebt
          /\ WatchDebt' = WatchDebt /\ WatchDebt' <= WatchDebt
      BY <1>2, <2>1, <3>1 DEF SessionDebt, WatchDebt
    <3>5. Resubscriptions' + SessionDebt' <= Resubscriptions + SessionDebt
      BY <1>2, <3>3, <3>4, SumsOrdered
    <3>6. SessionOfLink' /\ FirstSession' /\ WatchOfConnection'
      BY <2>1, <2>2, <3>1 DEF RoomKept, SessionOfLink, FirstSession,
         WatchOfConnection
    <3> QED
      BY <1>4, <2>3, <3>2, <3>4, <3>5, <3>6
  <2> QED
    BY <2>4, <2>5
<1>10. CASE Announce
  <2>1. /\ queue' = queue /\ xCleanSession' = FALSE
        /\ conn = "announce" /\ conn' = "on" /\ UNCHANGED <<link, session>>
        /\ watch = "left" /\ watch' = "watching" /\ UNCHANGED notified
    BY <1>10 DEF Announce, RoomKept, WatchOfConnection
  <2>2. OthersFit' /\ R' = R /\ Late' = Late /\ Late' <= Late
    BY <1>5, <2>1
  <2>3. Resubscriptions = R /\ Resubscriptions' = R
    BY <1>2, <2>1, <2>2 DEF Resubscriptions
  <2>4. /\ SessionDebt' = SessionDebt
        /\ WatchDebt' = WatchDebt /\ WatchDebt' <= WatchDebt
    BY <1>2, <2>1 DEF SessionDebt, WatchDebt
  <2>5. Resubscriptions' + SessionDebt' <= Resubscriptions + SessionDebt
    BY <1>2, <2>3, <2>4, SumsOrdered
  <2>6. ~WaitRunsOut /\ Mishaps' = Mishaps
    BY <1>3, <2>1 DEF WaitRunsOut
  <2>7. SessionOfLink' /\ FirstSession' /\ WatchOfConnection'
    BY <2>1, <2>2, <2>3, <2>4, <2>6 DEF RoomKept, SessionOfLink, FirstSession,
       WatchOfConnection
  <2> QED
    BY <1>4, <2>2, <2>4, <2>5, <2>6, <2>7
<1> QED
  BY <1>1, <1>6, <1>7, <1>8, <1>9, <1>10 DEF Connection

\* What happens outside the device takes up no room; a session expires only once it
\* has lost its connection.
LEMMA OutsideRoom ==
  ASSUME TypeOK, TypeOK', RoomKept,
         \/ HandleEvent \/ Broker \/ LinkBreaks \/ SessionExpires
         \/ \E payload \in OperatorPayloads : OperatorPublishes(payload)
  PROVE  RoomKept'
<1> USE DEF netUnchanged, taskVars, agentVars, connVars, linkVars, brokerVars,
            envVars
<1>1. Mishaps \in Nat /\ Mishaps' \in Nat /\ taskPc # "asserted"
  BY MishapsNat, MishapsNatNext DEF RoomKept, PublishAccepted
<1>2. CASE \/ HandleEvent \/ Broker
           \/ \E payload \in OperatorPayloads : OperatorPublishes(payload)
  <2>1. /\ UNCHANGED <<taskPc, conn, xCleanSession, link, session, watchVars>>
        /\ queue' = queue
        /\ Mishaps' = Mishaps \/ Mishaps' = Mishaps + 1
    <3>1. expiries' = expiries /\ (faults' = faults \/ SpendFault)
      BY <1>2 DEF HandleEvent, Broker, BrokerSubscribes, BrokerPublishes,
                  OperatorPublishes
    <3>2. Mishaps' = Mishaps \/ Mishaps' = Mishaps + 1
      BY <3>1, FaultSpent DEF Mishaps
    <3> QED
      BY <1>2, <3>2 DEF HandleEvent, Broker, BrokerSubscribes, BrokerPublishes,
                        BrokerTakes, OperatorPublishes
  <2>2. Mishaps <= Mishaps'
    BY <1>1, <2>1
  <2> QED
    BY <1>1, <2>1, <2>2, RoomConnected
<1>3. CASE LinkBreaks
  BY <1>3, RoomCut DEF LinkBreaks
<1>4. CASE SessionExpires
  <2>1. /\ UNCHANGED <<taskPc, conn, xCleanSession, link, queue, watch, notified>>
        /\ ~link /\ session = "persistent" /\ session' = "none"
        /\ Mishaps' = Mishaps + 1
    <3>1. faults' = faults /\ expiries' = expiries + 1
      BY <1>4 DEF SessionExpires
    <3>2. Mishaps' = Mishaps + 1
      BY <3>1, ConstantsAssumption DEF ConstantsAssumption, TypeOK, Mishaps
    <3> QED
      BY <1>4, <3>2 DEF SessionExpires, LoseSession, watchVars
  <2>2. \A d : Cardinality(Places(d))' = Cardinality(Places(d))
    BY <2>1, SamePlaces
  <2>3. /\ Resubscriptions' = Resubscriptions /\ Late' = Late
        /\ WatchDebt' = WatchDebt
        /\ OthersFit'
    <3>1. Places("processLoop")' = Places("processLoop")
      BY <2>1 DEF Places
    <3> QED
      BY <2>1, <2>2, <3>1 DEF Resubscriptions, Late, WatchDebt, OthersFit, RoomKept
  <2>4. SessionDebt = 0 /\ SessionDebt' \in Nat /\ SessionDebt' <= 1
    BY <2>1 DEF SessionDebt
  <2>5. Resubscriptions + Late + 0 + WatchDebt <= Mishaps + 1
    BY <2>4 DEF RoomKept, FaultsPaid
  <2>6. Resubscriptions + Late + SessionDebt' + WatchDebt <= (Mishaps + 1) + 1
    BY <1>1, <2>4, <2>5, RoomTyped, PaidByExpiry DEF RoomTypes
  <2>7. FaultsPaid' /\ PublishAccepted'
    BY <1>1, <2>1, <2>3, <2>6 DEF FaultsPaid, PublishAccepted
  <2>8. SessionOfLink' /\ FirstSession' /\ WatchOfConnection'
    BY <2>1 DEF RoomKept, SessionOfLink, FirstSession, WatchOfConnection
  <2> QED
    BY <2>3, <2>7, <2>8 DEF RoomKept
<1> QED
  BY <1>2, <1>3, <1>4

\* At the publish the task has nothing queued: the queue then holds commands of
\* others, resubscriptions and ProcessLoop commands only.
LEMMA PublishFindsRoom ==
  ASSUME TypeOK, Awaited, RoomKept, RoomForPublish, taskPc = "publish"
  PROVE  HasRoom
<1> DEFINE O == Places("other")
           R == Places("resubscribe")
           P == Places("processLoop")
<1>1. DOMAIN queue = (O \cup R) \cup P
  <2>1. \A i \in DOMAIN queue : queue[i] \in Commands
    BY DEF TypeOK
  <2>2. ~IsQueued("subscribe") /\ ~IsQueued("publish")
    BY DEF Awaited, OneOutstanding, WaitsFor
  <2> QED
    BY <2>1, <2>2 DEF Places, IsQueued, Commands, Own
<1>2. O \cap R = {} /\ (O \cup R) \cap P = {}
  BY DEF Places
<1>3. /\ IsFiniteSet(O) /\ Cardinality(O) \in Nat
      /\ IsFiniteSet(R) /\ Cardinality(R) \in Nat
      /\ IsFiniteSet(P) /\ Cardinality(P) \in Nat
  BY PlacesFinite
<1>4. Cardinality(DOMAIN queue) = Cardinality(O) + Cardinality(R) + Cardinality(P)
  <2> HIDE DEF O, R, P
  <2>1. /\ IsFiniteSet(O \cup R)
        /\ Cardinality(O \cup R) =
             Cardinality(O) + Cardinality(R) - Cardinality(O \cap R)
    BY <1>3, FS_Union
  <2>2. Cardinality((O \cup R) \cup P) =
          Cardinality(O \cup R) + Cardinality(P) - Cardinality((O \cup R) \cap P)
    BY <1>3, <2>1, FS_Union
  <2>3. Cardinality(O \cap R) = 0 /\ Cardinality((O \cup R) \cap P) = 0
    BY <1>2, FS_EmptySet
  <2> QED
    BY <1>1, <1>3, <2>1, <2>2, <2>3
<1>5. Len(queue) \in Nat /\ Cardinality(DOMAIN queue) = Len(queue)
  <2>1. DOMAIN queue = 1 .. Len(queue) /\ Len(queue) \in Nat
    BY DEF TypeOK
  <2>2. Cardinality(1 .. Len(queue)) =
          IF 1 > Len(queue) THEN 0 ELSE Len(queue) - 1 + 1
    BY <2>1, FS_Interval
  <2> QED
    BY <2>1, <2>2
<1>6. Cardinality(R) + Cardinality(P) <= Mishaps + 2
  <2>1. /\ Resubscriptions \in Nat /\ Cardinality(R) <= Resubscriptions
        /\ Late \in Nat /\ Cardinality(P) <= Late + 1
        /\ SessionDebt \in Nat /\ WatchDebt \in Nat
    BY <1>3, RoomTyped DEF Resubscriptions, RoomTypes
  <2>2. Resubscriptions + Late + SessionDebt + WatchDebt <= Mishaps + 1
    BY DEF RoomKept, FaultsPaid
  <2> HIDE DEF R, P
  <2> QED
    BY <1>3, <2>1, <2>2, MishapsNat
<1>7. Cardinality(O) <= OtherClients
  BY DEF RoomKept, OthersFit
<1> HIDE DEF O, R, P
<1> QED
  BY <1>3, <1>4, <1>5, <1>6, <1>7, MishapsNat, ConstantsAssumption
     DEF RoomForPublish, HasRoom, ConstantsAssumption

\* The task stops at its assertion only if a publish finds no room.
LEMMA TaskRoom ==
  ASSUME TypeOK, TypeOK', Awaited, RoomKept, RoomForPublish, Task
  PROVE  RoomKept'
<1>1. /\ UNCHANGED <<conn, xCleanSession, link, session, watchVars>>
      /\ Mishaps' = Mishaps
  BY DEF Task, StartTask, Subscribe, SubscribeAcknowledged, WaitForNetwork,
         Publish, PublishAcknowledged, DelayOver, outside, connVars, linkVars,
         brokerVars, envVars, Mishaps
<1>2. \/ queue' = queue
      \/ \E c \in {"subscribe", "publish"} : queue' = Append(queue, c)
  BY DEF Task, StartTask, Subscribe, SubscribeAcknowledged, WaitForNetwork,
         Publish, PublishAcknowledged, DelayOver
<1>3. taskPc' # "asserted"
  BY PublishFindsRoom
     DEF Task, StartTask, Subscribe, SubscribeAcknowledged, WaitForNetwork,
         Publish, PublishAcknowledged, DelayOver, TaskGoto
<1>4. Mishaps <= Mishaps'
  BY <1>1, MishapsNat
<1> QED
  BY <1>1, <1>2, <1>3, <1>4, RoomConnected

\* A command of another client fits beside those it has queued already.
LEMMA OtherRoom ==
  ASSUME TypeOK, TypeOK', RoomKept, OtherClientEnqueues
  PROVE  RoomKept'
<1>1. /\ queue' = Append(queue, "other")
      /\ Cardinality(Places("other")) < OtherClients
      /\ taskPc' # "asserted"
      /\ UNCHANGED <<conn, xCleanSession, link, session, watchVars>>
      /\ Mishaps' = Mishaps
  BY DEF OtherClientEnqueues, Places, Mishaps, taskVars, connVars, linkVars, brokerVars,
         envVars, RoomKept, PublishAccepted
<1>2. Mishaps <= Mishaps'
  BY <1>1, MishapsNat
<1> QED
  BY <1>1, <1>2, RoomConnected

\* With a place for a command of every other client, one for every fault of a run and
\* every session that expires, two for the watch of the socket and one more, a publish
\* always finds room: the assertion of line 561 never fails, in whatever order commands
\* are queued and run, waits run out, connections end and sessions are resumed.
THEOREM PublishNeverAsserts == RoomForPublish => (Spec => []PublishAccepted)
<1> SUFFICES ASSUME RoomForPublish PROVE Spec => []PublishAccepted
  OBVIOUS
<1>1. TypeOK /\ TypeOK' /\ Awaited /\ RoomKept /\ [Next]_vars => RoomKept'
  <2> SUFFICES ASSUME TypeOK, TypeOK', Awaited, RoomKept, [Next]_vars
               PROVE  RoomKept'
    OBVIOUS
  <2>1. CASE UNCHANGED vars
    <3>1. /\ UNCHANGED <<conn, xCleanSession, link, session, watchVars>>
          /\ queue' = queue /\ Mishaps <= Mishaps' /\ taskPc' # "asserted"
      BY <2>1, MishapsNat DEF vars, Mishaps, taskVars, connVars, linkVars, agentVars,
         brokerVars, envVars, RoomKept, PublishAccepted
    <3> QED
      BY <3>1, RoomConnected
  <2> QED
    BY <2>1, TaskRoom, OtherRoom, AgentRoom, ConnectionRoom, WatchRoom,
       OutsideRoom DEF Next
<1>2. RoomKept => PublishAccepted
  BY DEF RoomKept
<1> QED
  BY <1>1, <1>2, RoomInit, AwaitedAlways, TypeCorrect, PTL DEF Spec
=============================================================================
