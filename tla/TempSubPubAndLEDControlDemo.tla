--------------------- MODULE TempSubPubAndLEDControlDemo ---------------------
(***************************************************************************)
(* The task of temp_sub_pub_and_led_control_demo.c: it subscribes once to  *)
(* its topic, then publishes a temperature to it for ever, and turns an    *)
(* LED on and off as the messages of an operator to the same topic say.    *)
(* It waits for its commands with a direct-to-task notification, which is  *)
(* one value and one pending flag for all of them, and asserts that the    *)
(* agent's queue has room for them.                                        *)
(*                                                                         *)
(* The command queue, the resumption of a session and the broker are those *)
(* of core_mqtt_agent_manager.c and coreMQTT-Agent, seen from this task:   *)
(* the commands of the other clients, and those with which the connection  *)
(* task has the agent read the socket, only take up room in the queue.     *)
(***************************************************************************)
EXTENDS Naturals, Sequences, FiniteSets

CONSTANTS
    OtherClients,          \* commands of others that can be queued at once
    CommandQueueLength,    \* configMQTT_AGENT_COMMAND_QUEUE_LENGTH
    NotificationValues,    \* values of a notification: 2^32 in the code
    OperatorPayloads,      \* what the operator's messages can hold
    MaxCommands,           \* bound: messages of the operator in one run
    MaxFaults,             \* bound: drops, refusals and delays of one run
    MaxExpiries            \* bound: sessions that expire in one run

\* What the operator's JSON has under led.power: "absent" is a document without
\* it, as the device's own temperatures are; "word" is a value strtoul reads no
\* digit of; "other" is a number that is neither 0 nor 1.
Payloads == {"invalid", "absent", "word", "0", "1", "other"}

ASSUME ConstantsAssumption ==
    /\ OperatorPayloads \subseteq Payloads
    /\ OtherClients \in Nat
    /\ CommandQueueLength \in Nat \ {0}
    /\ NotificationValues \in Nat /\ NotificationValues > 1
    /\ MaxCommands \in Nat
    /\ MaxFaults \in Nat
    /\ MaxExpiries \in Nat

VARIABLES
    taskPc,           \* where prvTempSubPubAndLEDControlTask is
    ulValueToNotify,  \* the publish's number, also in its command's context
    notification,     \* the task's notification: value, and whether pending
    timedOut,         \* ulPublishFailCounts is not zero
    bits,             \* xNetworkEventGroup of the demo
    led,              \* the LED is on
    registered,       \* prvIncomingPublishCallback is in the list
    subArgs,          \* the static xSubArgs of prvHandleResubscribe has it too
    queue,            \* the agent's command queue
    pending,          \* commands sent and not acknowledged, counted
    conn,             \* how far the manager is with the connection
    xCleanSession,
    posted,           \* manager events that the event loop has not delivered
    watch,            \* where the connection task is in its watch of the socket
    notified,         \* its notification, given and not yet taken
    link,             \* the connection to the broker is alive
    toBroker, toDevice, \* packets in flight; undelivered publishes of a session
    session,          \* what the broker keeps: none, clean or persistent
    subscribed,       \* the session has the topic
    asked,            \* history: what the operator's messages ask of the LED
    missed,           \* history: the broker had no one for the last of them
    abandoned,        \* history: a subscription failed, which nothing retries
    commands, faults, expiries \* spent so far

taskVars   == <<taskPc, ulValueToNotify, timedOut>>
deviceVars == <<bits, led, registered>>
agentVars  == <<queue, pending>>
linkVars   == <<conn, xCleanSession, posted, subArgs>>
watchVars  == <<watch, notified>>
connVars   == <<linkVars, watchVars>>
brokerVars == <<link, toBroker, toDevice, session, subscribed, missed>>
envVars    == <<asked, commands, faults, expiries>>
vars == <<taskVars, notification, deviceVars, agentVars, connVars, brokerVars,
          abandoned, envVars>>

TaskPcs  == {"start", "subscribe", "waitSubscribed", "network", "publish",
             "waitPublished", "delay", "asserted"}
Own      == {"subscribe", "publish", "resubscribe"}
Commands == Own \cup {"other", "processLoop"}
Bits     == {"CONNECTED", "OTA_NOT_IN_PROGRESS"}

Init ==
    /\ taskPc = "start"
    /\ ulValueToNotify = 0
    /\ notification = [pending |-> FALSE, value |-> 0]
    /\ timedOut = FALSE
    /\ bits = {}
    /\ led = FALSE
    /\ registered = FALSE
    /\ subArgs = FALSE
    /\ queue = <<>>
    /\ pending = [c \in Own |-> 0]
    /\ conn = "off"
    /\ xCleanSession = TRUE
    /\ posted = <<>>
    /\ watch = "left"
    /\ notified = FALSE
    /\ link = FALSE
    /\ toBroker = <<>>
    /\ toDevice = <<>>
    /\ session = "none"
    /\ subscribed = FALSE
    /\ asked = TRUE
    /\ missed = FALSE
    /\ abandoned = FALSE
    /\ commands = 0
    /\ faults = 0
    /\ expiries = 0

SpendFault == faults < MaxFaults /\ faults' = faults + 1

-----------------------------------------------------------------------------
(* The task.                                                               *)

outside == <<connVars, brokerVars, abandoned, envVars, pending, registered>>

TaskGoto(from, to) == taskPc = from /\ taskPc' = to

HasRoom == Len(queue) < CommandQueueLength

\* app_driver_init: the LED is turned on last, whatever failed before.
AppDriverInit == led' = TRUE

\* The drivers, the event group, the handler.
StartTask ==
    /\ TaskGoto("start", "subscribe")
    /\ AppDriverInit
    /\ bits' = {"OTA_NOT_IN_PROGRESS"}
    /\ notification' = [notification EXCEPT !.pending = FALSE]
    /\ UNCHANGED <<outside, ulValueToNotify, timedOut, queue>>

\* Tried over and over while the queue is full, connected or not.
Subscribe ==
    /\ HasRoom
    /\ TaskGoto("subscribe", "waitSubscribed")
    /\ queue' = Append(queue, "subscribe")
    /\ UNCHANGED <<outside, bits, led, ulValueToNotify, timedOut, notification>>

\* xTaskNotifyWait: a notification ends the wait, whoever sent it and when.
TakeNotification ==
    /\ notification.pending
    /\ notification' = [notification EXCEPT !.pending = FALSE]

\* The status is only logged.
SubscribeAcknowledged ==
    /\ TaskGoto("waitSubscribed", "network")
    /\ TakeNotification
    /\ UNCHANGED <<outside, bits, led, ulValueToNotify, timedOut, queue>>

WaitForNetwork ==
    /\ bits = Bits
    /\ TaskGoto("network", "publish")
    /\ UNCHANGED <<outside, bits, led, ulValueToNotify, timedOut, notification,
                   queue>>

\* Mutant of Publish: the acknowledgment is not waited for.
PublishUnawaited ==
    /\ TaskGoto("publish", IF HasRoom THEN "delay" ELSE "asserted")
    /\ queue' = IF HasRoom THEN Append(queue, "publish") ELSE queue
    /\ UNCHANGED <<outside, bits, led, ulValueToNotify, timedOut, notification>>

\* configASSERT( xCommandAdded == MQTTSuccess ), once the block time is over.
Publish ==
    /\ TaskGoto("publish", IF HasRoom THEN "waitPublished" ELSE "asserted")
    /\ queue' = IF HasRoom THEN Append(queue, "publish") ELSE queue
    /\ UNCHANGED <<outside, bits, led, ulValueToNotify, timedOut, notification>>

\* Mutant of PublishAcknowledged: the wait ends after a while.
PublishWaitEnds ==
    /\ TaskGoto("waitPublished", "delay")
    /\ notification' = [notification EXCEPT !.pending = FALSE]
    /\ timedOut' = (timedOut \/ (/\ notification.pending
                                  /\ notification.value # ulValueToNotify))
    /\ UNCHANGED <<outside, bits, led, ulValueToNotify, queue>>

PublishAcknowledged ==
    /\ TaskGoto("waitPublished", "delay")
    /\ TakeNotification
    /\ timedOut' = (timedOut \/ notification.value # ulValueToNotify)
    /\ UNCHANGED <<outside, bits, led, ulValueToNotify, queue>>

\* Mutant of DelayOver: the number does not wrap around.
DelayOverUnwrapped ==
    /\ TaskGoto("delay", "network")
    /\ ulValueToNotify' = ulValueToNotify + 1
    /\ UNCHANGED <<outside, bits, led, timedOut, notification, queue>>

DelayOver ==
    /\ TaskGoto("delay", "network")
    /\ ulValueToNotify' = (ulValueToNotify + 1) % NotificationValues
    /\ UNCHANGED <<outside, bits, led, timedOut, notification, queue>>

Task ==
    \/ StartTask \/ Subscribe \/ SubscribeAcknowledged \/ WaitForNetwork
    \/ Publish \/ PublishAcknowledged \/ DelayOver

\* A client of the agent that, like the demos, sends one command at a time and
\* none while it knows of no connection.
OtherClientEnqueues ==
    /\ "CONNECTED" \in bits
    /\ HasRoom
    /\ Cardinality({i \in DOMAIN queue : queue[i] = "other"}) < OtherClients
    /\ queue' = Append(queue, "other")
    /\ UNCHANGED <<taskVars, notification, deviceVars, pending, connVars,
                   brokerVars, abandoned, envVars>>

-----------------------------------------------------------------------------
(* The agent's command loop, the callbacks and the handlers it calls.      *)

\* Mutant of Complete: only a success notifies.
CompleteQuietly(cs, success) ==
    /\ notification' =
         IF "publish" \in cs /\ success
         THEN [pending |-> TRUE, value |-> ulValueToNotify]
         ELSE IF "subscribe" \in cs /\ success
         THEN [pending |-> TRUE, value |-> 0]
         ELSE notification
    /\ registered' = (registered \/ (success /\ "subscribe" \in cs))
    /\ abandoned' = (abandoned \/ (~success /\ cs \cap {"subscribe", "resubscribe"} # {}))

\* The callbacks of the commands cs of this task and of the resubscription:
\* prvPublishCommandCallback sends the context's number, and
\* prvSubscribeCommandCallback the return code, 0 or an error (here 1).
Complete(cs, success) ==
    /\ notification' =
         IF "publish" \in cs
         THEN [pending |-> TRUE, value |-> ulValueToNotify]
         ELSE IF "subscribe" \in cs
         THEN [pending |-> TRUE, value |-> IF success THEN 0 ELSE 1]
         ELSE notification
    /\ registered' = (registered \/ (success /\ "subscribe" \in cs))
    /\ abandoned' = (abandoned \/ (~success /\ cs \cap {"subscribe", "resubscribe"} # {}))

\* prvParseIncomingPublish.
LedAfter(payload, state) ==
    CASE payload = "1" -> TRUE
      [] payload \in {"0", "word"} -> FALSE
      [] OTHER -> state

\* The connection ends, and with it a clean session.
IsIncoming(packet) == packet.type = "incoming"
IsRequest(payload) == payload \in {"1", "0", "word"}
LoseSession ==
    /\ session' = "none" /\ subscribed' = FALSE /\ toDevice' = <<>>
    /\ missed' = (missed \/ \E i \in DOMAIN toDevice :
                     /\ IsIncoming(toDevice[i])
                     /\ IsRequest(toDevice[i].payload))
Cut ==
    /\ link' = FALSE
    /\ toBroker' = <<>>
    /\ IF session = "clean"
          THEN LoseSession
          ELSE /\ toDevice' = SelectSeq(toDevice, IsIncoming)
               /\ UNCHANGED <<session, subscribed, missed>>

\* processLoopCompleteCallback: the connection task is woken, or will not wait the
\* next time.
ProcessLoopComplete ==
    IF watch = "waits"
    THEN watch' = "watching" /\ UNCHANGED notified
    ELSE notified' = TRUE /\ UNCHANGED watch

\* MQTTAgent_CommandLoop returns an error: the manager tells everyone.
LoopEnds ==
    /\ conn' = "off"
    /\ posted' = Append(posted, "Disconnected")
    /\ Cut
    /\ UNCHANGED <<xCleanSession, subArgs>>

NothingToSend(c) == c = "resubscribe" /\ ~subArgs

\* A packet written to a connection that has died is lost; MQTT_ProcessLoop,
\* called after the command, may notice that the connection is dead.  A command
\* that only asks for it is complete before it is called.
RunCommand ==
    /\ conn = "on" /\ queue # <<>> /\ ~NothingToSend(Head(queue))
    /\ queue' = Tail(queue)
    /\ pending' = [c \in Own |-> IF c = Head(queue) THEN pending[c] + 1
                                                    ELSE pending[c]]
    /\ IF Head(queue) = "processLoop" THEN ProcessLoopComplete
                                      ELSE UNCHANGED watchVars
    /\ \/ /\ toBroker' = IF link /\ Head(queue) \in Own
                         THEN Append(toBroker, Head(queue)) ELSE toBroker
          /\ UNCHANGED <<linkVars, link, toDevice, session, subscribed, missed>>
       \/ ~link /\ LoopEnds
    /\ UNCHANGED <<taskVars, notification, deviceVars, abandoned, envVars>>

\* The send fails, or a second prvHandleResubscribe has emptied the arguments.
RunCommandFails ==
    /\ conn = "on" /\ queue # <<>>
    /\ Head(queue) # "processLoop"
    /\ ~link \/ NothingToSend(Head(queue))
    /\ queue' = Tail(queue)
    /\ Complete({Head(queue)}, FALSE)
    /\ LoopEnds
    /\ UNCHANGED <<taskVars, bits, led, pending, watchVars, envVars>>

\* With no command to run the loop calls MQTT_ProcessLoop all the same.
LoopFails ==
    /\ conn = "on" /\ ~link /\ queue = <<>>
    /\ LoopEnds
    /\ UNCHANGED <<taskVars, notification, deviceVars, agentVars, watchVars,
                   abandoned, envVars>>

\* An acknowledgment; prvSubscriptionCommandCallback drops a refused filter.
ReceiveAck ==
    /\ conn = "on" /\ link /\ toDevice # <<>>
    /\ LET ack == Head(toDevice)
       IN /\ ack.type \in Own
          /\ pending[ack.type] > 0
          /\ pending' = [pending EXCEPT ![ack.type] = @ - 1]
          /\ IF ack.type = "resubscribe"
                THEN /\ registered' = (registered /\ ack.ok)
                     /\ abandoned' = (abandoned \/ ~ack.ok)
                     /\ UNCHANGED notification
                ELSE Complete({ack.type}, ack.ok)
    /\ toDevice' = Tail(toDevice)
    /\ UNCHANGED <<taskVars, bits, led, queue, connVars, link, toBroker, session,
                   subscribed, missed, envVars>>

\* prvIncomingPublishCallback, if the list has it.  The PUBACK that follows may
\* be lost with the connection: the broker then sends the message again.
ReceivePublish ==
    /\ conn = "on" /\ link /\ toDevice # <<>>
    /\ IsIncoming(Head(toDevice))
    /\ led' = IF registered THEN LedAfter(Head(toDevice).payload, led) ELSE led
    /\ \/ /\ toDevice' = Tail(toDevice)
          /\ UNCHANGED <<link, toBroker, session, subscribed, missed, faults>>
       \/ Cut /\ SpendFault
    /\ UNCHANGED <<taskVars, notification, bits, registered, agentVars, connVars,
                   abandoned, asked, commands, expiries>>

RunLoop == RunCommand \/ RunCommandFails
Receive == ReceiveAck \/ ReceivePublish
Agent   == RunLoop \/ LoopFails \/ Receive

-----------------------------------------------------------------------------
(* The connection task: CONNECT, ResumeSession, resubscription.            *)

connUnchanged == <<taskVars, bits, led, envVars>>
Outstanding(cs) == {c \in cs : pending[c] > 0}

\* It leaves its watch when the loop's condition, or the wait in the loop's body,
\* lets it see that the connection is gone.
LeaveWatch == watch # "waits" /\ watch' = "left" /\ UNCHANGED notified

\* WiFi comes up seconds after app_main has started the task.
ConnectClean ==
    /\ conn = "off" /\ xCleanSession /\ taskPc # "start"
    /\ LeaveWatch
    /\ conn' = "announce" /\ link' = TRUE
    /\ session' = "clean"
    /\ UNCHANGED <<connUnchanged, notification, registered, agentVars,
                   xCleanSession, posted, subArgs, toBroker, toDevice,
                   subscribed, missed, abandoned>>

\* Subscriptions in progress are cancelled; a publish is sent again.
ResumeSession ==
    /\ conn = "off" /\ ~xCleanSession /\ session = "persistent"
    /\ LeaveWatch
    /\ conn' = "announce" /\ link' = TRUE
    /\ LET cancelled == Outstanding({"subscribe", "resubscribe"})
       IN /\ pending' = [c \in Own |-> IF c \in cancelled THEN 0 ELSE pending[c]]
          /\ Complete(cancelled, FALSE)
    /\ toBroker' = IF pending["publish"] > 0 THEN <<"publish">> ELSE <<>>
    /\ UNCHANGED <<connUnchanged, queue, xCleanSession, posted, subArgs, toDevice,
                   session, subscribed, missed>>

\* Mutant of StartSession: the topics are not subscribed to again.
StartSessionOnly ==
    /\ conn = "off" /\ ~xCleanSession /\ session = "none"
    /\ LeaveWatch
    /\ conn' = "announce" /\ link' = TRUE
    /\ session' = "persistent"
    /\ pending' = [c \in Own |-> 0]
    /\ Complete(Outstanding({"subscribe", "publish"}), FALSE)
    /\ UNCHANGED <<connUnchanged, queue, xCleanSession, posted, subArgs, toBroker,
                   toDevice, subscribed, missed>>

\* No session to resume: every operation in progress has failed, and a
\* resubscription among them will be made again.
StartSession ==
    /\ conn = "off" /\ ~xCleanSession /\ session = "none"
    /\ LeaveWatch
    /\ conn' = "resubscribe" /\ link' = TRUE
    /\ session' = "persistent"
    /\ pending' = [c \in Own |-> 0]
    /\ Complete(Outstanding({"subscribe", "publish"}), FALSE)
    /\ UNCHANGED <<connUnchanged, queue, xCleanSession, posted, subArgs, toBroker,
                   toDevice, subscribed, missed>>

\* prvHandleResubscribe, with a block time of 0.  If the queue is full the
\* attempt fails, and the broker keeps the session that it has just created.
Resubscribe ==
    /\ conn = "resubscribe"
    /\ subArgs' = registered
    /\ IF registered /\ ~HasRoom
          THEN conn' = "off" /\ Cut /\ UNCHANGED queue
          ELSE /\ conn' = "announce"
               /\ queue' = IF registered THEN Append(queue, "resubscribe") ELSE queue
               /\ UNCHANGED brokerVars
    /\ abandoned' = IF registered THEN ~HasRoom ELSE abandoned
    /\ UNCHANGED <<connUnchanged, notification, registered, pending,
                   xCleanSession, posted, watchVars>>

\* CONNECTED is set, which starts the command loop, and posted.
Announce ==
    /\ conn = "announce"
    /\ conn' = "on"
    /\ xCleanSession' = FALSE
    /\ posted' = Append(posted, "Connected")
    /\ watch' = "watching"
    /\ UNCHANGED <<connUnchanged, notification, registered, agentVars, subArgs,
                   notified, brokerVars, abandoned>>

-----------------------------------------------------------------------------
(* The connection task: the watch of the socket.                           *)

watchUnchanged == <<taskVars, notification, deviceVars, pending, linkVars,
                    brokerVars, abandoned, asked, commands, expiries>>

\* The condition of the watch: the task may come to it before it can see that the
\* connection is gone, and then reads the socket once more.
WatchOn == IF conn = "on" THEN "watching" ELSE "left"

\* MQTTAgent_ProcessLoop with a block time of 0, its result not looked at, and
\* ulTaskNotifyTake, which a notification of an earlier command ends at once.
WatchReadable ==
    /\ watch = "watching"
    /\ queue' = IF HasRoom THEN Append(queue, "processLoop") ELSE queue
    /\ watch' = IF notified THEN WatchOn ELSE "waits"
    /\ notified' = FALSE
    /\ UNCHANGED <<watchUnchanged, faults>>

\* ulTaskNotifyTake returns after 10 s without the callback of its command: there
\* was no room for it, or the command loop has ended and left it in the queue.
ProcessLoopQueued == \E i \in DOMAIN queue : queue[i] = "processLoop"
WaitRunsOut ==
    /\ watch = "waits"
    /\ conn = "off" \/ ~ProcessLoopQueued
    /\ watch' = WatchOn
    /\ UNCHANGED <<watchUnchanged, queue, notified, faults>>

\* The command loop is running, and takes longer than that to come to it.
LoopDelays ==
    /\ watch = "waits" /\ conn = "on" /\ ProcessLoopQueued
    /\ SpendFault
    /\ watch' = "watching"
    /\ UNCHANGED <<watchUnchanged, queue, notified>>

Connection ==
    \/ ConnectClean \/ ResumeSession \/ StartSession \/ Resubscribe \/ Announce
    \/ WaitRunsOut

\* prvCoreMqttAgentEventHandler of the demo.
BitsAfter(event) ==
    CASE event = "Connected"    -> bits \cup {"CONNECTED"}
      [] event = "Disconnected" -> bits \ {"CONNECTED"}
      [] event = "OtaStarted"   -> bits \ {"OTA_NOT_IN_PROGRESS"}
      [] event = "OtaStopped"   -> bits \cup {"OTA_NOT_IN_PROGRESS"}

HandleEvent ==
    /\ posted # <<>>
    /\ posted' = Tail(posted)
    /\ bits' = BitsAfter(Head(posted))
    /\ UNCHANGED <<taskVars, notification, led, registered, agentVars, conn,
                   xCleanSession, subArgs, watchVars, brokerVars, abandoned,
                   envVars>>

-----------------------------------------------------------------------------
(* The broker, the operator and the network.                               *)

netUnchanged == <<taskVars, notification, deviceVars, agentVars, connVars,
                  abandoned>>

Incoming(payload) == [type |-> "incoming", payload |-> payload]
Ack(command, ok)  == [type |-> command, ok |-> ok]

BrokerTakes(cs) ==
    /\ link /\ toBroker # <<>>
    /\ Head(toBroker) \in cs
    /\ toBroker' = Tail(toBroker)

BrokerSubscribes(ok) ==
    /\ BrokerTakes({"subscribe", "resubscribe"})
    /\ subscribed' = (subscribed \/ ok)
    /\ toDevice' = Append(toDevice, Ack(Head(toBroker), ok))
    /\ IF ok THEN UNCHANGED faults ELSE SpendFault
    /\ UNCHANGED <<netUnchanged, link, session, missed, asked, commands,
                   expiries>>

\* The device's temperature comes back to it, before or after its PUBACK.
BrokerPublishes ==
    /\ BrokerTakes({"publish"})
    /\ LET ack  == Ack("publish", TRUE)
           echo == Incoming("absent")
       IN IF subscribed
          THEN \/ toDevice' = toDevice \o <<ack, echo>>
               \/ toDevice' = toDevice \o <<echo, ack>>
          ELSE toDevice' = Append(toDevice, ack)
    /\ UNCHANGED <<netUnchanged, link, session, subscribed, missed, envVars>>

Broker == (\E ok \in BOOLEAN : BrokerSubscribes(ok)) \/ BrokerPublishes

OperatorPublishes(payload) ==
    /\ commands < MaxCommands
    /\ commands' = commands + 1
    /\ asked' = LedAfter(payload, asked)
    /\ IF subscribed
          THEN /\ toDevice' = Append(toDevice, Incoming(payload))
               /\ missed' = (missed /\ ~IsRequest(payload))
          ELSE /\ missed' = (missed \/ IsRequest(payload))
               /\ UNCHANGED toDevice
    /\ UNCHANGED <<netUnchanged, link, toBroker, session, subscribed, faults,
                   expiries>>

LinkBreaks ==
    /\ link /\ SpendFault
    /\ Cut
    /\ UNCHANGED <<netUnchanged, asked, commands, expiries>>

SessionExpires ==
    /\ ~link /\ session = "persistent"
    /\ expiries < MaxExpiries /\ expiries' = expiries + 1
    /\ LoseSession
    /\ UNCHANGED <<netUnchanged, link, toBroker, asked, commands, faults>>

-----------------------------------------------------------------------------
Next ==
    \/ Task \/ OtherClientEnqueues \/ Agent \/ Connection \/ WatchReadable
    \/ LoopDelays \/ HandleEvent \/ Broker \/ LinkBreaks \/ SessionExpires
    \/ \E payload \in OperatorPayloads : OperatorPublishes(payload)

Spec == Init /\ [][Next]_vars

\* Every task runs when it can, and a live broker answers.  Of this task, the event
\* loop, the broker and what the agent receives it is enough that one of them goes on
\* when it can: none of them goes on for long without the others.  The command loop
\* calls MQTT_ProcessLoop after each command, so commands do not keep it from
\* what it receives, nor for ever from noticing that the connection is dead
\* (DeadSocketReplaced in ConnectionManager).
DeadConnectionNoticed == ~link /\ Agent /\ conn' = "off"

Fairness ==
    /\ WF_vars(Task \/ HandleEvent \/ Receive \/ Broker)
    /\ WF_vars(Connection) /\ WF_vars(RunLoop) /\ WF_vars(DeadConnectionNoticed)

FairSpec == Spec /\ Fairness

-----------------------------------------------------------------------------
\* Every variable keeps its type and the command queue its capacity.
TypeOK ==
    /\ taskPc \in TaskPcs
    /\ ulValueToNotify \in 0 .. NotificationValues - 1
    /\ notification \in [pending : BOOLEAN, value : 0 .. NotificationValues - 1]
    /\ timedOut \in BOOLEAN
    /\ bits \subseteq Bits
    /\ led \in BOOLEAN /\ registered \in BOOLEAN /\ subArgs \in BOOLEAN
    /\ queue \in Seq(Commands) /\ Len(queue) <= CommandQueueLength
    /\ pending \in [Own -> Nat]
    /\ conn \in {"off", "resubscribe", "announce", "on"}
    /\ xCleanSession \in BOOLEAN /\ link \in BOOLEAN
    /\ posted \in Seq({"Connected", "Disconnected"})
    /\ watch \in {"left", "watching", "waits"} /\ notified \in BOOLEAN
    /\ toBroker \in Seq(Own)
    /\ session \in {"none", "clean", "persistent"}
    /\ subscribed \in BOOLEAN /\ missed \in BOOLEAN /\ asked \in BOOLEAN
    /\ abandoned \in BOOLEAN
    /\ commands \in 0 .. MaxCommands /\ faults \in 0 .. MaxFaults
    /\ expiries \in 0 .. MaxExpiries

\* The one notification of the task serves its subscribe and all its publishes,
\* is overwritten, and says nothing of the command it is for but its number: the
\* number a wait ends with is nonetheless always that of the publish it waits
\* for, so the branch that counts a failure (line 588) is never taken, through
\* drops, cancelled commands and publishes that are sent again.
AckMatchesPublish == ~timedOut

\* The assertion of line 561 never stops the device: the queue always has room
\* for a publish.  What can fill it are one command of every other client, the
\* resubscriptions of connections that died before their command loop came to
\* them, and the ProcessLoop commands of waits that ran out, which stay in the
\* queue across a reconnect; the run's capacity leaves room for as many as its
\* faults and expired sessions can cause (RoomForPublish of TempDemoProofs).
PublishAccepted == taskPc # "asserted"

\* The task never stops publishing: whatever was dropped, cancelled or refused,
\* each wait for a notification ends.
KeepsPublishing == []<>(taskPc = "publish")

\* Unless a subscription failed (nothing retries one: lines 432 and
\* core_mqtt_agent_manager.c:409), drops and lost sessions end with the broker
\* and the subscription list both holding the topic, and the LED is as the last
\* message that the broker had a subscriber for asks, although it may be
\* delivered late or twice.
LedFollowsOperator ==
    <>[](abandoned \/ (subscribed /\ registered /\ (led = asked \/ missed)))
=============================================================================
