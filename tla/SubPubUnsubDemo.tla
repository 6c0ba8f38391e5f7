--------------------------- MODULE SubPubUnsubDemo ---------------------------
(***************************************************************************)
(* The tasks of sub_pub_unsub_demo.c over a connection that drops: each    *)
(* subscribes to its own topic, publishes to it, waits for the publish to  *)
(* come back, unsubscribes, and starts again.  The module composes them    *)
(* with what they go through: coreMQTT-Agent's command queue, the          *)
(* subscription list, the session resumption and prvHandleResubscribe of   *)
(* core_mqtt_agent_manager.c, and a broker that keeps or loses a session.  *)
(*                                                                         *)
(* The connection is up or down here; ConnectionManager has the tasks and  *)
(* the event group behind it.  Publishes are QoS 1, the configured default.*)
(***************************************************************************)
EXTENDS Naturals, Sequences, FiniteSets

CONSTANTS
    Tasks,               \* prvSubscribePublishUnsubscribeTask, and its topic
    Manager,             \* the owner of the resubscription
    CommandQueueLength,
    MaxSubscriptions,    \* SUBSCRIPTION_MANAGER_MAX_SUBSCRIPTIONS
    MaxFaults            \* bound: drops, expired sessions, refusals

ASSUME ConstantsAssumption ==
    /\ Manager \notin Tasks
    /\ CommandQueueLength \in Nat \ {0}
    /\ IsFiniteSet(Tasks)
    /\ MaxSubscriptions \in Nat /\ Cardinality(Tasks) <= MaxSubscriptions
    /\ MaxFaults \in Nat

VARIABLES
    stage,       \* the function a task is in
    step,        \* where it is in the function's do-while loop
    received,    \* xReceivedEvent holds the completion bit
    succeeded,   \* xReturnStatus = MQTTSuccess
    events,      \* the bits of the task's xMqttEventGroup
    connected,   \* CORE_MQTT_AGENT_CONNECTED_BIT of the demo's event group
    registered,  \* the filters in xGlobalSubscriptionList
    subArgs,     \* the static xSubArgs and xSubInfo of prvHandleResubscribe
    queue,       \* the agent's command queue
    pending,     \* commands sent and not acknowledged, counted
    conn,        \* how far the manager is with the connection
    xCleanSession,
    posted,      \* manager events that the event loop has not delivered
    link,        \* the connection to the broker is alive
    toBroker, toDevice,  \* packets in flight; undelivered publishes of a session
    session,     \* what the broker keeps: none, clean or persistent
    subs,        \* the session's subscriptions
    unechoed,    \* history: topics of which the broker lost a publish
    refused,     \* history: filters whose resubscription it refused
    faults

taskVars   == <<stage, step, received>>
resultVars == <<succeeded, events, registered>>
agentVars  == <<queue, pending>>
connVars   == <<conn, xCleanSession, posted, subArgs>>
brokerVars == <<link, toBroker, toDevice, session, subs, unechoed>>
historyVars == <<refused, faults>>
vars == <<taskVars, resultVars, agentVars, connVars, brokerVars, historyVars,
          connected>>

CommandStages == {"subscribe", "publish", "unsubscribe"}
Stages   == CommandStages \cup {"echo", "delay"}
Steps    == {"network", "send", "wait"}
Commands == [type : CommandStages, owner : Tasks]
              \cup [type : {"resubscribe"}, owner : {Manager}]
Resubscription == [type |-> "resubscribe", owner |-> Manager]

Init ==
    /\ stage = [t \in Tasks |-> "subscribe"]
    /\ step = [t \in Tasks |-> "network"]
    /\ received = [t \in Tasks |-> FALSE]
    /\ succeeded = [t \in Tasks |-> TRUE]
    /\ events = [t \in Tasks |-> {}]
    /\ connected = FALSE
    /\ registered = {}
    /\ subArgs = {}
    /\ queue = <<>>
    /\ pending = [c \in Commands |-> 0]
    /\ conn = "off"
    /\ xCleanSession = TRUE
    /\ posted = <<>>
    /\ link = FALSE
    /\ toBroker = <<>>
    /\ toDevice = <<>>
    /\ session = "none"
    /\ subs = {}
    /\ unechoed = {}
    /\ refused = {}
    /\ faults = 0

SpendFault == faults < MaxFaults /\ faults' = faults + 1

-----------------------------------------------------------------------------
(* A demo task: three do-while loops of one form, and two waits.           *)

Following == [subscribe |-> "publish", publish |-> "echo",
              echo |-> "unsubscribe", unsubscribe |-> "delay",
              delay |-> "subscribe"]

\* The next function starts with its locals zeroed.
Enter(t) ==
    /\ stage' = [stage EXCEPT ![t] = Following[stage[t]]]
    /\ step' = [step EXCEPT ![t] = "network"]
    /\ received' = [received EXCEPT ![t] = FALSE]
    /\ succeeded' = [succeeded EXCEPT ![t] = TRUE]

Retry(t) ==
    /\ step' = [step EXCEPT ![t] = "network"]
    /\ UNCHANGED <<stage, succeeded>>

demoUnchanged == <<registered, pending, connVars, brokerVars, historyVars,
                   connected>>

WaitForNetwork(t) ==
    /\ stage[t] \in CommandStages /\ step[t] = "network"
    /\ connected
    /\ step' = [step EXCEPT ![t] = "send"]
    /\ UNCHANGED <<stage, received, succeeded, events, queue, demoUnchanged>>

\* Mutant of Enqueue: the agent's queue has no end.
EnqueueUnchecked(t) ==
    /\ step[t] = "send"
    /\ queue' = Append(queue, [type |-> stage[t], owner |-> t])
    /\ step' = [step EXCEPT ![t] = "wait"]
    /\ UNCHANGED <<stage, received, succeeded, events, demoUnchanged>>

Enqueue(t) ==
    /\ step[t] = "send"
    /\ Len(queue) < CommandQueueLength
    /\ queue' = Append(queue, [type |-> stage[t], owner |-> t])
    /\ step' = [step EXCEPT ![t] = "wait"]
    /\ UNCHANGED <<stage, received, succeeded, events, demoUnchanged>>

\* The send block time passes over a full queue.  What the loop's condition
\* reads is then of the attempt before, or the zero both started with.
EnqueueFails(t) ==
    /\ step[t] = "send"
    /\ Len(queue) = CommandQueueLength
    /\ IF received[t] /\ succeeded[t]
          THEN Enter(t)
          ELSE Retry(t) /\ UNCHANGED received
    /\ UNCHANGED <<events, queue, demoUnchanged>>

\* Mutant of WaitForCompletion: prvWaitForEvent gives up after a while.
WaitTimesOut(t) ==
    /\ stage[t] \in CommandStages /\ step[t] = "wait"
    /\ events' = [events EXCEPT ![t] = @ \ {stage[t]}]
    /\ IF stage[t] \in events[t] /\ succeeded[t]
          THEN Enter(t)
          ELSE Retry(t) /\ received' = [received EXCEPT ![t] = stage[t] \in events[t]]
    /\ UNCHANGED <<queue, demoUnchanged>>

\* Mutant of WaitForCompletion: the status is not looked at.
WaitIgnoresStatus(t) ==
    /\ stage[t] \in CommandStages /\ step[t] = "wait"
    /\ stage[t] \in events[t]
    /\ events' = [events EXCEPT ![t] = @ \ {stage[t]}]
    /\ Enter(t)
    /\ UNCHANGED <<queue, demoUnchanged>>

WaitForCompletion(t) ==
    /\ stage[t] \in CommandStages /\ step[t] = "wait"
    /\ stage[t] \in events[t]
    /\ events' = [events EXCEPT ![t] = @ \ {stage[t]}]
    /\ IF succeeded[t]
          THEN Enter(t)
          ELSE Retry(t) /\ received' = [received EXCEPT ![t] = TRUE]
    /\ UNCHANGED <<queue, demoUnchanged>>

WaitForEcho(t) ==
    /\ stage[t] = "echo" /\ "echo" \in events[t]
    /\ events' = [events EXCEPT ![t] = @ \ {"echo"}]
    /\ Enter(t)
    /\ UNCHANGED <<queue, demoUnchanged>>

DelayOver(t) ==
    /\ stage[t] = "delay"
    /\ Enter(t)
    /\ UNCHANGED <<events, queue, demoUnchanged>>

Task(t) ==
    \/ WaitForNetwork(t) \/ Enqueue(t) \/ EnqueueFails(t)
    \/ WaitForCompletion(t) \/ WaitForEcho(t) \/ DelayOver(t)

-----------------------------------------------------------------------------
(* Completion callbacks, the command loop and the manager's handlers.      *)

\* Mutant of Complete: only a success wakes the task.
CompleteQuietly(cs, success) ==
    /\ events' = [t \in Tasks |-> events[t] \cup
                    {c.type : c \in {d \in cs : success /\ d.owner = t}}]
    /\ succeeded' = [t \in Tasks |-> IF \E c \in cs : c.owner = t
                                     THEN success ELSE succeeded[t]]
    /\ registered' =
         IF success
         THEN {t \in Tasks : \/ [type |-> "subscribe", owner |-> t] \in cs
                             \/ t \in registered
                                /\ [type |-> "unsubscribe", owner |-> t] \notin cs}
         ELSE registered

\* The callbacks of the demo's commands cs: the status, the subscription
\* list, then the bit that wakes the task.
Complete(cs, success) ==
    /\ events' = [t \in Tasks |-> events[t] \cup
                    {c.type : c \in {d \in cs : d.owner = t}}]
    /\ succeeded' = [t \in Tasks |-> IF \E c \in cs : c.owner = t
                                     THEN success ELSE succeeded[t]]
    /\ registered' =
         IF success
         THEN {t \in Tasks : \/ [type |-> "subscribe", owner |-> t] \in cs
                             \/ t \in registered
                                /\ [type |-> "unsubscribe", owner |-> t] \notin cs}
         ELSE registered

\* The connection ends, and with it a clean session.
IsPublish(packet) == packet.type = "echo"
Undelivered == {i \in DOMAIN toDevice : IsPublish(toDevice[i])}
LoseSession ==
    /\ session' = "none" /\ subs' = {} /\ toDevice' = <<>>
    /\ unechoed' = unechoed \cup {toDevice[i].owner : i \in Undelivered}

\* A session that is kept keeps the undelivered publishes in their order.
KeepUndelivered ==
    \E order \in [1 .. Cardinality(Undelivered) -> Undelivered] :
        /\ \A i, j \in DOMAIN order : i < j => order[i] < order[j]
        /\ toDevice' = [i \in DOMAIN order |-> toDevice[order[i]]]
Cut ==
    /\ link' = FALSE
    /\ toBroker' = <<>>
    /\ IF session = "clean"
          THEN LoseSession
          ELSE KeepUndelivered /\ UNCHANGED <<session, subs, unechoed>>

\* MQTTAgent_CommandLoop returns an error: the manager tells everyone.
LoopEnds ==
    /\ conn' = "off"
    /\ posted' = Append(posted, "Disconnected")
    /\ Cut
    /\ UNCHANGED <<xCleanSession, subArgs>>

Filters(c) == IF c = Resubscription THEN subArgs ELSE {c.owner}
Packet(c)  == [type |-> c.type, owner |-> c.owner, filters |-> Filters(c)]

\* A packet written to a connection that has died is lost unnoticed.
RunCommand ==
    /\ conn = "on" /\ queue # <<>> /\ Filters(Head(queue)) # {}
    /\ queue' = Tail(queue)
    /\ pending' = [pending EXCEPT ![Head(queue)] = @ + 1]
    /\ toBroker' = IF link THEN Append(toBroker, Packet(Head(queue))) ELSE toBroker
    /\ UNCHANGED <<taskVars, resultVars, connVars, link, toDevice, session, subs,
                   unechoed, historyVars, connected>>

\* The send fails, or a second prvHandleResubscribe has emptied the arguments.
RunCommandFails ==
    /\ conn = "on" /\ queue # <<>>
    /\ ~link \/ Filters(Head(queue)) = {}
    /\ queue' = Tail(queue)
    /\ Complete({Head(queue)}, FALSE)
    /\ LoopEnds
    /\ UNCHANGED <<taskVars, pending, historyVars, connected>>

LoopFails ==
    /\ conn = "on" /\ ~link
    /\ LoopEnds
    /\ UNCHANGED <<taskVars, resultVars, agentVars, historyVars, connected>>

\* An acknowledgment: prvSubscriptionCommandCallback drops what was refused.
ReceiveAck ==
    /\ conn = "on" /\ link /\ toDevice # <<>>
    /\ LET ack == Head(toDevice)
           c   == [type |-> ack.type, owner |-> ack.owner]
       IN /\ c \in Commands
          /\ pending[c] > 0
          /\ pending' = [pending EXCEPT ![c] = @ - 1]
          /\ IF c = Resubscription
                THEN /\ registered' = registered \ ack.filters
                     /\ refused' = refused \cup ack.filters
                     /\ UNCHANGED <<events, succeeded>>
                ELSE /\ Complete({c}, ack.filters = {})
                     /\ UNCHANGED refused
    /\ toDevice' = Tail(toDevice)
    /\ UNCHANGED <<taskVars, queue, connVars, link, toBroker, session, subs,
                   unechoed, faults, connected>>

\* prvIncomingPublishCallback; with no callback it is an unsolicited publish.
ReceivePublish ==
    /\ conn = "on" /\ link /\ toDevice # <<>>
    /\ IsPublish(Head(toDevice))
    /\ LET t == Head(toDevice).owner
       IN events' = IF t \in registered THEN [events EXCEPT ![t] = @ \cup {"echo"}]
                                        ELSE events
    /\ toDevice' = Tail(toDevice)
    /\ UNCHANGED <<taskVars, succeeded, registered, agentVars, connVars, link,
                   toBroker, session, subs, unechoed, historyVars, connected>>

Agent == RunCommand \/ RunCommandFails \/ LoopFails \/ ReceiveAck \/ ReceivePublish

-----------------------------------------------------------------------------
(* The connection task: CONNECT, ResumeSession, resubscription.            *)

Outstanding(types) == {c \in Commands : c.type \in types /\ pending[c] > 0}

ConnectClean ==
    /\ conn = "off" /\ xCleanSession
    /\ conn' = "announce" /\ link' = TRUE
    /\ session' = "clean" /\ subs' = {}
    /\ UNCHANGED <<taskVars, resultVars, agentVars, xCleanSession, posted,
                   subArgs, toBroker, toDevice, unechoed, historyVars, connected>>

\* Acknowledgments of subscribes and unsubscribes will not come any more;
\* publishes are sent again, in any order.
ResumeSession ==
    /\ conn = "off" /\ ~xCleanSession /\ session = "persistent"
    /\ conn' = "announce" /\ link' = TRUE
    /\ LET cancelled == Outstanding({"subscribe", "unsubscribe", "resubscribe"})
           resent    == Outstanding({"publish"})
       IN /\ pending' = [c \in Commands |-> IF c \in cancelled THEN 0 ELSE pending[c]]
          /\ Complete(cancelled, FALSE)
          /\ \E order \in [1 .. Cardinality(resent) -> resent] :
                /\ {order[i] : i \in DOMAIN order} = resent
                /\ toBroker' = [i \in DOMAIN order |-> Packet(order[i])]
    /\ UNCHANGED <<taskVars, queue, xCleanSession, posted, subArgs, toDevice,
                   session, subs, unechoed, historyVars, connected>>

\* No session to resume: every operation in progress has failed.
StartSession ==
    /\ conn = "off" /\ ~xCleanSession /\ session = "none"
    /\ conn' = "resubscribe" /\ link' = TRUE
    /\ session' = "persistent"
    /\ pending' = [c \in Commands |-> 0]
    /\ Complete(Outstanding(CommandStages), FALSE)
    /\ UNCHANGED <<taskVars, queue, xCleanSession, posted, subArgs, toBroker,
                   toDevice, subs, unechoed, historyVars, connected>>

\* prvHandleResubscribe, with a block time of 0.  If the queue is full the
\* attempt fails, and the broker keeps the session that it has just created.
Resubscribe ==
    /\ conn = "resubscribe"
    /\ subArgs' = registered
    /\ IF registered # {} /\ Len(queue) = CommandQueueLength
          THEN conn' = "off" /\ Cut /\ UNCHANGED queue
          ELSE /\ conn' = "announce"
               /\ queue' = IF registered = {} THEN queue
                           ELSE Append(queue, Resubscription)
               /\ UNCHANGED brokerVars
    /\ UNCHANGED <<taskVars, resultVars, pending, xCleanSession, posted,
                   historyVars, connected>>

\* CONNECTED is set, which starts the command loop, and posted.
Announce ==
    /\ conn = "announce"
    /\ conn' = "on"
    /\ xCleanSession' = FALSE
    /\ posted' = Append(posted, "Connected")
    /\ UNCHANGED <<taskVars, resultVars, agentVars, subArgs, brokerVars,
                   historyVars, connected>>

Connection == ConnectClean \/ ResumeSession \/ StartSession \/ Resubscribe \/ Announce

\* The demo's prvCoreMqttAgentEventHandler, in the event loop task.
HandleEvent ==
    /\ posted # <<>>
    /\ posted' = Tail(posted)
    /\ connected' = (Head(posted) = "Connected")
    /\ UNCHANGED <<taskVars, resultVars, agentVars, conn, xCleanSession, subArgs,
                   brokerVars, historyVars>>

-----------------------------------------------------------------------------
(* The broker and the network.                                             *)

netUnchanged == <<taskVars, resultVars, agentVars, connVars, refused, connected>>

Reply(type, packet, filters) ==
    [type |-> type, owner |-> packet.owner, filters |-> filters]

BrokerSubscribes(refusal) ==
    /\ link /\ toBroker # <<>>
    /\ LET p == Head(toBroker)
       IN /\ p.type \in {"subscribe", "resubscribe"}
          /\ refusal \subseteq p.filters
          /\ subs' = subs \cup (p.filters \ refusal)
          /\ toDevice' = Append(toDevice, Reply(p.type, p, refusal))
    /\ IF refusal = {} THEN UNCHANGED faults ELSE SpendFault
    /\ toBroker' = Tail(toBroker)
    /\ UNCHANGED <<netUnchanged, link, session, unechoed>>

BrokerUnsubscribes ==
    /\ link /\ toBroker # <<>>
    /\ LET p == Head(toBroker)
       IN /\ p.type = "unsubscribe"
          /\ subs' = subs \ p.filters
          /\ toDevice' = Append(toDevice, Reply(p.type, p, {}))
    /\ toBroker' = Tail(toBroker)
    /\ UNCHANGED <<netUnchanged, link, session, unechoed, faults>>

\* The publish comes back, before or after its acknowledgment, to a subscriber.
BrokerPublishes ==
    /\ link /\ toBroker # <<>>
    /\ LET p    == Head(toBroker)
           ack  == Reply("publish", p, {})
           echo == Reply("echo", p, {})
       IN /\ p.type = "publish"
          /\ IF p.owner \in subs
                THEN /\ \/ toDevice' = toDevice \o <<ack, echo>>
                        \/ toDevice' = toDevice \o <<echo, ack>>
                     /\ UNCHANGED unechoed
                ELSE /\ toDevice' = Append(toDevice, ack)
                     /\ unechoed' = unechoed \cup {p.owner}
    /\ toBroker' = Tail(toBroker)
    /\ UNCHANGED <<netUnchanged, link, session, subs, faults>>

Broker ==
    \/ \E refusal \in SUBSET Tasks : BrokerSubscribes(refusal)
    \/ BrokerUnsubscribes \/ BrokerPublishes

LinkBreaks ==
    /\ link /\ SpendFault
    /\ Cut
    /\ UNCHANGED netUnchanged

SessionExpires ==
    /\ ~link /\ session = "persistent" /\ SpendFault
    /\ LoseSession
    /\ UNCHANGED <<netUnchanged, link, toBroker>>

-----------------------------------------------------------------------------
Next ==
    \/ \E t \in Tasks : Task(t)
    \/ Agent \/ Connection \/ HandleEvent \/ Broker
    \/ LinkBreaks \/ SessionExpires

Spec == Init /\ [][Next]_vars

\* Every task runs when it can, and a live broker answers.
Fairness ==
    /\ \A t \in Tasks : WF_vars(Task(t))
    /\ WF_vars(Agent) /\ WF_vars(Connection) /\ WF_vars(HandleEvent)
    /\ WF_vars(Broker)

FairSpec == Spec /\ Fairness

-----------------------------------------------------------------------------
\* Every variable keeps its type and the command queue its capacity.
TypeOK ==
    /\ stage \in [Tasks -> Stages] /\ step \in [Tasks -> Steps]
    /\ received \in [Tasks -> BOOLEAN] /\ succeeded \in [Tasks -> BOOLEAN]
    /\ events \in [Tasks -> SUBSET (CommandStages \cup {"echo"})]
    /\ connected \in BOOLEAN
    /\ registered \subseteq Tasks /\ subArgs \subseteq Tasks
    /\ queue \in Seq(Commands) /\ Len(queue) <= CommandQueueLength
    /\ pending \in [Commands -> Nat]
    /\ conn \in {"off", "resubscribe", "announce", "on"}
    /\ xCleanSession \in BOOLEAN /\ link \in BOOLEAN
    /\ posted \in Seq({"Connected", "Disconnected"})
    /\ session \in {"none", "clean", "persistent"}
    /\ subs \subseteq Tasks /\ unechoed \subseteq Tasks /\ refused \subseteq Tasks
    /\ faults \in 0 .. MaxFaults

Waits(t) == step[t] = "wait" /\ stage[t] \notin events[t]
InQueue(t) == {i \in DOMAIN queue : queue[i].owner = t}
InFlight(t) == {c \in Commands : c.owner = t /\ pending[c] > 0}

\* The context a completion callback writes to is on the stack of the function
\* that issued the command ("the variable must persist until the callback
\* executes"), which waits without a timeout.  So a task that waits has exactly
\* one command with the agent, whose callback will wake it, and a task that does
\* not wait has none, whose callback would write to a frame that is gone:
\* through retries, cancelled acknowledgments and publishes that are sent again.
OneCallbackPerWait ==
    \A t \in Tasks :
        /\ Cardinality(InQueue(t)) + Cardinality(InFlight(t))
             = IF Waits(t) THEN 1 ELSE 0
        /\ \A i \in InQueue(t) : queue[i].type = stage[t]
        /\ \A c \in InFlight(t) : c.type = stage[t] /\ pending[c] = 1

\* While a task publishes or waits for its publish to come back its callback is
\* in the subscription list, whatever the connection went through, unless the
\* broker refused the resubscription (prvSubscriptionCommandCallback).
CallbackStaysRegistered ==
    \A t \in Tasks : stage[t] \in {"publish", "echo"} => t \in registered \cup refused

\* Drops, retries, a full queue and cancelled commands never stop a task: it
\* starts another loop unless the broker lost its publish or its subscription.
LoopsUnlessUnechoed ==
    \A t \in Tasks : []<>(stage[t] = "subscribe" \/ t \in unechoed \cup refused)

\* The demo's description (README.md:40): the tasks subscribe, publish, receive
\* their publish and unsubscribe "in a loop".
LoopsForever == \A t \in Tasks : []<>(stage[t] = "subscribe")
=============================================================================
