# A TLA+ model of the ESP32-C3 featured AWS IoT reference integration

This directory models the concurrent core of the application in `src/main`: the
start-up of its tasks and of WiFi, the manager of the one MQTT connection, the list
of subscriptions, the OTA agent, and the two demos that use them. TLC checks the models on small instances,
TLAPS proves the theorems listed below for all instances. Line numbers refer to
the sources named with them; `PROJECT.json` maps every definition to its lines.

## 1. The system

| Part | State | Operations | Shares with others |
| --- | --- | --- | --- |
| coreMQTT-Agent manager (`networking/mqtt/core_mqtt_agent_manager.c`) | event group with WIFI_CONNECTED, CONNECTED, DISCONNECTED; TLS context; `xCleanSession`; static arguments of the resubscription | connection task (connect, resume, resubscribe, watch the socket), agent task (command loop), two event handlers | the event group, the default event loop's queue, the agent's command queue, the subscription list |
| Subscription manager (`subscription_manager.c`) | the array `xGlobalSubscriptionList` | `addSubscription`, `removeSubscription`, `handleIncomingPublishes` | called by completion callbacks and by the agent's receive path |
| OTA agent (`ota_over_mqtt_demo.c`) | event queue, data buffers, one job document buffer, job fields, download counters | OTA task `processOTAEvents`, incoming publish callback `vOTAProcessMessage`, connection event handler | the buffers and the queue (OTA task and agent task), `xSuspendOta` (event loop task) |
| Subscribe-publish-unsubscribe demo (`sub_pub_unsub_demo.c`) | per task: an event group, a command context on the stack | three do-while loops (send, wait, retry), the wait for the echo | command queue, subscription list, the demo's connection bit |
| Temperature and LED demo (`temp_sub_pub_and_led_control_demo.c`) | one direct-to-task notification, its own event group, the number of the publish, the LED | subscribe once, publish for ever, wait for each acknowledgment; switch the LED on incoming messages | command queue, subscription list, the task's notification (written by callbacks in the agent task) |
| Start-up (`main.c`) | none of its own; it creates the event loop and the tasks | `app_main` from `prvInitializeNetworkContext` to `app_wifi_start`, with `prvStartEnabledDemos` and `xCoreMqttAgentManagerStart` | everything it creates runs as soon as it exists |
| WiFi provisioning (`app_wifi.c`) | event group with WIFI_CONNECTED_EVENT, credentials in NVS, the provisioning manager | `app_wifi_init`, `app_wifi_start`, the handler of WiFi, IP and provisioning events | the default event loop, the station |
| Qualification application, QR code generator | | | see section 8 |

How they interact: the connection task and the agent task wait for each other
through the CONNECTED and DISCONNECTED bits and tell the rest of the application
by posting events; the event loop task runs every handler. Demos send commands
through the agent's bounded queue and are woken by completion callbacks that the
agent task runs. An incoming publish goes through the subscription list or, if no
element matches, to the OTA callback. `app_main` registers the handlers and starts
the tasks one after the other, the connection task last and WiFi after it; the
temperature task registers its handler itself, whenever it comes to run.

What is hard, and must be right:

* **Manager.** Each change of a bit pair is two calls, made by three tasks; events
  are posted after the bits are set and may be handled when they no longer apply.
  No interleaving may lose the signal both tasks sleep on, a dead socket must be
  replaced, and the manager has to settle once faults stop.
* **Subscription list.** It is an array that is filled and emptied in any order and
  must behave as a set: no duplicates, no lost free slot, removal of every
  callback of a filter.
* **OTA agent.** Blocks, documents and timeouts arrive in any order, from old and
  new jobs, while a full queue drops events; buffers have to keep one owner, blocks
  must land at their own position, and a download has to go on.
* **Demo.** The callback of a command writes to the stack of the task that waits
  for it. Commands are cancelled, repeated and failed around reconnects; each has
  to wake its task once, and the task's own callback must stay in the list.
* **Temperature and LED demo.** One notification, a value and a flag, serves the
  subscribe and every publish, and its waits do not say which command they are for.
  The task asserts that the command queue has room. The LED must end as the last
  message of the operator asks, through redeliveries and sessions that end.
* **Start-up.** Handlers are registered one at a time and one of them by another
  task, tasks run before what they need is there, and an event that comes before its
  handler is gone. The boot must end in a manager that has lost nothing.

`PROJECT.json` lists each hazard at its line with the properties that cover it.

## 2. The modules

| Module | What it is |
| --- | --- |
| `ConnectionManager` | the connection task, the agent task, the event loop task and WiFi; every bit operation and post is a step |
| `ConnectionManagerProofs` | its theorems |
| `Subscriptions` | the abstract specification: a bounded set of (filter, callback) pairs |
| `SubscriptionManager` | the array, one loop iteration per step; `ImplementsSubscriptions` is the abstract specification under the mapping `subs <- Registered \ Removing` |
| `SubscriptionManagerProofs` | its theorems, with the refinement |
| `OtaAgent` | the OTA task, one event per step and more steps where the handler waits, the incoming publish callback, the connection, the cloud |
| `OtaAgentProofs`, `OtaBufferProofs`, `OtaPositionProofs` | its theorems: types and counters; buffers; positions, completeness and retries |
| `Startup` | the composition of `app_main`, WiFi and the temperature task's first steps with the tasks of `ConnectionManager`; `StartsManager` is the specification of a started manager under the mapping `bits <- BitsOnceStarted` |
| `StartupProofs` | its theorems, with the refinement |
| `SubPubUnsubDemo` | the composition: demo tasks, command queue, subscription list, session resumption and resubscription of the manager, a broker |
| `SubPubDemoProofs` | its theorems |
| `TempSubPubAndLEDControlDemo` | the composition for the temperature task: its notification, the commands of other clients, the LED, an operator |
| `TempDemoProofs` | its theorems |
| `MC...` | instances for TLC |

### ConnectionManager

`bits` is the event group, `eventQueue` the event loop's queue, and `connPc`,
`agentPc`, `loopPc` say where the three tasks are. A task that waits for bits is
`"blocked"`, and the step that sets the last bit it waits for moves it
(`AgentWoken`, `ConnWoken`): FreeRTOS unblocks a task when the bit is set, so the
bit may be cleared again before the task runs. `esp_event_post` waits for room,
and only tasks other than the event loop call it. The initial state is the one
after `xCoreMqttAgentManagerStart` returned and before `app_main` starts WiFi.
`tls` abstracts the socket; `connLocal`, `agentLocal`, `loopLocal` and
`netUnchanged` only name what an actor leaves alone.

### Startup

Extends `ConnectionManager` and runs its actions once `app_main` has created their
task (`created`); an event goes to the handlers registered by then (`handlers`,
`IfRegistered`). `mainPc` is the call `app_main` is about to make. `prvMQTTAgentTask`
and the connection task start before `xCoreMqttAgentManagerStart` has set
DISCONNECTED, its last step, so `ConnectionManager`'s initial state is not the
boot's. `BitsOnceStarted` adds that bit until it is set: no task can tell the
difference, which `StartsManager` checks and `BootStartsManager` proves. So what is
shown of `ConnectionManager` holds of the device from power-up.

Certificates, keys and the endpoint come down to the success or failure of
`prvInitializeNetworkContext`; running out of memory is `AssertionFails`; what NVS
holds is one of no, good and bad credentials. The dialogue of provisioning is the
external provisioning manager's: the user's choice is `UserProvisions`. A wrong
password is tried for ever, as in the code.

The handler of the temperature demo is registered by its own task
(`temp_sub_pub_and_led_control_demo.c:477`), which `app_main` has created but not
necessarily let run: nothing in the code puts that before the station's join, and the
model does not either. A handler that is late misses the announcement of the
connection and waits for the next one.

### SubscriptionManager

Callbacks of the agent task call one operation at a time, so an operation's loop
is not interleaved with another's; the intermediate steps are there because the
code's loops are what could be wrong (a scan for a duplicate and a free slot in one
pass). `MQTT_MatchTopic` is a constant relation between topics and filters.

### OtaAgent

`taskPc`, `current` and `lastRecvEventId` are the OTA task; `bufferUsed`,
`bufferData` and `callbackBuffer` the data buffers and the one the callback holds
between taking and queueing it; `jobDocBuffer` the one document buffer. File
positions are counted in blocks, so `totalBytesReceived` and `currentBlockOffset`
are one variable. `FileId` is a constant: AWS gives every job's first file the ID
0, which is also what zeroed `jobFields` hold, and the runs use that value.
`otaAgentState` matters only as Stopped and Suspended; Suspended is never reached.

`session`, `notifySubscribed` and `streamSubscribed` are what the broker knows.
The first connection asks for a clean session (`core_mqtt_agent_manager.c:703`),
whose subscriptions end with it; later sessions are kept. The OTA agent's
subscriptions are not in the subscription list (`prvCommandCallback`, 325-334,
does not call `addSubscription`), so the manager does not restore them. Answers to
start-next are delivered without a subscription: the code never subscribes to
their topic.

The cloud replaces the pending job at most once per job (`JobChanges`), a stream
answers each request for a block it has, and a message is dropped when
`MaxInbound` are on their way. Activation resets every variable of the device.

### SubPubUnsubDemo

The manager of this composition is an abstraction of `ConnectionManager`: the
connection is off, being resubscribed, announced, or on, and events reach the demo
in the order they were posted. That is what the handshake gives when no stale
event interferes; the effect of stale events on the manager itself is the subject
of `ConnectionManager`. `stage` and `step` follow the three do-while loops, which
have one form. coreMQTT-Agent is external: a resumed session cancels pending
subscribes and unsubscribes and sends publishes again, a new one cancels
everything; a command that cannot be sent is concluded with an error and ends the
command loop; a write to a connection that has just died is lost unnoticed. A
publish that the broker takes and does not send back is recorded in `unechoed`, a
refused filter of a resubscription in `refused`. What a kept session keeps when the
connection ends is the subsequence of its publishes (`KeepUndelivered`), named by the
increasing list of their positions so that the prover can reason about it.

### TempSubPubAndLEDControlDemo

The same manager and agent, seen from the other demo. `notification` is the task's
notification, value and pending flag; `ulValueToNotify` is the number of the publish
and wraps around after `NotificationValues`. `timedOut` records that the branch was
taken which compares the two and finds them different. Commands of other clients
only take up room in `queue`, and so do the ProcessLoop commands with which the
connection task has the agent read its socket (`core_mqtt_agent_manager.c:806`):
`watch` is where that task is in its watch of the socket and `notified` its own
notification, which the command's callback gives. The command is sent without a block
time, and its wait ends after ten seconds (`WaitRunsOut`, `LoopDelays`), so a command
may stay in the queue across a reconnect and a later wait may end with its
notification. In this abstraction of the manager a connection ends only because it is
dead, a resubscription has nothing to send or finds no room; stale events and errors
of `select()`, which can end a live one, are in `ConnectionManager`. The static `xSubArgs` of `prvHandleResubscribe` is
`subArgs`: a second call overwrites what a queued resubscription will send.
`asked`, `missed` and `abandoned` are history: what the operator asked last, whether
the broker had a subscriber for it, and whether a subscription failed, which nothing
in the code retries.

## 3. The runs

| Run | Question | Instance | Result |
| --- | --- | --- | --- |
| manager | Are signals lost, is DISCONNECTED withdrawn early, is a dead socket replaced, does the manager settle? | event queue 2, command queue 2, 3 faults | holds (271,772 states) |
| manager_resubscribe | Is the command loop stopped when the resubscription is enqueued (comment at line 474)? | 2, 1, 2 faults | violated |
| startup | Does the boot implement a started manager, are its handlers there before the first event, does the device end in service? | event queue 2, command queue 1, 1 fault | holds (378,508 states) |
| ota_download | Does a download with a lossy connection go on and complete? | 1 job, 2 buffers, 3 blocks, queue 4, 2 in flight, 2 faults | holds (187,497 states) |
| ota_jobs | Do buffers, counters and file positions survive everything? | 2 jobs, 2 buffers, 2 blocks, queue 3, 2 in flight, 2 faults of every kind | holds (1,930,811 states) |
| ota_stale_block | Is a block of another job always refused? | 2 jobs, no fault | violated |
| ota_reboot | Is a finished download activated? | 1 job, no fault | violated |
| ota_unfinished | Does every download end? | 2 jobs, 1 fault | violated |
| subscription_list | Does the array implement the set? | 2 filters with 2 callbacks each, 3 slots | holds (46,931 states) |
| demo | Is each wait answered once, is the callback registered, does the loop go on? | 2 tasks, queue 2, 2 slots, 2 faults | holds (1,550,806 states) |
| demo_drop | Does the demo loop for ever? | 1 task, queue 2, 1 drop | violated |
| temp | Does the one notification serve every command, does the assertion hold, does the task go on, does the LED follow the operator? | 1 other client, queue 7, 2 notification values, 1 operator message that switches the LED off, 2 faults, 1 expired session | holds (1,155,467 states) |

Every property of a passing run is broken by a mutant of the code's logic
(`PROJECT.json`, "mutants"); the mutated definitions stand before the originals in
the modules and are marked `Mutant`.

### Bounds

`MaxFaults` bounds drops, errors and redeliveries of a run, `MaxInbound` the
messages on their way to the device. Two faults let a second fault hit the
recovery from the first, which is where the handlers meet; in `manager` a third can
hit that of the second. In `temp` the expiry of a session has a bound of its own
(`MaxExpiries`), as it needs two losses of the connection first. The boot has one: what it adds is the order of the
first events, and `manager` goes on from there. Queue capacities of one to four are
enough to be full and to be empty. Three blocks have a first, a middle and a last
one. Two jobs are enough for one to take the other's place, and more buffers than
messages in flight would never be exhausted. The real capacities (5 default events
or more, 10 or more commands) only make the full cases rarer. Two capacities are
more than a convenience:

* In `temp`, `PublishAccepted` depends on the capacity. Each connection that dies
  before its command loop starts can leave its resubscription in the queue, and each
  wait of the connection task that runs out its ProcessLoop command, next to the
  commands of the other clients. With `n` other clients, `f` faults and `e` sessions
  that expire, a capacity above `n + f + e + 2` is enough (`RoomForPublish` of
  `TempDemoProofs`). TLC finds the assertion failing at a capacity of exactly
  `n + f + e + 2` for `n`, `f`, `e` of 1, 2, 1 and of 0, 2, 1, and, when no session
  expires, of 1, 2, 0, of 1, 1, 0 and of 0, 2, 0; with 1, 1, 1, where one loss is too
  few for an expiry, that capacity is enough. So the assertion of line 561 is no
  guarantee of the code, whose faults have no bound; the 10 commands of the default
  configuration only make its failure improbable. Two limits of the statement: it is
  about this composition, in which no stale event or error of `select()` ends a
  connection (one that did would add a command of the watch), and about the queue
  only: the agent's pool of command structures (`MQTT_COMMAND_CONTEXTS_POOL_SIZE`) is
  not modelled.
* In `demo`, two tasks need two slots for `LoopsUnlessUnechoed`. With one slot a task
  may find the queue full whenever it tries: FreeRTOS orders the tasks that wait for
  a queue by priority and age, and weak fairness does not.

In `temp` the operator sends one message, which switches the LED off (it is on after
the start), so that a message that is lost unnoticed shows. Two messages, each of which
may switch it on or off, agree as well with two faults and no expired session (2,157,689
states), but take too long to be a run.

Two values of the notification are the fewest for which a number can be mistaken for
its neighbour's; `TempDemoProofs` has every larger number.

The `ota_*` and `demo*` configurations switch the deadlock check off because these
systems may really stop: the OTA task ends when activation fails, the cloud may
have no job left, and a demo task stops when its publish is not sent back.

### Fairness

FreeRTOS runs every ready task of the highest priority in turn. The MQTT tasks share
a priority, the event loop's is higher, and they block when they have nothing to do.
One task does spin: the temperature demo tries its subscription without a delay until
the agent has been initialised (`temp_sub_pub_and_led_control_demo.c:418`). Its
default priority (1, `main/Kconfig.projbuild:365`) is that of `app_main`, with which
it then takes turns; at a higher one it would keep `app_main` from ever initialising
the agent, which the models do not show. With the default priorities each task (its
next step, whichever it is) is weakly fair. `app_wifi`'s handler reconnects for ever
(`WifiJoins`), the manager's backoff retries for ever (`LinkComesUp`, `Connection`),
and a live broker answers what it received (`Broker`). Association takes turns with
drops of the access point that reset it, so `WifiJoins` (in `Startup`,
`StationJoins`) is strongly fair: an access point that is in reach again and again is
joined. Faults, redeliveries and the cloud's choice of jobs are not fair: they may or
may not happen. Callback invocations in the agent task are weakly fair together.

`Startup` has the same, for every task from its creation on and `app_main` itself,
until an assertion fails. The temperature demo spells out the agent's loop, which
runs a command and then `MQTT_ProcessLoop`: commands (`RunLoop`) and noticing a dead
connection (`DeadConnectionNoticed`) are each weakly fair, so that neither keeps the
agent from the other, and so is the connection task (`Connection`). For the demo's
task, the event loop, the broker and the agent's receiving (`Receive`) the properties
need less than the scheduler gives: that one of them goes on when it can. Nothing
makes `WatchReadable` fair, as the socket need not become readable.

Weak fairness alone does not let the manager settle: a DISCONNECTED event of an
earlier connection may be handled after the next one is announced, makes the
manager reconnect, and posts the next such event. One timing fact rules this out,
`HandshakeIsSlow`: a TLS handshake, which takes round trips to the broker, does not
finish before the event loop has drained its queue and the agent has finished its
three local calls. It is a premise of `EventuallyInService` and `BootsIntoService`
(if from some time on every handshake is slow) and of nothing else.

## 4. Where code and documentation disagree

Five runs refute six statements of the repository (`PROJECT.json`, "findings"):

1. *The command loop may be running when the resubscription is enqueued*
   (`core_mqtt_agent_manager.c:474`): after an error of `select()` or a stale
   DISCONNECTED event nothing has stopped it. With the block time 0 a full queue
   then makes the attempt fail.
2. *A late block of a replaced job is accepted* (`ota_over_mqtt_demo.c:1075`): only
   the file ID tells the jobs apart.
3. *A downloaded image is not activated* (`GettingStartedGuide.md:408`) if the
   document of its job arrived twice: the second clears `jobFields`, and with it
   the signature.
4. *A job that takes another's place is not downloaded*
   (`GettingStartedGuide.md:319`): `lastReceivedblockId` is never reset.
5. *A download does not survive the loss of the first connection*
   (`ota_over_mqtt_demo.c:952`): the subscription to the stream is lost with the
   clean session and never made again.
6. *A demo task may wait for ever* (`README.md:40`) for a publish that was sent
   after a reconnect and before the resubscription.

Two more disagreements were met that have no run of their own:

* *Not every handler is registered before WiFi is started* (the comment at
  `main.c:359`): the temperature demo's is registered by its own task, whenever that
  comes to run. `TempListens` (its handler is there when a connection is announced),
  checked as an invariant of the run `startup`, is violated by a trace of 24 states. In
  practice a join takes seconds, in which that task has long run.
  `RegisteredBeforeEvents` states what remains true, of the handlers that `app_main`'s
  own calls register, and in `BootsIntoService` that the demo learns of the connection
  has `TempListens` as its premise.
* *A file may be closed before all its blocks are there* (`GettingStartedGuide.md:409`:
  "Once all the firmware image chunks are downloaded"): with two jobs, a `CloseFile`
  event of the first can still be queued when the second's document has been parsed,
  and is then taken for the second's. `ClosedFileIsComplete` is therefore checked, and
  `FirstCloseFindsTheImage` proved, for a cloud that has offered one job.

Findings 4 and 5 are in the run `ota_unfinished`, whose instance also holds a third
way to the same end, a failed write of a block (`ota_over_mqtt_demo.c:1088`: its
number has been recorded, so the block that is asked for again is ignored). With no
fault only the replaced job is left; with one job and one kind of fault, only that
fault.

`SubscribedDownloadCompletes` and `LoopsUnlessUnechoed` state what remains true
around findings 5 and 6 and pass; `ota_download` has one job, so finding 4 cannot
hide behind them.

## 5. What is proved

For every value of the constants that satisfies `ConstantsAssumption`:

* **ConnectionManager**: `TypeCorrect`, `SignalNeverLost`,
  `ReconnectKeepsDisconnected`. Their conjunction `Handshake` is inductive over the
  type invariant: a step that clears a bit leaves its task at the set that follows,
  a step that leaves such a point sets the bit, and DISCONNECTED is only cleared by
  the connection task itself, on its way out of the attempt. `WifiBitFollowsStation`
  has its own invariant, over the last station event of the queue: the bit is what
  the station's state will make of it.
* **Startup**: `BootTypeCorrect`, `HandlersComeFirst`, `WifiBitFollowsBoot`,
  `BootLosesNoSignal` and the refinement `BootStartsManager`. The invariant has two
  parts. What is created and registered follows from how far `app_main` is; and
  before WiFi is started nothing moves: no event, no bit but DISCONNECTED, both tasks
  at their first wait.
  `HandlersComeFirst` is about handlers that `app_main`'s calls register: those of
  `app_wifi_init`, of the subscribe demo and of the manager are there before any event,
  whatever order the tasks run in. Of the temperature demo's it says nothing.
  `BootLosesNoSignal` carries `Handshake` over to the device: it begins with the step
  that sets DISCONNECTED, which finds both tasks at their first wait.
  The refinement has two kinds of step: an early one, which maps to a stutter or
  to a task that goes to sleep, and one of a started manager, which is
  `ConnectionManager`'s own.
* **OtaAgent**: `TypeCorrect` and `BlocksAddUp`. That the remaining-block counter
  never underflows depends on three facts at once, which form `TypeInv`: the types,
  `BlocksAccountedFor` (written and remaining blocks add up) and `Headroom` (the
  position never passes the number of the last accepted block plus one, and a file
  is open only for a job with a stream). Together they leave room for a block that
  is accepted.
* **OtaAgent, buffers**: `BuffersHaveOneOwner`, `BuffersAreNotLeaked`. The
  invariant `Owned` states the two properties owner by owner; `Placement` says that
  outside the handling of a block the task holds none. Actions fall into a few
  kinds: most are `Quiet` (they move no buffer), and a lemma treats each of the
  others: receiving an event, finishing a block, taking a buffer, queueing it.
* **OtaAgent, positions**: `BlocksKeepTheirPlace`. The handler writes a block at the
  current offset and never compares the block's number with it. That the two agree
  for the job being downloaded rests on what can still be on its way: `Ordered` says
  that a job which another one has replaced is not heard of again, so that (`InTurn`)
  every block on its way or in a buffer is of the current stream and not beyond the
  offset, or of a job that is over; and `Starting` that a job whose document is
  parsed a second time had not got beyond its first block. An accepted block is above
  the last one (`Headroom`), hence at the offset.
* **OtaAgent, completeness**: `FirstCloseFindsTheImage` and its corollary
  `OnlyJobIsComplete`. A `CloseFile` event is queued with the last block and found
  later; in between blocks are repeated, documents come again and writes have
  failed. `Completion` says that the file has no hole below the offset (`Written`, by
  `Filed` of the position proof), that the event exists only after the last block
  (`Closing`), and that nothing but its handler closes the file (`StillOpen`). The
  hypothesis is that the cloud has offered one job so far. It is needed: with two, a
  `CloseFile` event of the first can still be queued when the second's document is
  parsed, and is then taken for the second's.
* **OtaAgent, retries**: `OutstandingBlockIsRetried`. While a block is outstanding the
  task has an event that asks for it, or the last event was a request, which the
  timeout repeats. The danger is an answer that no job is pending, which ends the
  asking: `Remembered` and `OnlyRunning` say that none follows a document of a job
  that is not over. `Room` is the other half: a handler finds a place in the queue
  for the event it posts, the one its own event left or one that already holds a
  request. The hypothesis `"create" \notin FaultKinds` is needed: a job whose file
  could not be created is reported as done (`ota_over_mqtt_demo.c:734`) and the cloud
  forgets it, but a late repetition of its document starts its download again, which
  the empty answer to the next start-next request then ends. `ota_download` satisfies
  the hypotheses of both theorems.
* **SubscriptionManager**: `TypeCorrect`, `NoSubscriptionTwice`, `FirstSlotTaken`
  and the refinement `ListImplementsSet`. `LoopInv` says what each loop has
  established of the slots it has passed. The refinement needs in addition that the
  used slots and the registered subscriptions are equally many, a bijection by
  `NoDuplicates`, so that the list is full exactly when the set is.
* **SubPubUnsubDemo**: `TypeCorrect`, `CallbackAwaited` and `CallbackStays`. A command of a task is
  in exactly one place (the queue, on its way, or pending) while the task waits for
  it and nowhere otherwise; `Inv` says so task by task, and that a task between its
  subscribe and its unsubscribe is listed unless a filter was refused. That the queue
  keeps to its capacity and every packet to its kind is proved with the same
  invariant (`TypeInv`).
* **TempSubPubAndLEDControlDemo**: `TypeCorrect`, `AckBelongsToPublish` and
  `PublishNeverAsserts`. The
  invariant `Awaited` counts: while the task waits there is one command of its kind
  in the queue or pending, or one notification with the right value, and never two
  of these; at every other point there is none. So the only notification that can
  end a wait is that of the command waited for, at any wrap-around. `RoomKept` pays
  for what is left in the queue with faults and expired sessions (`FaultsPaid`): the
  resubscriptions of connections that died (`Resubscriptions`), the ProcessLoop
  commands and notifications that no wait is for (`Late`), and what the present state
  may still add without another fault (`SessionDebt`, the resubscription to a session
  that is gone; `WatchDebt`, the command of a watch whose connection is dead). They are
  never more than one above what has been spent; the one is the first connection's,
  whose clean session ends with it (`FirstSession`). The command that the watch is
  waiting for comes on top, and with `RoomForPublish` a place is left for the publish.

The assumptions are those of `ConstantsAssumption` in each module (capacities are
positive, model values are distinct) and `HoleAssumption` of `OtaAgent` (an unwritten
block is no message); TLC evaluates them in every run.

Three theorems have a hypothesis of their own, each true in the run that checks the
property: one offered job, no fault of the kind
`"create"`, and `RoomForPublish`.

So every invariant and action property that a passing run checks is a theorem, and
so are both refinements. Only model-checked are the liveness properties,
`DeadSocketReplaced`, `EventuallyInService`, `BootsIntoService`,
`SubscribedDownloadCompletes`, `LoopsUnlessUnechoed`, `KeepsPublishing` and
`LedFollowsOperator`: the prover does not reason about fairness and ENABLED.

## 6. Abstractions a reader should know

* A handler of the OTA task is one step except where it waits (publish, subscribe,
  delay) or where the callback can change what it reads afterwards (between the
  parse of a document and the decoding of its signature).
* A publish of the OTA task succeeds, and its answer is on the way, in one step; the
  loss of either is a `"publish"` fault or a drop of the link. A subscribe is
  likewise one step, with the fault `"subscribe"`.
* The expiry of a persistent session is in `SubPubUnsubDemo` and
  `TempSubPubAndLEDControlDemo`, not in `OtaAgent`.
* Every document of `OtaAgent` is that of an OTA job with all its fields. A document
  with the ID of another kind of job, or one that cannot be parsed, is left out:
  `receivedJobDocumentHandler` (683-748) zeroes `jobFields`, keeps the new ID as the
  current job's, and returns `OtaPalJobDocFileCreateFailed`, upon which its caller
  logs "This is not an OTA job" (995) and asks for nothing more.
* Formats, logging, statistics and the contents of messages are left out; a
  document is the job it names, a block its job and number, a signature the job it
  belongs to.

## 7. Plan

1. `ConnectionManager`, `OtaAgent`, `SubscriptionManager` and `SubPubUnsubDemo` with
   their runs and first theorems: done.
2. Proofs of `OneCallbackPerWait` and `CallbackStaysRegistered`: done.
3. The temperature and LED demo as a second kind of client of the agent, with
   notifications instead of event groups, and its proofs: done.
4. Start-up, registration of handlers and WiFi provisioning, as a refinement of the
   manager: done.
5. Proofs of `BlocksLandInPlace`, `ClosedFileIsComplete`, `OutstandingBlockRetried`
   and `PublishAccepted`, each under the hypothesis that section 5 names: done.
6. The connection bit and events of the demos driven by `ConnectionManager` instead
   of its abstraction, and the relation between list and broker subscriptions after
   each reconnect: open. The product of the two is beyond an explicit-state check at
   the bounds above.
7. A finer step for the read of the subscription list at
   `core_mqtt_agent_manager.c:448`, which the lock does not protect from the
   callbacks: open.
8. The room for a publish when stale events and errors of `select()` end connections
   too, and the priorities of the tasks at the boot: open.

## 8. What is not modelled

* The qualification application and its port layer, a separate build that runs
  FreeRTOS' tests, and the vendored QR code generator.
* The libraries that are submodules (coreMQTT, coreMQTT-Agent, jobs, streams,
  backoff, the TLS transport, the OTA PAL): the models contain what the code's calls
  rely on, marked external in `PROJECT.json`.
* The loop of the OTA task that suspends and resumes the agent
  (`ota_over_mqtt_demo.c:1273-1285`): it is reached only once the agent has stopped,
  and ends at once.
* What has no consequence beyond one line, and is left out or only noted:
  WIFI_CONNECTED_EVENT is never cleared (`app_wifi.c:129`), which nobody reads after
  the boot; the result of `app_wifi_start` is not looked at (`main.c:366`; the model
  has it, `StartProvisioning`); credentials that were wrong stay in NVS
  (`app_wifi.c:97`); the temperature demo's counts of passes
  (`temp_sub_pub_and_led_control_demo.c:577`); the events of the OTA agent that the
  handlers know and nobody posts (635); an error of `MQTT_MatchTopic`
  (`subscription_manager.c:163`) and a list that is too short for the number of
  demo tasks (`sub_pub_unsub_demo.c:362`), both configuration errors.
