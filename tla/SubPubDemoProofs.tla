-------------------------- MODULE SubPubDemoProofs --------------------------
(***************************************************************************)
(* What holds of the subscribe-publish-unsubscribe demo for every number   *)
(* of tasks, every capacity of the command queue and any number of faults. *)
(***************************************************************************)
EXTENDS SubPubUnsubDemo, FiniteSetTheorems, SequenceTheorems, TLAPS

\* The variables that the argument is about; packets and the broker's session
\* play no part in it, as an answer counts only while its command is pending.
Typed ==
    /\ stage \in [Tasks -> Stages] /\ step \in [Tasks -> Steps]
    /\ received \in [Tasks -> BOOLEAN] /\ succeeded \in [Tasks -> BOOLEAN]
    /\ events \in [Tasks -> SUBSET (CommandStages \cup {"echo"})]
    /\ queue \in Seq(Commands)
    /\ pending \in [Commands -> Nat]

\* The one command that a task can have with the agent.
Mine(t) == [type |-> stage[t], owner |-> t]
Queued(c) == \E i \in DOMAIN queue : queue[i] = c
InAgent(t) == Queued(Mine(t)) \/ pending[Mine(t)] > 0

\* No other command of the task is there, and it is there once.
NoOther(t) ==
    /\ \A i \in DOMAIN queue : queue[i].owner = t => queue[i] = Mine(t) /\ Waits(t)
    /\ \A i, j \in DOMAIN queue : queue[i].owner = t /\ queue[j].owner = t => i = j
    /\ \A c \in Commands : c.owner = t /\ pending[c] > 0 =>
                               c = Mine(t) /\ Waits(t) /\ pending[c] = 1
    /\ Queued(Mine(t)) => ~(pending[Mine(t)] > 0)

\* A task that waits has a command that will wake it; one that does not finds the
\* bits of its commands clear, and its last attempt failed if it made one.
WaitsForMine(t) ==
    /\ Waits(t) => InAgent(t)
    /\ step[t] # "network" => stage[t] \in CommandStages
    /\ events[t] \cap CommandStages \subseteq
          IF step[t] = "wait" THEN {stage[t]} ELSE {}
    /\ step[t] # "wait" /\ received[t] => ~succeeded[t]

\* A subscription that was acknowledged is in the list before the task knows.
Listed(t) ==
    stage[t] \in {"publish", "echo"} \/ (stage[t] = "subscribe" /\ step[t] = "wait"
                    /\ "subscribe" \in events[t] /\ succeeded[t])
        => t \in registered \cup refused

TaskInv(t) == NoOther(t) /\ WaitsForMine(t) /\ Listed(t)
Inv == \A t \in Tasks : TaskInv(t)

-----------------------------------------------------------------------------
\* A step leaves the commands of t with the agent, or takes the last of them.
Alone(t) ==
    /\ \A i \in DOMAIN queue' : queue'[i].owner = t => Queued(queue'[i])
    /\ \A i, j \in DOMAIN queue' : queue'[i].owner = t /\ queue'[j].owner = t => i = j
    /\ \A c \in Commands : c.owner = t /\ Queued(c) => Queued(c)'
    /\ \A c \in Commands : c.owner = t => pending'[c] = pending[c]
Gone(t) ==
    /\ \A i \in DOMAIN queue' : queue'[i].owner # t
    /\ \A c \in Commands : c.owner = t => ~(pending'[c] > 0)

\* Appending someone else's command leaves those of t alone.
LEMMA Appended ==
  ASSUME Typed, NEW t \in Tasks, TaskInv(t), NEW c \in Commands, c.owner # t,
         queue' = Append(queue, c), pending' = pending
  PROVE  Alone(t)
<1>1. /\ DOMAIN queue = 1 .. Len(queue)
      /\ DOMAIN queue' = 1 .. Len(queue) + 1
      /\ queue'[Len(queue) + 1] = c
      /\ \A i \in 1 .. Len(queue) : queue'[i] = queue[i]
      /\ Len(queue) \in Nat
  BY DEF Typed
<1>2. \A i \in DOMAIN queue' : i \in DOMAIN queue \/ i = Len(queue) + 1
  BY <1>1
<1> QED
  BY <1>1, <1>2 DEF Alone, Queued, TaskInv, NoOther

\* Taking someone else's command from the queue does too.
LEMMA Popped ==
  ASSUME Typed, NEW t \in Tasks, TaskInv(t), queue # <<>>, queue' = Tail(queue),
         Head(queue).owner # t,
         \A c \in Commands : c.owner = t => pending'[c] = pending[c]
  PROVE  Alone(t)
<1>1. /\ DOMAIN queue = 1 .. Len(queue)
      /\ DOMAIN queue' = 1 .. Len(queue) - 1
      /\ \A i \in 1 .. Len(queue) - 1 : queue'[i] = queue[i + 1]
      /\ Len(queue) \in Nat /\ Len(queue) > 0
      /\ queue[1] = Head(queue)
  BY DEF Typed
<1>2. \A i \in DOMAIN queue' : i + 1 \in DOMAIN queue /\ queue'[i] = queue[i + 1]
  BY <1>1
<1>3. \A i, j \in DOMAIN queue' : i + 1 = j + 1 => i = j
  BY <1>1
<1>4. \A i \in DOMAIN queue : i # 1 => i - 1 \in DOMAIN queue' /\ queue'[i - 1] = queue[i]
  BY <1>1
<1>5. \A i \in DOMAIN queue : queue[i].owner = t => i # 1
  BY <1>1
<1>6. ASSUME NEW c \in Commands, c.owner = t, Queued(c) PROVE Queued(c)'
  BY <1>4, <1>5, <1>6 DEF Queued
<1> QED
  BY <1>2, <1>3, <1>6 DEF Alone, Queued, TaskInv, NoOther

\* Taking the command of t leaves none of its commands in the queue.
LEMMA PoppedMine ==
  ASSUME Typed, NEW t \in Tasks, TaskInv(t), queue # <<>>, queue' = Tail(queue),
         Head(queue).owner = t
  PROVE  /\ Head(queue) = Mine(t) /\ Head(queue) \in Commands /\ Waits(t)
         /\ Queued(Mine(t))
         /\ \A i \in DOMAIN queue' : queue'[i].owner # t
<1>1. /\ DOMAIN queue = 1 .. Len(queue)
      /\ DOMAIN queue' = 1 .. Len(queue) - 1
      /\ \A i \in 1 .. Len(queue) - 1 : queue'[i] = queue[i + 1]
      /\ Len(queue) \in Nat /\ Len(queue) > 0
      /\ queue[1] = Head(queue) /\ Head(queue) \in Commands
  BY DEF Typed
<1>2. 1 \in DOMAIN queue
  BY <1>1
<1>3. \A i \in DOMAIN queue' : i + 1 \in DOMAIN queue /\ i + 1 # 1 /\ queue'[i] = queue[i + 1]
  BY <1>1
<1>4. \A i \in DOMAIN queue : queue[i].owner = t => i = 1
  BY <1>1, <1>2 DEF TaskInv, NoOther
<1> QED
  BY <1>1, <1>2, <1>3, <1>4 DEF TaskInv, NoOther, Queued

\* Nothing that belongs to t is touched.
LEMMA Untouched ==
  ASSUME Typed, NEW t \in Tasks, TaskInv(t), Alone(t),
         stage'[t] = stage[t], step'[t] = step[t], received'[t] = received[t],
         succeeded'[t] = succeeded[t],
         events'[t] \cap CommandStages = events[t] \cap CommandStages,
         t \in registered \cup refused => t \in registered' \cup refused'
  PROVE  TaskInv(t)'
<1>1. Mine(t)' = Mine(t)
  BY DEF Mine
<1>2. stage[t] \in CommandStages => Mine(t) \in Commands
  BY DEF Mine, Commands
<1>3. Waits(t)' = Waits(t)
  <2>1. Waits(t) => stage[t] \in CommandStages
    BY DEF TaskInv, WaitsForMine, Waits
  <2>2. step[t] = "wait" => stage[t] \in CommandStages
    BY DEF TaskInv, WaitsForMine
  <2> QED
    BY <2>1, <2>2 DEF Waits
<1>4. NoOther(t)'
  <2>1. ASSUME NEW i \in DOMAIN queue', queue'[i].owner = t
        PROVE  queue'[i] = Mine(t)' /\ Waits(t)'
    BY <1>1, <1>3, <2>1 DEF Alone, Queued, TaskInv, NoOther
  <2>2. ASSUME NEW c \in Commands, c.owner = t, pending'[c] > 0
        PROVE  c = Mine(t)' /\ Waits(t)' /\ pending'[c] = 1
    BY <1>1, <1>3, <2>2 DEF Alone, TaskInv, NoOther
  <2>3. ASSUME Queued(Mine(t))' PROVE ~(pending'[Mine(t)'] > 0)
    <3>1. PICK i \in DOMAIN queue' : queue'[i] = Mine(t)
      BY <1>1, <2>3 DEF Queued
    <3>2. queue'[i].owner = t
      BY <3>1 DEF Mine
    <3>3. Queued(Mine(t))
      BY <3>1, <3>2 DEF Alone
    <3>4. Mine(t) \in Commands /\ Mine(t).owner = t
      <4>1. Waits(t) /\ stage[t] \in CommandStages
        BY <1>3, <2>1, <3>2 DEF TaskInv, WaitsForMine, Waits
      <4> QED
        BY <1>2, <4>1 DEF Mine
    <3>5. pending'[Mine(t)] = pending[Mine(t)]
      BY <3>4 DEF Alone
    <3> QED
      BY <1>1, <3>3, <3>5 DEF TaskInv, NoOther
  <2> QED
    BY <2>1, <2>2, <2>3 DEF Alone, NoOther
<1>5. WaitsForMine(t)'
  <2>1. ASSUME Waits(t)' PROVE InAgent(t)'
    <3>1. Waits(t) /\ InAgent(t) /\ stage[t] \in CommandStages
      BY <1>3, <2>1 DEF TaskInv, WaitsForMine, Waits
    <3>2. Mine(t) \in Commands /\ Mine(t).owner = t
      BY <1>2, <3>1 DEF Mine
    <3>3. /\ Queued(Mine(t)) => Queued(Mine(t))'
          /\ pending'[Mine(t)] = pending[Mine(t)]
      BY <1>1, <3>2 DEF Alone, Queued
    <3> QED
      BY <1>1, <3>1, <3>3 DEF InAgent
  <2> QED
    BY <2>1 DEF TaskInv, WaitsForMine
<1>6. Listed(t)'
  <2>1. "subscribe" \in events'[t] => "subscribe" \in events[t]
    BY DEF CommandStages
  <2> QED
    BY <2>1 DEF TaskInv, Listed
<1> QED
  BY <1>4, <1>5, <1>6 DEF TaskInv

-----------------------------------------------------------------------------
\* A task's commands are of its stages; the manager's resubscription is no one's.
LEMMA Owners ==
  ASSUME NEW c \in Commands
  PROVE  /\ c.owner \in Tasks => c.type \in CommandStages
                                 /\ c = [type |-> c.type, owner |-> c.owner]
         /\ c.owner \notin Tasks => c = Resubscription
         /\ Resubscription \in Commands /\ Resubscription.owner \notin Tasks
BY ConstantsAssumption DEF ConstantsAssumption, Commands, Resubscription

\* The callbacks of a set of commands.
LEMMA CompleteTyped ==
  ASSUME Typed, NEW cs \in SUBSET Commands, NEW success \in BOOLEAN,
         Complete(cs, success)
  PROVE  /\ succeeded' \in [Tasks -> BOOLEAN]
         /\ events' \in [Tasks -> SUBSET (CommandStages \cup {"echo"})]
<1>1. ASSUME NEW t \in Tasks
      PROVE  {c.type : c \in {d \in cs : d.owner = t}} \subseteq CommandStages
  BY Owners
<1>2. events' \in [Tasks -> SUBSET (CommandStages \cup {"echo"})]
  BY <1>1 DEF Complete, Typed
<1>3. succeeded' \in [Tasks -> BOOLEAN]
  BY DEF Complete, Typed
<1> QED
  BY <1>2, <1>3

\* If one of them is the task's it is the one it waits for, and it finds the
\* status, the list and the bit; otherwise nothing changes for it.
LEMMA Completed ==
  ASSUME Typed, NEW t \in Tasks, TaskInv(t),
         NEW cs \in SUBSET Commands, NEW success \in BOOLEAN,
         Complete(cs, success), UNCHANGED <<taskVars, refused>>,
         \A c \in cs : c.owner = t => c = Mine(t) /\ Waits(t),
         (\E c \in cs : c.owner = t) => Gone(t),
         (\A c \in cs : c.owner # t) => Alone(t)
  PROVE  TaskInv(t)'
<1> USE DEF taskVars
<1>1. CASE \A c \in cs : c.owner # t
  <2>1. {c.type : c \in {d \in cs : d.owner = t}} = {}
    BY <1>1
  <2>2. events'[t] = events[t]
    BY <2>1 DEF Complete, Typed
  <2>3. succeeded'[t] = succeeded[t]
    BY <1>1 DEF Complete, Typed
  <2>4. t \in registered => t \in registered'
    <3>1. [type |-> "unsubscribe", owner |-> t] \notin cs
      BY <1>1
    <3> QED
      BY <3>1 DEF Complete
  <2> QED
    BY <1>1, <2>2, <2>3, <2>4, Untouched
<1>2. CASE \E c \in cs : c.owner = t
  <2>1. Mine(t) \in cs /\ Waits(t) /\ Gone(t)
    BY <1>2
  <2>2. {c.type : c \in {d \in cs : d.owner = t}} = {stage[t]}
    <3>1. Mine(t).owner = t /\ Mine(t).type = stage[t]
      BY DEF Mine
    <3>2. \A c \in cs : c.owner = t => c.type = stage[t]
      BY <3>1
    <3> QED
      BY <2>1, <3>1, <3>2
  <2>3. events'[t] = events[t] \cup {stage[t]}
    BY <2>2 DEF Complete, Typed
  <2>4. succeeded'[t] = success
    BY <1>2 DEF Complete
  <2>5. stage[t] \in CommandStages /\ step[t] = "wait"
    BY <2>1 DEF Waits, TaskInv, WaitsForMine
  <2>6. ~Waits(t)' /\ Mine(t)' = Mine(t)
    BY <2>3 DEF Waits, Mine
  <2>7. Mine(t) \in Commands /\ Mine(t).owner = t
    BY <2>5 DEF Mine, Commands
  <2>8. NoOther(t)'
    <3>1. ~Queued(Mine(t))'
      BY <2>1, <2>6, <2>7 DEF Gone, Queued
    <3> QED
      BY <2>1, <2>6, <3>1 DEF Gone, NoOther
  <2>9. WaitsForMine(t)'
    BY <2>3, <2>5, <2>6 DEF WaitsForMine, TaskInv
  <2>10. Listed(t)'
    <3>1. CASE stage[t] = "subscribe"
      <4>1. Mine(t) = [type |-> "subscribe", owner |-> t]
        BY <3>1 DEF Mine
      <4>2. success => t \in registered'
        BY <2>1, <4>1 DEF Complete
      <4> QED
        BY <2>4, <3>1, <4>2 DEF Listed
    <3>2. CASE stage[t] # "subscribe"
      <4>1. stage[t] \in {"publish", "echo"} => t \in registered \cup refused
        BY DEF TaskInv, Listed
      <4>2. stage[t] = "publish" => [type |-> "unsubscribe", owner |-> t] \notin cs
        BY DEF Mine
      <4>3. stage[t] = "publish" /\ t \in registered => t \in registered'
        BY <4>2 DEF Complete
      <4> QED
        BY <2>5, <3>2, <4>1, <4>3 DEF Listed, CommandStages
    <3> QED
      BY <3>1, <3>2
  <2> QED
    BY <2>8, <2>9, <2>10 DEF TaskInv
<1> QED
  BY <1>1, <1>2

\* The callback of a single command.
LEMMA CompletedOne ==
  ASSUME Typed, NEW t \in Tasks, TaskInv(t),
         NEW c \in Commands, NEW success \in BOOLEAN,
         Complete({c}, success), UNCHANGED <<taskVars, refused>>,
         IF c.owner = t THEN c = Mine(t) /\ Waits(t) /\ Gone(t) ELSE Alone(t)
  PROVE  TaskInv(t)'
<1> DEFINE cs == {c}
<1>1. cs \in SUBSET Commands /\ Complete(cs, success)
  OBVIOUS
<1>2. /\ \A d \in cs : d.owner = t => d = Mine(t) /\ Waits(t)
      /\ (\E d \in cs : d.owner = t) => Gone(t)
      /\ (\A d \in cs : d.owner # t) => Alone(t)
  OBVIOUS
<1> HIDE DEF cs
<1> QED
  BY <1>1, <1>2, Completed

-----------------------------------------------------------------------------
\* The steps of a task change nothing of the others.
LEMMA OtherTask ==
  ASSUME Typed, NEW u \in Tasks, Task(u), NEW t \in Tasks, t # u, TaskInv(t), TaskInv(u)
  PROVE  TaskInv(t)'
<1> USE DEF Typed, demoUnchanged, connVars, brokerVars, historyVars
<1>1. /\ stage'[t] = stage[t] /\ step'[t] = step[t]
      /\ received'[t] = received[t] /\ succeeded'[t] = succeeded[t]
      /\ events'[t] = events[t]
      /\ UNCHANGED <<pending, registered, refused>>
  BY DEF Task, WaitForNetwork, Enqueue, EnqueueFails, WaitForCompletion,
         WaitForEcho, DelayOver, Enter, Retry
<1>2. Alone(t)
  <2>1. CASE Enqueue(u)
    <3>1. step[u] = "send" /\ queue' = Append(queue, [type |-> stage[u], owner |-> u])
      BY <2>1 DEF Enqueue
    <3>2. [type |-> stage[u], owner |-> u] \in Commands
      BY <3>1 DEF TaskInv, WaitsForMine, Commands
    <3> QED
      BY <1>1, <3>1, <3>2, Appended
  <2>2. CASE UNCHANGED queue
    BY <1>1, <2>2 DEF Alone, Queued, TaskInv, NoOther
  <2> QED
    BY <2>1, <2>2
       DEF Task, WaitForNetwork, EnqueueFails, WaitForCompletion, WaitForEcho,
           DelayOver
<1> QED
  BY <1>1, <1>2, Untouched

\* A task sends a command only when it has none with the agent, and leaves a
\* function only with the bit of the command it sent in it.
LEMMA OwnTask ==
  ASSUME Typed, NEW t \in Tasks, Task(t), TaskInv(t)
  PROVE  TaskInv(t)'
<1> USE DEF demoUnchanged, connVars, brokerVars, historyVars
<1>1. UNCHANGED <<pending, registered, refused>>
  BY DEF Task, WaitForNetwork, Enqueue, EnqueueFails, WaitForCompletion,
         WaitForEcho, DelayOver
<1>2. CASE Enqueue(t)
  <2>1. /\ step[t] = "send" /\ step'[t] = "wait"
        /\ queue' = Append(queue, Mine(t))
        /\ UNCHANGED <<stage, received, succeeded, events>>
    BY <1>2 DEF Enqueue, Mine, Typed
  <2>2. stage[t] \in CommandStages /\ ~Waits(t)
    BY <2>1 DEF TaskInv, WaitsForMine, Waits
  <2>3. events[t] \cap CommandStages = {} /\ Waits(t)' /\ Mine(t)' = Mine(t)
    BY <2>1, <2>2 DEF TaskInv, WaitsForMine, Waits, Mine
  <2>4. Mine(t) \in Commands /\ Mine(t).owner = t
    BY <2>2 DEF Mine, Commands
  <2>5. /\ \A i \in DOMAIN queue : queue[i].owner # t
        /\ \A c \in Commands : c.owner = t => ~(pending[c] > 0)
    BY <2>2 DEF TaskInv, NoOther
  <2>6. /\ DOMAIN queue' = DOMAIN queue \cup {Len(queue) + 1}
        /\ queue'[Len(queue) + 1] = Mine(t)
        /\ \A i \in DOMAIN queue : queue'[i] = queue[i]
    BY <2>1 DEF Typed
  <2>7. NoOther(t)'
    BY <1>1, <2>3, <2>4, <2>5, <2>6 DEF NoOther
  <2>8. WaitsForMine(t)'
    <3>1. InAgent(t)'
      BY <2>3, <2>6 DEF InAgent, Queued
    <3> QED
      BY <2>1, <2>2, <2>3, <3>1 DEF WaitsForMine
  <2>9. Listed(t)'
    <3>1. "subscribe" \notin events[t]
      BY <2>3 DEF CommandStages
    <3> QED
      BY <1>1, <2>1, <3>1 DEF Listed, TaskInv
  <2> QED
    BY <2>7, <2>8, <2>9 DEF TaskInv
<1>3. ASSUME UNCHANGED queue, ~Waits(t), ~Waits(t)'
      PROVE  NoOther(t)'
  <2>1. /\ \A i \in DOMAIN queue : queue[i].owner # t
        /\ \A c \in Commands : c.owner = t => ~(pending[c] > 0)
    BY <1>3 DEF TaskInv, NoOther
  <2>2. ~Queued(Mine(t))'
    BY <1>3, <2>1 DEF Queued, Mine
  <2> QED
    BY <1>1, <1>3, <2>1, <2>2 DEF NoOther
<1>4. ASSUME UNCHANGED queue, ~Waits(t), step'[t] = "network", Enter(t),
             events'[t] \cap CommandStages = {},
             stage[t] = "subscribe" => t \in registered \cup refused
      PROVE  TaskInv(t)'
  <2>1. /\ ~Waits(t)' /\ stage'[t] = Following[stage[t]]
        /\ received'[t] = FALSE
    BY <1>4 DEF Enter, Waits, Typed
  <2>2. NoOther(t)'
    BY <1>3, <1>4, <2>1
  <2>3. WaitsForMine(t)'
    BY <1>4, <2>1 DEF WaitsForMine
  <2>4. stage'[t] \in {"publish", "echo"} => stage[t] \in {"subscribe", "publish"}
    BY <2>1 DEF Following, Typed, Stages, CommandStages
  <2>5. Listed(t)'
    BY <1>1, <1>4, <2>4 DEF Listed, TaskInv
  <2> QED
    BY <2>2, <2>3, <2>5 DEF TaskInv
<1>5. ASSUME UNCHANGED queue, ~Waits(t), step'[t] = "network", Retry(t),
             events'[t] \cap CommandStages = {},
             received'[t] => ~succeeded'[t]
      PROVE  TaskInv(t)'
  <2>1. ~Waits(t)' /\ stage'[t] = stage[t]
    BY <1>5 DEF Retry, Waits
  <2>2. NoOther(t)'
    BY <1>3, <1>5, <2>1
  <2>3. WaitsForMine(t)'
    BY <1>5, <2>1 DEF WaitsForMine
  <2>4. Listed(t)'
    BY <1>1, <1>5, <2>1 DEF Listed, TaskInv
  <2> QED
    BY <2>2, <2>3, <2>4 DEF TaskInv
<1>6. CASE WaitForNetwork(t)
  <2>1. /\ step[t] = "network" /\ step'[t] = "send" /\ stage[t] \in CommandStages
        /\ UNCHANGED <<stage, received, succeeded, events, queue>>
    BY <1>6 DEF WaitForNetwork, Typed
  <2>2. ~Waits(t) /\ ~Waits(t)'
    BY <2>1 DEF Waits
  <2>3. NoOther(t)'
    BY <1>3, <2>1, <2>2
  <2> QED
    BY <1>1, <2>1, <2>2, <2>3 DEF TaskInv, WaitsForMine, Listed
<1>7. CASE EnqueueFails(t)
  <2>1. /\ step[t] = "send" /\ UNCHANGED <<events, queue>>
        /\ ~Waits(t) /\ events[t] \cap CommandStages = {}
        /\ ~(received[t] /\ succeeded[t])
    BY <1>7 DEF EnqueueFails, Waits, TaskInv, WaitsForMine
  <2>2. Retry(t) /\ UNCHANGED received /\ step'[t] = "network"
    BY <1>7, <2>1 DEF EnqueueFails, Retry, Typed
  <2> QED
    BY <1>5, <2>1, <2>2 DEF Retry
<1>8. CASE WaitForCompletion(t)
  <2>1. /\ stage[t] \in CommandStages /\ step[t] = "wait" /\ stage[t] \in events[t]
        /\ events'[t] = events[t] \ {stage[t]}
        /\ UNCHANGED queue
    BY <1>8 DEF WaitForCompletion, Typed
  <2>2. ~Waits(t) /\ events'[t] \cap CommandStages = {}
    BY <2>1 DEF Waits, TaskInv, WaitsForMine
  <2>3. CASE succeeded[t]
    <3>1. Enter(t) /\ step'[t] = "network"
      BY <1>8, <2>3 DEF WaitForCompletion, Enter, Typed
    <3>2. stage[t] = "subscribe" => t \in registered \cup refused
      BY <2>1, <2>3 DEF TaskInv, Listed
    <3> QED
      BY <1>4, <2>1, <2>2, <3>1, <3>2
  <2>4. CASE ~succeeded[t]
    <3>1. Retry(t) /\ step'[t] = "network" /\ ~succeeded'[t]
      BY <1>8, <2>4 DEF WaitForCompletion, Retry, Typed
    <3> QED
      BY <1>5, <2>1, <2>2, <3>1
  <2> QED
    BY <2>3, <2>4
<1>9. CASE WaitForEcho(t) \/ DelayOver(t)
  <2>1. /\ stage[t] \in {"echo", "delay"} /\ Enter(t) /\ UNCHANGED queue
        /\ events'[t] \subseteq events[t]
    BY <1>9 DEF WaitForEcho, DelayOver, Typed
  <2>2. step[t] = "network"
    BY <2>1 DEF TaskInv, WaitsForMine, CommandStages
  <2>3. /\ ~Waits(t) /\ step'[t] = "network"
        /\ events'[t] \cap CommandStages = {}
    BY <2>1, <2>2 DEF Waits, Enter, TaskInv, WaitsForMine, Typed
  <2> QED
    BY <1>4, <2>1, <2>3
<1> QED
  BY <1>2, <1>6, <1>7, <1>8, <1>9 DEF Task

-----------------------------------------------------------------------------
\* The command loop runs a command once, and completes what is answered.
LEMMA AgentStep ==
  ASSUME Typed, Agent, NEW t \in Tasks, TaskInv(t)
  PROVE  TaskInv(t)'
<1> USE DEF taskVars, resultVars, agentVars, connVars, brokerVars, historyVars
<1>1. CASE RunCommand
  <2>1. /\ queue # <<>> /\ queue' = Tail(queue) /\ Head(queue) \in Commands
        /\ pending' = [pending EXCEPT ![Head(queue)] = @ + 1]
        /\ UNCHANGED <<taskVars, resultVars, refused>>
    BY <1>1 DEF RunCommand, Typed
  <2>2. CASE Head(queue).owner # t
    <3>1. \A c \in Commands : c.owner = t => pending'[c] = pending[c]
      BY <2>1, <2>2 DEF Typed
    <3>2. Alone(t)
      BY <2>1, <2>2, <3>1, Popped
    <3> QED
      BY <2>1, <3>2, Untouched
  <2>3. CASE Head(queue).owner = t
    <3>1. /\ Head(queue) = Mine(t) /\ Waits(t) /\ Queued(Mine(t))
          /\ \A i \in DOMAIN queue' : queue'[i].owner # t
      BY <2>1, <2>3, PoppedMine
    <3>2. Mine(t)' = Mine(t) /\ Waits(t)' = Waits(t) /\ Mine(t).owner = t
      BY <2>1 DEF Mine, Waits
    <3>3. ~(pending[Mine(t)] > 0)
      BY <3>1 DEF TaskInv, NoOther
    <3>4. pending'[Mine(t)] = 1
      BY <2>1, <3>1, <3>3 DEF Typed
    <3>5. \A c \in Commands : c.owner = t /\ pending'[c] > 0 => c = Mine(t)
      BY <2>1, <3>1 DEF TaskInv, NoOther, Typed
    <3>6. ~Queued(Mine(t))'
      BY <3>1, <3>2 DEF Queued
    <3>7. NoOther(t)'
      BY <3>1, <3>2, <3>4, <3>5, <3>6 DEF NoOther
    <3>8. WaitsForMine(t)'
      BY <2>1, <3>2, <3>4 DEF WaitsForMine, TaskInv, InAgent
    <3>9. Listed(t)'
      BY <2>1 DEF Listed, TaskInv
    <3> QED
      BY <3>7, <3>8, <3>9 DEF TaskInv
  <2> QED
    BY <2>2, <2>3
<1>2. CASE RunCommandFails
  <2>1. /\ queue # <<>> /\ queue' = Tail(queue)
        /\ Complete({Head(queue)}, FALSE)
        /\ UNCHANGED <<taskVars, pending, refused>>
    BY <1>2 DEF RunCommandFails
  <2>2. Head(queue) \in Commands
    BY <2>1 DEF Typed
  <2>3. CASE Head(queue).owner # t
    <3>1. Alone(t)
      BY <2>1, <2>3, Popped
    <3> QED
      BY <2>1, <2>2, <2>3, <3>1, CompletedOne
  <2>4. CASE Head(queue).owner = t
    <3>1. /\ Head(queue) = Mine(t) /\ Waits(t) /\ Queued(Mine(t))
          /\ \A i \in DOMAIN queue' : queue'[i].owner # t
      BY <2>1, <2>4, PoppedMine
    <3>2. \A c \in Commands : c.owner = t => ~(pending[c] > 0)
      BY <3>1 DEF TaskInv, NoOther
    <3>3. Gone(t)
      BY <2>1, <3>1, <3>2 DEF Gone
    <3> QED
      BY <2>1, <2>2, <2>4, <3>1, <3>3, CompletedOne
  <2> QED
    BY <2>3, <2>4
<1>3. ASSUME UNCHANGED <<queue, pending>> PROVE Alone(t)
  BY <1>3 DEF Alone, Queued, TaskInv, NoOther
<1>4. CASE LoopFails
  BY <1>3, <1>4, Untouched DEF LoopFails
<1>5. CASE ReceivePublish
  <2>1. events'[t] \cap CommandStages = events[t] \cap CommandStages
    BY <1>5 DEF ReceivePublish, Typed, CommandStages
  <2> QED
    BY <1>3, <1>5, <2>1, Untouched DEF ReceivePublish
<1>6. CASE ReceiveAck
  <2> DEFINE ack == Head(toDevice)
             c   == [type |-> ack.type, owner |-> ack.owner]
  <2>1. /\ c \in Commands /\ pending[c] > 0
        /\ pending' = [pending EXCEPT ![c] = @ - 1]
        /\ UNCHANGED <<taskVars, queue>>
        /\ c = Resubscription => /\ registered' = registered \ ack.filters
                                 /\ refused' = refused \cup ack.filters
                                 /\ UNCHANGED <<events, succeeded>>
        /\ c # Resubscription => /\ Complete({c}, ack.filters = {})
                                 /\ UNCHANGED refused
    BY <1>6 DEF ReceiveAck
  <2> HIDE DEF c, ack
  <2>2. CASE c.owner # t
    <3>1. \A d \in Commands : d.owner = t => pending'[d] = pending[d]
      BY <2>1, <2>2 DEF Typed
    <3>2. Alone(t)
      BY <2>1, <3>1 DEF Alone, Queued, TaskInv, NoOther
    <3>3. CASE c = Resubscription
      BY <2>1, <3>2, <3>3, Untouched
    <3>4. CASE c # Resubscription
      <4>1. (ack.filters = {}) \in BOOLEAN
        OBVIOUS
      <4> QED
        BY <2>1, <2>2, <3>2, <3>4, <4>1, CompletedOne
    <3> QED
      BY <3>3, <3>4
  <2>3. CASE c.owner = t
    <3>1. c # Resubscription
      BY <2>3, Owners, <2>1
    <3>2. c = Mine(t) /\ Waits(t) /\ pending[c] = 1
      BY <2>1, <2>3 DEF TaskInv, NoOther
    <3>3. \A d \in Commands : d.owner = t => ~(pending'[d] > 0)
      BY <2>1, <3>2 DEF TaskInv, NoOther, Typed
    <3>4. \A i \in DOMAIN queue : queue[i].owner # t
      BY <2>1, <3>2 DEF TaskInv, NoOther, Queued
    <3>5. Gone(t)
      BY <2>1, <3>3, <3>4 DEF Gone
    <3>6. (ack.filters = {}) \in BOOLEAN
      OBVIOUS
    <3> QED
      BY <2>1, <2>3, <3>1, <3>2, <3>5, <3>6, CompletedOne
  <2> QED
    BY <2>2, <2>3
<1> QED
  BY <1>1, <1>2, <1>4, <1>5, <1>6 DEF Agent

\* What a connection completes is pending, and pending no more.
LEMMA Failed ==
  ASSUME Typed, NEW t \in Tasks, TaskInv(t), NEW cs \in SUBSET Commands,
         Complete(cs, FALSE), UNCHANGED <<taskVars, refused, queue>>,
         \A c \in cs : pending[c] > 0,
         \A c \in Commands : c.owner = t =>
             pending'[c] = IF c \in cs THEN 0 ELSE pending[c]
  PROVE  TaskInv(t)'
<1>1. \A c \in cs : c.owner = t => c = Mine(t) /\ Waits(t)
  BY DEF TaskInv, NoOther
<1>2. ASSUME NEW c \in cs, c.owner = t PROVE Gone(t)
  <2>1. c = Mine(t) /\ pending[c] > 0
    BY <1>1, <1>2
  <2>2. \A i \in DOMAIN queue : queue[i].owner # t
    BY <2>1 DEF TaskInv, NoOther, Queued
  <2>3. \A d \in Commands : d.owner = t => ~(pending'[d] > 0)
    BY <1>2, <2>1 DEF TaskInv, NoOther
  <2> QED
    BY <2>2, <2>3 DEF Gone
<1>3. ASSUME \A c \in cs : c.owner # t PROVE Alone(t)
  BY <1>3 DEF Alone, Queued, TaskInv, NoOther
<1> QED
  BY <1>1, <1>2, <1>3, Completed

\* A new session fails what is pending, a resumed one all but the publishes.
LEMMA ConnectionStep ==
  ASSUME Typed, Connection, NEW t \in Tasks, TaskInv(t)
  PROVE  TaskInv(t)'
<1> USE DEF resultVars, agentVars, connVars, brokerVars, historyVars
<1>1. CASE ConnectClean \/ Announce
  <2>1. Alone(t)
    BY <1>1 DEF ConnectClean, Announce, Alone, Queued, TaskInv, NoOther
  <2> QED
    BY <1>1, <2>1, Untouched DEF ConnectClean, Announce, taskVars
<1>2. CASE ResumeSession
  <2> DEFINE cancelled == Outstanding({"subscribe", "unsubscribe", "resubscribe"})
  <2>1. /\ pending' = [c \in Commands |-> IF c \in cancelled THEN 0 ELSE pending[c]]
        /\ Complete(cancelled, FALSE)
        /\ UNCHANGED <<taskVars, refused, queue>>
    BY <1>2 DEF ResumeSession
  <2>2. cancelled \in SUBSET Commands /\ \A c \in cancelled : pending[c] > 0
    BY DEF Outstanding
  <2> HIDE DEF cancelled
  <2> QED
    BY <2>1, <2>2, Failed
<1>3. CASE StartSession
  <2> DEFINE failed == Outstanding(CommandStages)
  <2>1. /\ pending' = [c \in Commands |-> 0]
        /\ Complete(failed, FALSE)
        /\ UNCHANGED <<taskVars, refused, queue>>
    BY <1>3 DEF StartSession
  <2>2. failed \in SUBSET Commands /\ \A c \in failed : pending[c] > 0
    BY DEF Outstanding
  <2>3. ASSUME NEW c \in Commands, c.owner = t
        PROVE  pending'[c] = IF c \in failed THEN 0 ELSE pending[c]
    <3>1. c.type \in CommandStages
      BY <2>3, Owners
    <3>2. pending[c] > 0 \/ pending[c] = 0
      BY DEF Typed
    <3> QED
      BY <2>1, <3>1, <3>2 DEF Outstanding
  <2> HIDE DEF failed
  <2> QED
    BY <2>1, <2>2, <2>3, Failed
<1>4. CASE Resubscribe
  <2>1. /\ queue' = queue \/ queue' = Append(queue, Resubscription)
        /\ UNCHANGED <<taskVars, registered, succeeded, events, pending, refused>>
    BY <1>4 DEF Resubscribe
  <2>2. Alone(t)
    <3>1. CASE queue' = queue
      BY <2>1, <3>1 DEF Alone, Queued, TaskInv, NoOther
    <3>2. CASE queue' = Append(queue, Resubscription)
      <4>1. Resubscription \in Commands /\ Resubscription.owner # t
        BY ConstantsAssumption
           DEF ConstantsAssumption, Commands, Resubscription
      <4> QED
        BY <2>1, <3>2, <4>1, Appended
    <3> QED
      BY <2>1, <3>1, <3>2
  <2> QED
    BY <2>1, <2>2, Untouched DEF taskVars
<1> QED
  BY <1>1, <1>2, <1>3, <1>4 DEF Connection

\* The broker, the network and the event loop reach no variable of the argument.
LEMMA OutsideStep ==
  ASSUME HandleEvent \/ Broker \/ LinkBreaks \/ SessionExpires \/ UNCHANGED vars
  PROVE  UNCHANGED <<taskVars, resultVars, agentVars, refused>>
BY DEF HandleEvent, Broker, BrokerSubscribes, BrokerUnsubscribes, BrokerPublishes,
       LinkBreaks, SessionExpires, netUnchanged, vars, historyVars

\* Such a step keeps the invariant of every task.
LEMMA OutsideKeeps ==
  ASSUME Typed, NEW t \in Tasks, TaskInv(t),
         UNCHANGED <<taskVars, resultVars, agentVars, refused>>
  PROVE  TaskInv(t)'
<1> USE DEF taskVars, resultVars, agentVars
<1>1. Alone(t)
  BY DEF Alone, Queued, TaskInv, NoOther
<1> QED
  BY <1>1, Untouched

-----------------------------------------------------------------------------
\* The steps of the tasks keep the types.
LEMMA TaskTyped ==
  ASSUME Typed, NEW t \in Tasks, TaskInv(t), Task(t)
  PROVE  Typed'
<1> USE DEF demoUnchanged
<1>1. UNCHANGED pending
  BY DEF Task, WaitForNetwork, Enqueue, EnqueueFails, WaitForCompletion,
         WaitForEcho, DelayOver
<1>2. queue' \in Seq(Commands)
  <2>1. CASE Enqueue(t)
    <3>1. [type |-> stage[t], owner |-> t] \in Commands
      BY <2>1 DEF Enqueue, TaskInv, WaitsForMine, Commands
    <3> QED
      BY <2>1, <3>1 DEF Enqueue, Typed
  <2>2. CASE ~Enqueue(t)
    BY <2>2 DEF Task, WaitForNetwork, EnqueueFails, WaitForCompletion,
                WaitForEcho, DelayOver, Typed
  <2> QED
    BY <2>1, <2>2
<1>3. events' \in [Tasks -> SUBSET (CommandStages \cup {"echo"})]
  BY DEF Task, WaitForNetwork, Enqueue, EnqueueFails, WaitForCompletion,
         WaitForEcho, DelayOver, Typed
<1>4. stage' \in [Tasks -> Stages]
  <2>1. Following[stage[t]] \in Stages
    BY DEF Following, Typed, Stages, CommandStages
  <2> QED
    BY <2>1
       DEF Task, WaitForNetwork, Enqueue, EnqueueFails, WaitForCompletion,
           WaitForEcho, DelayOver, Enter, Retry, Typed
<1>5. step' \in [Tasks -> Steps]
  BY DEF Task, WaitForNetwork, Enqueue, EnqueueFails, WaitForCompletion,
         WaitForEcho, DelayOver, Enter, Retry, Typed, Steps
<1>6. received' \in [Tasks -> BOOLEAN] /\ succeeded' \in [Tasks -> BOOLEAN]
  BY DEF Task, WaitForNetwork, Enqueue, EnqueueFails, WaitForCompletion,
         WaitForEcho, DelayOver, Enter, Retry, Typed
<1> QED
  BY <1>1, <1>2, <1>3, <1>4, <1>5, <1>6 DEF Typed

\* So do those of the agent.
LEMMA AgentTyped ==
  ASSUME Typed, Agent
  PROVE  Typed'
<1> USE DEF taskVars, resultVars, agentVars
<1>1. CASE RunCommand
  BY <1>1 DEF RunCommand, Typed
<1>2. CASE RunCommandFails
  <2>1. /\ queue # <<>> /\ queue' = Tail(queue)
        /\ Complete({Head(queue)}, FALSE)
        /\ UNCHANGED <<taskVars, pending>>
    BY <1>2 DEF RunCommandFails
  <2>2. {Head(queue)} \in SUBSET Commands /\ queue' \in Seq(Commands)
    BY <2>1 DEF Typed
  <2>3. /\ succeeded' \in [Tasks -> BOOLEAN]
        /\ events' \in [Tasks -> SUBSET (CommandStages \cup {"echo"})]
    BY <2>1, <2>2, CompleteTyped
  <2> QED
    BY <2>1, <2>2, <2>3 DEF Typed
<1>3. CASE LoopFails
  BY <1>3 DEF LoopFails, Typed
<1>4. CASE ReceivePublish
  <2>1. events' \in [Tasks -> SUBSET (CommandStages \cup {"echo"})]
    BY <1>4 DEF ReceivePublish, Typed
  <2> QED
    BY <1>4, <2>1 DEF ReceivePublish, Typed
<1>5. CASE ReceiveAck
  <2> DEFINE ack == Head(toDevice)
             c   == [type |-> ack.type, owner |-> ack.owner]
  <2>1. /\ c \in Commands /\ pending[c] > 0
        /\ pending' = [pending EXCEPT ![c] = @ - 1]
        /\ UNCHANGED <<taskVars, queue>>
        /\ UNCHANGED <<events, succeeded>> \/ Complete({c}, ack.filters = {})
    BY <1>5 DEF ReceiveAck
  <2> HIDE DEF c, ack
  <2>2. pending' \in [Commands -> Nat]
    BY <2>1 DEF Typed
  <2>3. {c} \in SUBSET Commands /\ (ack.filters = {}) \in BOOLEAN
    BY <2>1
  <2>4. /\ succeeded' \in [Tasks -> BOOLEAN]
        /\ events' \in [Tasks -> SUBSET (CommandStages \cup {"echo"})]
    BY <2>1, <2>3, CompleteTyped DEF Typed
  <2> QED
    BY <2>1, <2>2, <2>4 DEF Typed
<1> QED
  BY <1>1, <1>2, <1>3, <1>4, <1>5 DEF Agent

\* So do those of the connection task.
LEMMA ConnectionTyped ==
  ASSUME Typed, Connection
  PROVE  Typed'
<1> USE DEF taskVars, resultVars, agentVars
<1>1. CASE ConnectClean \/ Announce
  BY <1>1 DEF ConnectClean, Announce, Typed
<1>2. ASSUME NEW types, Complete(Outstanding(types), FALSE)
      PROVE  /\ succeeded' \in [Tasks -> BOOLEAN]
             /\ events' \in [Tasks -> SUBSET (CommandStages \cup {"echo"})]
  <2>1. Outstanding(types) \in SUBSET Commands
    BY DEF Outstanding
  <2> QED
    BY <1>2, <2>1, CompleteTyped
<1>3. CASE ResumeSession
  <2>1. pending' \in [Commands -> Nat]
    BY <1>3 DEF ResumeSession, Typed
  <2> QED
    BY <1>2, <1>3, <2>1 DEF ResumeSession, Typed
<1>4. CASE StartSession
  <2>1. pending' \in [Commands -> Nat]
    BY <1>4 DEF StartSession
  <2> QED
    BY <1>2, <1>4, <2>1 DEF StartSession, Typed
<1>5. CASE Resubscribe
  <2>1. queue' = queue \/ queue' = Append(queue, Resubscription)
    BY <1>5 DEF Resubscribe
  <2>2. Resubscription \in Commands
    BY DEF Commands, Resubscription
  <2>3. queue' \in Seq(Commands)
    <3>1. CASE queue' = queue
      BY <3>1 DEF Typed
    <3>2. CASE queue' = Append(queue, Resubscription)
      BY <2>2, <3>2 DEF Typed
    <3> QED
      BY <2>1, <3>1, <3>2
  <2>4. UNCHANGED <<taskVars, resultVars, pending>>
    BY <1>5 DEF Resubscribe
  <2> QED
    BY <2>3, <2>4 DEF Typed
<1> QED
  BY <1>1, <1>3, <1>4, <1>5 DEF Connection

\* The tasks start with nothing outstanding.
LEMMA InvInit == Init => Typed /\ Inv
<1> SUFFICES ASSUME Init PROVE Typed /\ Inv
  OBVIOUS
<1>1. Typed
  BY DEF Init, Typed, Stages, Steps, CommandStages
<1>2. ASSUME NEW t \in Tasks PROVE TaskInv(t)
  BY DEF Init, TaskInv, NoOther, WaitsForMine, Listed, Waits, Queued, Mine
<1> QED
  BY <1>1, <1>2 DEF Inv

\* Every step keeps the invariant of every task.
LEMMA InvStep ==
  ASSUME Typed, Inv, [Next]_vars
  PROVE  Typed' /\ Inv'
<1>1. CASE \E t \in Tasks : Task(t)
  <2>1. PICK u \in Tasks : Task(u)
    BY <1>1
  <2>2. Typed'
    BY <2>1, TaskTyped DEF Inv
  <2>3. ASSUME NEW t \in Tasks PROVE TaskInv(t)'
    BY <2>1, OwnTask, OtherTask DEF Inv
  <2> QED
    BY <2>2, <2>3 DEF Inv
<1>2. CASE Agent
  BY <1>2, AgentTyped, AgentStep DEF Inv
<1>3. CASE Connection
  BY <1>3, ConnectionTyped, ConnectionStep DEF Inv
<1>4. CASE HandleEvent \/ Broker \/ LinkBreaks \/ SessionExpires \/ UNCHANGED vars
  <2>1. UNCHANGED <<taskVars, resultVars, agentVars, refused>>
    BY <1>4, OutsideStep
  <2>2. Typed'
    BY <2>1 DEF Typed, taskVars, resultVars, agentVars
  <2>3. Inv'
    BY <2>1, OutsideKeeps DEF Inv
  <2> QED
    BY <2>2, <2>3
<1> QED
  BY <1>1, <1>2, <1>3, <1>4 DEF Next

\* It holds throughout.
LEMMA InvHolds == Spec => [](Typed /\ Inv)
BY InvInit, InvStep, PTL DEF Spec

\* However many tasks share the agent, and whatever the connection goes through,
\* each task that waits has one command whose callback will wake it, and one that
\* does not wait has none that could write to a stack frame it has left.
THEOREM CallbackAwaited == Spec => []OneCallbackPerWait
<1>1. Typed /\ Inv => OneCallbackPerWait
  <2> SUFFICES ASSUME Typed, Inv, NEW t \in Tasks
               PROVE  /\ Cardinality(InQueue(t)) + Cardinality(InFlight(t))
                          = IF Waits(t) THEN 1 ELSE 0
                      /\ \A i \in InQueue(t) : queue[i].type = stage[t]
                      /\ \A c \in InFlight(t) : c.type = stage[t] /\ pending[c] = 1
    BY DEF OneCallbackPerWait
  <2>1. TaskInv(t)
    BY DEF Inv
  <2>2. /\ \A i \in InQueue(t) : queue[i].type = stage[t]
        /\ \A c \in InFlight(t) : c.type = stage[t] /\ pending[c] = 1
    BY <2>1 DEF TaskInv, NoOther, InQueue, InFlight, Mine
  <2>3. CASE ~Waits(t)
    <3>1. InQueue(t) = {} /\ InFlight(t) = {}
      BY <2>1, <2>3 DEF TaskInv, NoOther, InQueue, InFlight
    <3> QED
      BY <2>2, <2>3, <3>1, FS_EmptySet
  <2>4. CASE Waits(t) /\ Queued(Mine(t))
    <3>1. PICK i \in DOMAIN queue : queue[i] = Mine(t)
      BY <2>4 DEF Queued
    <3>2. InQueue(t) = {i}
      BY <2>1, <3>1 DEF TaskInv, NoOther, InQueue, Mine
    <3>3. InFlight(t) = {}
      BY <2>1, <2>4 DEF TaskInv, NoOther, InFlight
    <3> QED
      BY <2>2, <2>4, <3>2, <3>3, FS_EmptySet, FS_Singleton
  <2>5. CASE Waits(t) /\ ~Queued(Mine(t))
    <3>1. pending[Mine(t)] > 0 /\ stage[t] \in CommandStages
      BY <2>1, <2>5 DEF TaskInv, WaitsForMine, InAgent, Waits
    <3>2. Mine(t) \in Commands /\ Mine(t).owner = t
      BY <3>1 DEF Mine, Commands
    <3>3. InFlight(t) = {Mine(t)}
      BY <2>1, <3>1, <3>2 DEF TaskInv, NoOther, InFlight
    <3>4. InQueue(t) = {}
      BY <2>1, <2>5 DEF TaskInv, NoOther, InQueue, Queued
    <3> QED
      BY <2>2, <2>5, <3>3, <3>4, FS_EmptySet, FS_Singleton
  <2> QED
    BY <2>3, <2>4, <2>5
<1> QED
  BY <1>1, InvHolds, PTL

\* A task that publishes is in the list, unless the broker refused to have it
\* there, through every resubscription, cancellation and retry.
THEOREM CallbackStays == Spec => []CallbackStaysRegistered
<1>1. Inv => CallbackStaysRegistered
  BY DEF Inv, TaskInv, Listed, CallbackStaysRegistered
<1> QED
  BY <1>1, InvHolds, PTL
-----------------------------------------------------------------------------
(* The types of the rest: the subscription list, the connection, and the   *)
(* packets, which only the type invariant looks into.                      *)

Packets ==
    [type : CommandStages \cup {"echo"}, owner : Tasks, filters : SUBSET Tasks]
      \cup [type : {"resubscribe"}, owner : {Manager}, filters : SUBSET Tasks]

ListTyped ==
    /\ registered \subseteq Tasks /\ subArgs \subseteq Tasks
    /\ refused \subseteq Tasks
    /\ Len(queue) <= CommandQueueLength
LinkTyped ==
    /\ connected \in BOOLEAN /\ xCleanSession \in BOOLEAN /\ link \in BOOLEAN
    /\ conn \in {"off", "resubscribe", "announce", "on"}
    /\ posted \in Seq({"Connected", "Disconnected"})
    /\ faults \in 0 .. MaxFaults
BrokerTyped ==
    /\ session \in {"none", "clean", "persistent"}
    /\ subs \subseteq Tasks /\ unechoed \subseteq Tasks
    /\ toBroker \in Seq(Packets) /\ toDevice \in Seq(Packets)

TypeInv == Typed /\ Inv /\ ListTyped /\ LinkTyped /\ BrokerTyped

\* What a packet is about.
LEMMA PacketFields ==
  ASSUME NEW p \in Packets
  PROVE  /\ p.filters \subseteq Tasks
         /\ p.type # "resubscribe" => p.owner \in Tasks
BY DEF Packets, CommandStages

\* A command makes a packet.
LEMMA PacketTyped ==
  ASSUME ListTyped, NEW c \in Commands
  PROVE  Packet(c) \in Packets
<1>1. CASE c = Resubscription
  BY <1>1 DEF Packet, Filters, Packets, Resubscription, ListTyped
<1>2. CASE c # Resubscription
  <2>1. c.owner \in Tasks /\ c.type \in CommandStages
    BY <1>2, Owners
  <2>2. Filters(c) = {c.owner}
    BY <1>2 DEF Filters
  <2> QED
    BY <2>1, <2>2 DEF Packet, Packets
<1> QED
  BY <1>1, <1>2

\* The callbacks of the demo's commands add only its own topics to the list.
LEMMA CompleteRegisters ==
  ASSUME registered \subseteq Tasks, NEW cs, NEW success \in BOOLEAN,
         Complete(cs, success)
  PROVE  registered' \subseteq Tasks
BY DEF Complete

\* The publishes that a lost connection leaves undelivered are packets.
LEMMA CutTyped ==
  ASSUME BrokerTyped, Cut
  PROVE  BrokerTyped' /\ link' = FALSE
<1> USE DEF BrokerTyped
<1>1. toBroker' \in Seq(Packets) /\ link' = FALSE
  BY DEF Cut
<1>2. ASSUME NEW i \in Undelivered
      PROVE  toDevice[i] \in Packets /\ toDevice[i].owner \in Tasks
  <2>1. toDevice[i] \in Packets /\ toDevice[i].type = "echo"
    BY <1>2 DEF Undelivered, IsPublish
  <2> QED
    BY <2>1, PacketFields
<1>3. CASE LoseSession
  BY <1>1, <1>2, <1>3 DEF LoseSession
<1>4. CASE KeepUndelivered /\ UNCHANGED <<session, subs, unechoed>>
  <2>1. PICK order \in [1 .. Cardinality(Undelivered) -> Undelivered] :
           toDevice' = [i \in DOMAIN order |-> toDevice[order[i]]]
    BY <1>4 DEF KeepUndelivered
  <2>2. Cardinality(Undelivered) \in Nat
    <3>1. DOMAIN toDevice = 1 .. Len(toDevice) /\ Len(toDevice) \in Nat
      OBVIOUS
    <3>2. IsFiniteSet(DOMAIN toDevice)
      BY <3>1, FS_Interval
    <3>3. Undelivered \in SUBSET DOMAIN toDevice
      BY DEF Undelivered
    <3> QED
      BY <3>2, <3>3, FS_Subset, FS_CardinalityType
  <2>3. toDevice' \in [1 .. Cardinality(Undelivered) -> Packets]
    BY <1>2, <2>1
  <2>4. toDevice' \in Seq(Packets)
    BY <2>2, <2>3
  <2> QED
    BY <1>1, <1>4, <2>4
<1> QED
  BY <1>3, <1>4 DEF Cut

\* A fault spends one unit of the budget.
LEMMA FaultSpent ==
  ASSUME faults \in 0 .. MaxFaults, SpendFault
  PROVE  faults' \in 0 .. MaxFaults
BY ConstantsAssumption DEF ConstantsAssumption, SpendFault

\* The steps of the tasks.
LEMMA TaskTypes ==
  ASSUME TypeInv, NEW t \in Tasks, Task(t)
  PROVE  ListTyped' /\ LinkTyped' /\ BrokerTyped'
<1>1. UNCHANGED <<registered, subArgs, refused, connected, connVars, brokerVars, faults>>
  BY DEF Task, WaitForNetwork, Enqueue, EnqueueFails, WaitForCompletion,
         WaitForEcho, DelayOver, demoUnchanged, connVars, historyVars
<1>2. Len(queue') <= CommandQueueLength
  <2>1. CASE Enqueue(t)
    <3>1. [type |-> stage[t], owner |-> t] \in Commands
      BY <2>1 DEF Enqueue, TypeInv, Inv, TaskInv, WaitsForMine, Commands
    <3>2. Len(queue') = Len(queue) + 1 /\ Len(queue) \in Nat
      BY <2>1, <3>1 DEF Enqueue, TypeInv, Typed
    <3> QED
      BY <2>1, <3>2, ConstantsAssumption DEF Enqueue, ConstantsAssumption
  <2>2. CASE UNCHANGED queue
    BY <2>2 DEF TypeInv, ListTyped
  <2> QED
    BY <2>1, <2>2
       DEF Task, WaitForNetwork, EnqueueFails, WaitForCompletion, WaitForEcho, DelayOver
<1> QED
  BY <1>1, <1>2 DEF TypeInv, ListTyped, LinkTyped, BrokerTyped, connVars, brokerVars

\* The end of the command loop.
LEMMA LoopEndTypes ==
  ASSUME LinkTyped, BrokerTyped, LoopEnds, UNCHANGED <<historyVars, connected>>
  PROVE  LinkTyped' /\ BrokerTyped' /\ UNCHANGED <<subArgs, refused>>
<1>1. BrokerTyped' /\ link' = FALSE
  BY CutTyped DEF LoopEnds
<1>2. posted' \in Seq({"Connected", "Disconnected"})
  BY DEF LoopEnds, LinkTyped
<1>3. conn' = "off" /\ UNCHANGED <<xCleanSession, subArgs, refused, faults, connected>>
  BY DEF LoopEnds, historyVars
<1> QED
  BY <1>1, <1>2, <1>3 DEF LinkTyped

\* The command loop.
LEMMA AgentTypes ==
  ASSUME TypeInv, Agent
  PROVE  ListTyped' /\ LinkTyped' /\ BrokerTyped'
<1> USE DEF TypeInv
<1>0. ASSUME queue # <<>>
      PROVE  Head(queue) \in Commands /\ Len(Tail(queue)) <= CommandQueueLength
  <2>1. /\ Head(queue) \in Commands /\ Len(queue) \in Nat
        /\ Len(Tail(queue)) = Len(queue) - 1
    BY <1>0 DEF Typed
  <2> QED
    BY <2>1, ConstantsAssumption DEF ListTyped, ConstantsAssumption
<1>1. CASE RunCommand
  <2>1. /\ Head(queue) \in Commands /\ Len(queue') <= CommandQueueLength
        /\ UNCHANGED <<registered, connVars, refused, faults, connected, link,
                       toDevice, session, subs, unechoed>>
    BY <1>0, <1>1 DEF RunCommand, resultVars, historyVars
  <2>2. toBroker' \in Seq(Packets)
    <3>1. Packet(Head(queue)) \in Packets
      BY <2>1, PacketTyped
    <3> QED
      BY <1>1, <3>1 DEF RunCommand, BrokerTyped
  <2> QED
    BY <2>1, <2>2 DEF ListTyped, LinkTyped, BrokerTyped, connVars
<1>2. CASE RunCommandFails
  <2>1. /\ Len(queue') <= CommandQueueLength /\ registered' \subseteq Tasks
        /\ LoopEnds /\ UNCHANGED <<historyVars, connected>>
    BY <1>0, <1>2, CompleteRegisters DEF RunCommandFails, ListTyped
  <2> QED
    BY <2>1, LoopEndTypes DEF ListTyped
<1>3. CASE LoopFails
  <2>1. /\ UNCHANGED <<queue, registered>>
        /\ LoopEnds /\ UNCHANGED <<historyVars, connected>>
    BY <1>3 DEF LoopFails, agentVars, resultVars
  <2> QED
    BY <2>1, LoopEndTypes DEF ListTyped
<1>4. CASE ReceiveAck \/ ReceivePublish
  <2>1. /\ toDevice # <<>> /\ toDevice' = Tail(toDevice)
        /\ UNCHANGED <<queue, connVars, link, toBroker, session, subs, unechoed,
                       faults, connected>>
    BY <1>4 DEF ReceiveAck, ReceivePublish, agentVars, historyVars
  <2>2. toDevice' \in Seq(Packets) /\ Head(toDevice) \in Packets
    BY <2>1 DEF BrokerTyped
  <2>3. Head(toDevice).filters \subseteq Tasks
    BY <2>2, PacketFields
  <2>4. registered' \subseteq Tasks /\ refused' \subseteq Tasks
    <3>1. CASE ReceivePublish
      BY <3>1 DEF ReceivePublish, ListTyped, historyVars
    <3>2. CASE ReceiveAck
      <4> DEFINE ack == Head(toDevice)
                 c   == [type |-> ack.type, owner |-> ack.owner]
      <4>1. CASE c = Resubscription
        BY <2>3, <3>2, <4>1 DEF ReceiveAck, ListTyped
      <4>2. CASE c # Resubscription
        <5>1. Complete({c}, ack.filters = {}) /\ UNCHANGED refused
          BY <3>2, <4>2 DEF ReceiveAck
        <5>2. (ack.filters = {}) \in BOOLEAN
          OBVIOUS
        <5> HIDE DEF c, ack
        <5> QED
          BY <5>1, <5>2, CompleteRegisters DEF ListTyped
      <4> QED
        BY <4>1, <4>2
    <3> QED
      BY <1>4, <3>1, <3>2
  <2> QED
    BY <2>1, <2>2, <2>4 DEF ListTyped, LinkTyped, BrokerTyped, connVars
<1> QED
  BY <1>1, <1>2, <1>3, <1>4 DEF Agent

\* The publishes that are sent again are as many as the tasks at most.
LEMMA FiniteResent == Cardinality(Outstanding({"publish"})) \in Nat
<1> DEFINE publish  == [t \in Tasks |-> [type |-> "publish", owner |-> t]]
           commands == {publish[t] : t \in Tasks}
<1>1. publish \in Surjection(Tasks, commands)
  BY DEF Surjection
<1>2. IsFiniteSet(commands)
  BY <1>1, FS_Surjection, ConstantsAssumption DEF ConstantsAssumption
<1>3. Outstanding({"publish"}) \in SUBSET commands
  BY DEF Outstanding, Commands
<1> QED
  BY <1>2, <1>3, FS_Subset, FS_CardinalityType

\* The connection task.
LEMMA ConnectionTypes ==
  ASSUME TypeInv, Connection
  PROVE  ListTyped' /\ LinkTyped' /\ BrokerTyped'
<1> USE DEF TypeInv
<1>1. CASE ConnectClean
  BY <1>1
     DEF ConnectClean, ListTyped, LinkTyped, BrokerTyped, resultVars, agentVars,
         historyVars
<1>2. CASE ResumeSession
  <2>1. toBroker' \in Seq(Packets)
    <3>1. PICK order \in [1 .. Cardinality(Outstanding({"publish"}))
                             -> Outstanding({"publish"})] :
             toBroker' = [i \in DOMAIN order |-> Packet(order[i])]
      BY <1>2 DEF ResumeSession
    <3>2. \A i \in DOMAIN order : Packet(order[i]) \in Packets
      BY PacketTyped DEF Outstanding
    <3>3. toBroker' \in [1 .. Cardinality(Outstanding({"publish"})) -> Packets]
      BY <3>1, <3>2
    <3> QED
      BY <3>3, FiniteResent
  <2>2. registered' \subseteq Tasks
    BY <1>2, CompleteRegisters DEF ResumeSession, ListTyped
  <2> QED
    BY <1>2, <2>1, <2>2
       DEF ResumeSession, ListTyped, LinkTyped, BrokerTyped, historyVars
<1>3. CASE StartSession
  <2>1. registered' \subseteq Tasks
    BY <1>3, CompleteRegisters DEF StartSession, ListTyped
  <2> QED
    BY <1>3, <2>1 DEF StartSession, ListTyped, LinkTyped, BrokerTyped, historyVars
<1>4. CASE Resubscribe
  <2>1. /\ subArgs' = registered
        /\ UNCHANGED <<registered, refused, xCleanSession, posted, faults, connected>>
    BY <1>4 DEF Resubscribe, resultVars, historyVars
  <2>2. CASE conn' = "off" /\ Cut /\ UNCHANGED queue
    BY <2>1, <2>2, CutTyped DEF ListTyped, LinkTyped
  <2>3. CASE /\ conn' = "announce" /\ UNCHANGED brokerVars
             /\ \/ UNCHANGED queue
                \/ /\ queue' = Append(queue, Resubscription)
                   /\ Len(queue) # CommandQueueLength
    <3>1. Len(queue') <= CommandQueueLength
      <4>1. CASE UNCHANGED queue
        BY <4>1 DEF ListTyped
      <4>2. CASE queue' = Append(queue, Resubscription) /\ Len(queue) # CommandQueueLength
        <5>1. Len(queue) \in Nat /\ Len(queue') = Len(queue) + 1
          BY <4>2 DEF Typed
        <5> QED
          BY <4>2, <5>1, ConstantsAssumption DEF ListTyped, ConstantsAssumption
      <4> QED
        BY <2>3, <4>1, <4>2
    <3> QED
      BY <2>1, <2>3, <3>1 DEF ListTyped, LinkTyped, BrokerTyped, brokerVars
  <2> QED
    BY <1>4, <2>2, <2>3 DEF Resubscribe
<1>5. CASE Announce
  <2>1. posted' \in Seq({"Connected", "Disconnected"})
    BY <1>5 DEF Announce, LinkTyped
  <2> QED
    BY <1>5, <2>1
       DEF Announce, ListTyped, LinkTyped, BrokerTyped, resultVars, agentVars,
           brokerVars, historyVars
<1> QED
  BY <1>1, <1>2, <1>3, <1>4, <1>5 DEF Connection

\* The event loop, the broker and the network.
LEMMA OutsideTypes ==
  ASSUME TypeInv, HandleEvent \/ Broker \/ LinkBreaks \/ SessionExpires
  PROVE  ListTyped' /\ LinkTyped' /\ BrokerTyped'
<1> USE DEF TypeInv
<1>1. CASE HandleEvent
  <2>1. posted' \in Seq({"Connected", "Disconnected"})
    BY <1>1 DEF HandleEvent, LinkTyped
  <2>2. connected' \in BOOLEAN
    BY <1>1 DEF HandleEvent
  <2> QED
    BY <1>1, <2>1, <2>2
       DEF HandleEvent, ListTyped, LinkTyped, BrokerTyped, resultVars, agentVars,
           brokerVars, historyVars
<1>2. ASSUME UNCHANGED netUnchanged, BrokerTyped', link' \in BOOLEAN,
             faults' \in 0 .. MaxFaults
      PROVE  ListTyped' /\ LinkTyped' /\ BrokerTyped'
  BY <1>2 DEF netUnchanged, ListTyped, LinkTyped, resultVars, agentVars, connVars
<1>3. CASE Broker
  <2> DEFINE p == Head(toBroker)
  <2>1. /\ toBroker # <<>> /\ toBroker' = Tail(toBroker)
        /\ UNCHANGED <<netUnchanged, link, session>>
        /\ UNCHANGED faults \/ SpendFault
    BY <1>3 DEF Broker, BrokerSubscribes, BrokerUnsubscribes, BrokerPublishes
  <2>2. p \in Packets /\ toBroker' \in Seq(Packets)
    BY <2>1 DEF BrokerTyped
  <2> HIDE DEF p
  <2>3. p.filters \subseteq Tasks /\ (p.type # "resubscribe" => p.owner \in Tasks)
    BY <2>2, PacketFields
  <2>4. /\ subs' \subseteq Tasks /\ unechoed' \subseteq Tasks
        /\ toDevice' \in Seq(Packets)
    <3>1. ASSUME NEW refusal \in SUBSET Tasks, BrokerSubscribes(refusal)
          PROVE  /\ subs' \subseteq Tasks /\ unechoed' \subseteq Tasks
                 /\ toDevice' \in Seq(Packets)
      <4>1. /\ p.type \in {"subscribe", "resubscribe"}
            /\ subs' = subs \cup (p.filters \ refusal) /\ UNCHANGED unechoed
            /\ toDevice' = Append(toDevice, Reply(p.type, p, refusal))
        BY <3>1 DEF BrokerSubscribes, p
      <4>2. Reply(p.type, p, refusal) \in Packets
        BY <2>2, <3>1, <4>1 DEF Reply, Packets, CommandStages
      <4> QED
        BY <2>3, <4>1, <4>2 DEF BrokerTyped
    <3>2. CASE BrokerUnsubscribes
      <4>1. /\ p.type = "unsubscribe"
            /\ subs' = subs \ p.filters /\ UNCHANGED unechoed
            /\ toDevice' = Append(toDevice, Reply(p.type, p, {}))
        BY <3>2 DEF BrokerUnsubscribes, p
      <4>2. Reply(p.type, p, {}) \in Packets
        BY <2>3, <4>1 DEF Reply, Packets, CommandStages
      <4> QED
        BY <4>1, <4>2 DEF BrokerTyped
    <3>3. CASE BrokerPublishes
      <4> DEFINE ack  == Reply("publish", p, {})
                 echo == Reply("echo", p, {})
      <4>1. /\ p.type = "publish" /\ UNCHANGED subs
            /\ \/ /\ UNCHANGED unechoed
                  /\ \/ toDevice' = toDevice \o <<ack, echo>>
                     \/ toDevice' = toDevice \o <<echo, ack>>
               \/ /\ toDevice' = Append(toDevice, ack)
                  /\ unechoed' = unechoed \cup {p.owner}
        BY <3>3 DEF BrokerPublishes, p
      <4>2. ack \in Packets /\ echo \in Packets /\ p.owner \in Tasks
        BY <2>3, <4>1 DEF Reply, Packets, CommandStages
      <4> HIDE DEF ack, echo
      <4>3. <<ack, echo>> \in Seq(Packets) /\ <<echo, ack>> \in Seq(Packets)
        BY <4>2
      <4>4. toDevice' \in Seq(Packets)
        <5>1. /\ Append(toDevice, ack) \in Seq(Packets)
              /\ toDevice \o <<ack, echo>> \in Seq(Packets)
              /\ toDevice \o <<echo, ack>> \in Seq(Packets)
          BY <4>2, <4>3, AppendProperties, ConcatProperties DEF BrokerTyped
        <5> QED
          BY <4>1, <5>1, Zenon
      <4> QED
        BY <4>1, <4>2, <4>4 DEF BrokerTyped
    <3> QED
      BY <1>3, <3>1, <3>2, <3>3 DEF Broker
  <2>5. BrokerTyped'
    BY <2>1, <2>2, <2>4 DEF BrokerTyped
  <2>6. link' \in BOOLEAN /\ faults' \in 0 .. MaxFaults
    BY <2>1, FaultSpent DEF LinkTyped
  <2> QED
    BY <1>2, <2>1, <2>5, <2>6
<1>4. CASE LinkBreaks
  BY <1>2, <1>4, CutTyped, FaultSpent DEF LinkBreaks, LinkTyped
<1>5. CASE SessionExpires
  <2>1. BrokerTyped'
    <3>1. \A i \in Undelivered : toDevice[i].owner \in Tasks
      <4> SUFFICES ASSUME NEW i \in Undelivered PROVE toDevice[i].owner \in Tasks
        OBVIOUS
      <4>1. toDevice[i] \in Packets /\ toDevice[i].type = "echo"
        BY DEF Undelivered, IsPublish, BrokerTyped
      <4> QED
        BY <4>1, PacketFields
    <3> QED
      BY <1>5, <3>1 DEF SessionExpires, LoseSession, BrokerTyped
  <2>2. UNCHANGED netUnchanged /\ link' \in BOOLEAN /\ faults' \in 0 .. MaxFaults
    BY <1>5, FaultSpent DEF SessionExpires, LinkTyped
  <2> QED
    BY <1>2, <2>1, <2>2
<1> QED
  BY <1>1, <1>3, <1>4, <1>5

LEMMA TypeInit == Init => TypeInv
<1> SUFFICES ASSUME Init PROVE TypeInv
  OBVIOUS
<1>1. ListTyped /\ BrokerTyped
  BY ConstantsAssumption DEF ConstantsAssumption, Init, ListTyped, BrokerTyped
<1>2. connected \in BOOLEAN /\ xCleanSession \in BOOLEAN /\ link \in BOOLEAN
  BY Zenon DEF Init
<1>3. /\ conn \in {"off", "resubscribe", "announce", "on"}
      /\ posted \in Seq({"Connected", "Disconnected"})
      /\ faults \in 0 .. MaxFaults
  BY ConstantsAssumption DEF ConstantsAssumption, Init
<1>4. LinkTyped
  BY <1>2, <1>3, Zenon DEF LinkTyped
<1> QED
  BY <1>1, <1>4, InvInit DEF TypeInv

LEMMA TypeStep == TypeInv /\ [Next]_vars => TypeInv'
<1> SUFFICES ASSUME TypeInv, [Next]_vars PROVE TypeInv'
  OBVIOUS
<1>1. Typed' /\ Inv'
  BY InvStep DEF TypeInv
<1>2. CASE UNCHANGED vars
  BY <1>1, <1>2
     DEF vars, TypeInv, ListTyped, LinkTyped, BrokerTyped, resultVars, agentVars,
         connVars, brokerVars, historyVars
<1>3. CASE Next
  BY <1>1, <1>3, TaskTypes, AgentTypes, ConnectionTypes, OutsideTypes
     DEF Next, TypeInv
<1> QED
  BY <1>2, <1>3

\* Every variable keeps its type, and the command queue its capacity, whatever
\* the broker, the network and the other tasks do.
THEOREM TypeCorrect == Spec => []TypeOK
<1>1. TypeInv => TypeOK
  BY DEF TypeInv, Typed, ListTyped, LinkTyped, BrokerTyped, TypeOK
<1> QED
  BY TypeInit, TypeStep, <1>1, PTL DEF Spec
=============================================================================
