------------------------------ MODULE OtaAgent ------------------------------
(***************************************************************************)
(* The OTA agent (ota_over_mqtt_demo.c): the OTA task, which takes events  *)
(* from its queue one at a time, and the incoming publish callback that    *)
(* the coreMQTT-Agent task runs.  They share the data buffers, the single  *)
(* job document buffer and the event queue.                                *)
(*                                                                         *)
(* The cloud, the OTA PAL and the streams and jobs libraries are outside   *)
(* src/: they are modelled from the calls made to them.  A file position   *)
(* is counted in blocks, so totalBytesReceived and currentBlockOffset,     *)
(* which move together, are one variable.  Of otaAgentState the code only  *)
(* ever tests Stopped (taskPc = "stopped") and Suspended, which is never   *)
(* reached: nothing posts the Suspend event while the agent runs.          *)
(***************************************************************************)
EXTENDS Naturals, Integers, Sequences

CONSTANTS
    Jobs,         \* the OTA jobs the cloud may create
    Buffers,      \* dataBuffers
    NumBlocks,    \* blocks in a firmware image
    FileId,       \* the file ID every job document carries
    QueueLength,  \* capacity of the OTA event queue
    MaxInbound,   \* bound: messages between the broker and the device
    MaxFaults,    \* bound: faults of one run
    FaultKinds,   \* the faults a run may suffer
    NoJob, NoBuffer, Hole

AllFaults == {"link", "publish", "subscribe", "redeliver",
              "create", "write", "activate"}

ASSUME ConstantsAssumption ==
    /\ NumBlocks \in Nat \ {0}
    /\ FileId \in Nat
    /\ QueueLength \in Nat \ {0}
    /\ MaxInbound \in Nat \ {0}
    /\ MaxFaults \in Nat
    /\ FaultKinds \subseteq AllFaults
    /\ NoJob \notin Jobs
    /\ NoBuffer \notin Buffers

VARIABLES
    taskPc,                \* where prvOTADemoTask is
    current,               \* recvEvent
    events,                \* the OTA event queue
    lastRecvEventId,
    xSuspendOta,           \* TRUE while the coreMQTT-Agent is disconnected
    bufferUsed,            \* dataBuffers[ b ].bufferUsed
    bufferData,            \* dataBuffers[ b ].data
    callbackBuffer,        \* dataBuf of vOTAProcessMessage
    jobDocBuffer,          \* the job whose document the buffer holds
    globalJobId,
    jobFields,             \* the job parsed and the job its signature is of
    stream,                \* the job whose stream the downloader is set up for
    numOfBlocksRemaining,
    currentBlockOffset,
    lastReceivedblockId,
    fileOpen,              \* PAL: a file was created and is not closed
    file,                  \* PAL: the block written at each position
    verified,              \* PAL: the image that passed CloseFile
    running,               \* PAL: the image the device runs
    session,               \* "new": not connected yet, "clean", "kept"
    notifySubscribed,      \* broker: notify-next is subscribed
    streamSubscribed,      \* broker: the jobs whose stream data topic is
    inbound,               \* broker to device
    serverJob,             \* cloud: the job pending for the thing
    offered,               \* cloud: the jobs created so far
    succeeded,             \* cloud: the jobs reported SUCCEEDED
    faults

taskVars     == <<taskPc, current, lastRecvEventId>>
bufferVars   == <<bufferUsed, bufferData, callbackBuffer>>
jobVars      == <<globalJobId, jobFields, stream>>
progressVars == <<numOfBlocksRemaining, currentBlockOffset, lastReceivedblockId>>
palVars      == <<fileOpen, file, verified, running>>
cloudVars    == <<serverJob, offered, succeeded>>
sessionVars  == <<xSuspendOta, session, notifySubscribed, streamSubscribed>>
netVars      == <<sessionVars, inbound>>
vars == <<taskVars, events, bufferVars, jobDocBuffer, jobVars, progressVars,
          palVars, cloudVars, netVars, faults>>

EventIds == {"RequestJobDocument", "ReceivedJobDocument", "RequestFileBlock",
             "ReceivedFileBlock", "CloseFile", "ActivateImage"}
BlockIds == 0 .. NumBlocks - 1
MaybeJob == Jobs \cup {NoJob}

Event(id) == [id |-> id, buffer |-> NoBuffer]
NoEvent   == Event("Start")
ZeroedFields == [job |-> NoJob, signature |-> NoJob]
EmptyFile == [i \in BlockIds |-> Hole]

Doc(j)      == [kind |-> "doc", job |-> j, block |-> 0]
Block(j, b) == [kind |-> "block", job |-> j, block |-> b]
Messages    == [kind : {"doc"}, job : MaybeJob, block : {0}]
                 \cup [kind : {"block"}, job : Jobs, block : BlockIds]

ASSUME HoleAssumption == Hole \notin Messages

-----------------------------------------------------------------------------
(* A device that has booted: every static variable has its initial value,  *)
(* the task has posted its first event and waits for the connection.       *)

Init ==
    /\ taskPc = "start"
    /\ current = NoEvent
    /\ events = <<Event("RequestJobDocument")>>
    /\ lastRecvEventId = "Start"
    /\ xSuspendOta = TRUE
    /\ session = "new"
    /\ notifySubscribed = FALSE
    /\ streamSubscribed = {}
    /\ bufferUsed = [b \in Buffers |-> FALSE]
    /\ bufferData = [b \in Buffers |-> Doc(NoJob)]
    /\ callbackBuffer = NoBuffer
    /\ jobDocBuffer = NoJob
    /\ globalJobId = NoJob
    /\ jobFields = ZeroedFields
    /\ stream = NoJob
    /\ numOfBlocksRemaining = 0
    /\ currentBlockOffset = 0
    /\ lastReceivedblockId = -1
    /\ fileOpen = FALSE
    /\ file = EmptyFile
    /\ verified = NoJob
    /\ inbound = <<>>
    /\ running = NoJob
    /\ serverJob \in MaybeJob
    /\ offered = {serverJob} \ {NoJob}
    /\ succeeded = {}
    /\ faults = 0

-----------------------------------------------------------------------------
Fault(kind) == kind \in FaultKinds /\ faults < MaxFaults /\ faults' = faults + 1

(* OtaSendEvent_FreeRTOS never waits for room: it fails on a full queue.    *)
HasRoom == Len(events) < QueueLength

(* Mutant: a send that does not notice that the queue is full.              *)
SendAnyway(e) == events' = Append(events, e)

Send(e) == events' = IF HasRoom THEN Append(events, e) ELSE events

(* The broker's answers, dropped when too much is already on its way.       *)
Deliver(m) == inbound' = IF Len(inbound) < MaxInbound THEN Append(inbound, m)
                                                      ELSE inbound

(* prvMQTTPublish waits for the agent, for ever while it is disconnected,  *)
(* and may end with an error.                                              *)
Published     == ~xSuspendOta /\ UNCHANGED faults
PublishFailed == Fault("publish") /\ UNCHANGED inbound

Handling(id) == taskPc = "handle" /\ current.id = id
Handled      == taskPc' = "idle" /\ current' = NoEvent /\ UNCHANGED lastRecvEventId

-----------------------------------------------------------------------------
(* The OTA task.                                                           *)

(* The results of the two subscriptions are ignored, and unlike those of   *)
(* the other demos they are not in the list the agent manager resubscribes *)
(* from: prvCommandCallback does not call addSubscription.                 *)
TaskSubscribeNotifyNext ==
    /\ taskPc = "start" /\ ~xSuspendOta
    /\ \/ notifySubscribed' = TRUE /\ UNCHANGED faults
       \/ Fault("subscribe") /\ UNCHANGED notifySubscribed
    /\ taskPc' = "idle"
    /\ UNCHANGED <<current, lastRecvEventId, events, bufferVars, jobDocBuffer,
                   jobVars, progressVars, palVars, cloudVars, xSuspendOta,
                   session, streamSubscribed, inbound>>

ReceiveEvent ==
    /\ taskPc = "idle" /\ events # <<>>
    /\ current' = Head(events)
    /\ lastRecvEventId' = Head(events).id
    /\ events' = Tail(events)
    /\ taskPc' = "handle"
    /\ UNCHANGED <<bufferVars, jobDocBuffer, jobVars, progressVars, palVars,
                   cloudVars, netVars, faults>>

(* Mutant: a timeout, too, is recorded in lastRecvEventId.                  *)
ReceiveTimesOutRecorded ==
    /\ taskPc = "idle" /\ events = <<>>
    /\ lastRecvEventId = "RequestFileBlock"
    /\ lastRecvEventId' = "Start"
    /\ current' = Event("RequestFileBlock")
    /\ taskPc' = "waitResume"
    /\ UNCHANGED <<events, bufferVars, jobDocBuffer, jobVars, progressVars,
                   palVars, cloudVars, netVars, faults>>

(* The receive timed out.  Only after a RequestFileBlock event is the      *)
(* request sent again, once the connection is up.                          *)
ReceiveTimesOut ==
    /\ taskPc = "idle" /\ events = <<>>
    /\ lastRecvEventId = "RequestFileBlock"
    /\ current' = Event("RequestFileBlock")
    /\ taskPc' = "waitResume"
    /\ UNCHANGED <<lastRecvEventId, events, bufferVars, jobDocBuffer, jobVars,
                   progressVars, palVars, cloudVars, netVars, faults>>

WaitForResume ==
    /\ taskPc = "waitResume" /\ ~xSuspendOta
    /\ taskPc' = "handle"
    /\ UNCHANGED <<current, lastRecvEventId, events, bufferVars, jobDocBuffer,
                   jobVars, progressVars, palVars, cloudVars, netVars, faults>>

RequestJobDocument ==
    /\ Handling("RequestJobDocument")
    /\ \/ Published /\ Deliver(Doc(serverJob))
       \/ PublishFailed
    /\ Handled
    /\ UNCHANGED <<events, bufferVars, jobDocBuffer, jobVars, progressVars,
                   palVars, cloudVars, sessionVars>>

(* A document without a job, or of the job already known: jobFields is     *)
(* zeroed in either case.                                                  *)
JobDocumentNotNew ==
    /\ Handling("ReceivedJobDocument")
    /\ jobDocBuffer \in {NoJob, globalJobId}
    /\ jobFields' = ZeroedFields
    /\ IF jobDocBuffer = NoJob THEN UNCHANGED events
                               ELSE Send(Event("RequestFileBlock"))
    /\ Handled
    /\ UNCHANGED <<bufferVars, jobDocBuffer, globalJobId, stream, progressVars,
                   palVars, cloudVars, netVars, faults>>

(* Mutant: currentBlockOffset is not reset for a new job.                   *)
ParseJobDocumentKeepsOffset ==
    /\ Handling("ReceivedJobDocument")
    /\ jobDocBuffer \notin {NoJob, globalJobId}
    /\ globalJobId' = jobDocBuffer
    /\ jobFields' = [job |-> jobDocBuffer, signature |-> NoJob]
    /\ stream' = jobDocBuffer
    /\ numOfBlocksRemaining' = NumBlocks
    /\ taskPc' = "subscribe"
    /\ UNCHANGED <<current, lastRecvEventId, events, bufferVars, jobDocBuffer,
                   currentBlockOffset, lastReceivedblockId, palVars,
                   cloudVars, netVars, faults>>

(* initMqttDownloader, up to its subscribe.  The parsed signature points   *)
(* into the job document buffer.                                           *)
ParseJobDocument ==
    /\ Handling("ReceivedJobDocument")
    /\ jobDocBuffer \notin {NoJob, globalJobId}
    /\ globalJobId' = jobDocBuffer
    /\ jobFields' = [job |-> jobDocBuffer, signature |-> NoJob]
    /\ stream' = jobDocBuffer
    /\ numOfBlocksRemaining' = NumBlocks
    /\ currentBlockOffset' = 0
    /\ taskPc' = "subscribe"
    /\ UNCHANGED <<current, lastRecvEventId, events, bufferVars, jobDocBuffer,
                   lastReceivedblockId, palVars, cloudVars, netVars, faults>>

(* The subscribe waits for the agent.                                      *)
SubscribeStream ==
    /\ taskPc = "subscribe"
    /\ \/ /\ ~xSuspendOta /\ UNCHANGED faults
          /\ streamSubscribed' = streamSubscribed \cup {stream}
       \/ Fault("subscribe") /\ UNCHANGED streamSubscribed
    /\ taskPc' = "create"
    /\ UNCHANGED <<current, lastRecvEventId, events, bufferVars, jobDocBuffer,
                   jobVars, progressVars, palVars, cloudVars, xSuspendOta,
                   session, notifySubscribed, inbound>>

(* convertSignatureToDER reads the buffer again, which by now may hold the *)
(* document of another job; a document without a job is too short to reach *)
(* the signature.                                                          *)
SignatureRead == IF jobDocBuffer = NoJob THEN jobFields.job ELSE jobDocBuffer

CreateFile ==
    /\ taskPc = "create"
    /\ \/ /\ running # jobFields.job /\ UNCHANGED faults
          /\ fileOpen' = TRUE /\ file' = EmptyFile /\ verified' = NoJob
          /\ Send(Event("RequestFileBlock"))
          /\ Handled
       \/ /\ \/ running = jobFields.job /\ UNCHANGED faults
             \/ Fault("create")
          /\ fileOpen' = FALSE /\ file' = EmptyFile /\ verified' = NoJob
          /\ taskPc' = "reportSuccess"
          /\ UNCHANGED <<events, current, lastRecvEventId>>
    /\ jobFields' = [jobFields EXCEPT !.signature = SignatureRead]
    /\ UNCHANGED <<bufferVars, jobDocBuffer, globalJobId, stream, progressVars,
                   running, cloudVars, netVars>>

(* Base64 decoding may fail on a signature that was overwritten.           *)
SignatureUnreadable ==
    /\ taskPc = "create"
    /\ SignatureRead # jobFields.job
    /\ Handled
    /\ UNCHANGED <<events, bufferVars, jobDocBuffer, jobVars, progressVars,
                   palVars, cloudVars, netVars, faults>>

(* sendSuccessMessage, which forgets the job whether or not the update was *)
(* published.                                                              *)
ReportSuccess ==
    /\ taskPc = "reportSuccess"
    /\ \/ /\ Published
          /\ succeeded' = succeeded \cup {globalJobId}
          /\ serverJob' = IF serverJob = globalJobId THEN NoJob ELSE serverJob
       \/ Fault("publish") /\ UNCHANGED <<succeeded, serverJob>>
    /\ globalJobId' = NoJob
    /\ jobDocBuffer' = NoJob
    /\ taskPc' = "delay"
    /\ UNCHANGED <<current, lastRecvEventId, events, bufferVars, jobFields,
                   stream, progressVars, palVars, offered, netVars>>

DelayOver ==
    /\ taskPc = "delay"
    /\ Send(Event("RequestJobDocument"))
    /\ Handled
    /\ UNCHANGED <<bufferVars, jobDocBuffer, jobVars, progressVars, palVars,
                   cloudVars, netVars, faults>>

(* A stream answers a request for a block it has, on its data topic.       *)
RequestFileBlock ==
    /\ Handling("RequestFileBlock")
    /\ \/ /\ Published /\ UNCHANGED events
          /\ IF stream \in streamSubscribed /\ currentBlockOffset \in BlockIds
                THEN Deliver(Block(stream, currentBlockOffset))
                ELSE UNCHANGED inbound
       \/ PublishFailed /\ Send(Event("RequestFileBlock"))
    /\ Handled
    /\ UNCHANGED <<bufferVars, jobDocBuffer, jobVars, progressVars, palVars,
                   cloudVars, sessionVars>>

(* Mutant: the last block received is accepted again.                       *)
AcceptedAgain(block) ==
    /\ jobFields.job # NoJob \/ FileId = 0
    /\ block.block >= lastReceivedblockId

(* The block is written when its file ID is that of jobFields, 0 once they *)
(* are zeroed, and its number is above that of every block written before. *)
Accepted(block) ==
    /\ jobFields.job # NoJob \/ FileId = 0
    /\ block.block > lastReceivedblockId

FreeBuffer(b) == bufferUsed' = [bufferUsed EXCEPT ![b] = FALSE]

AfterBlock(remaining) ==
    Send(Event(IF remaining = 0 THEN "CloseFile" ELSE "RequestFileBlock"))

WriteBlock ==
    LET block == bufferData[current.buffer] IN
    /\ Handling("ReceivedFileBlock")
    /\ Accepted(block) /\ fileOpen
    /\ file' = [file EXCEPT ![currentBlockOffset] = block]
    /\ lastReceivedblockId' = block.block
    /\ FreeBuffer(current.buffer)
    /\ numOfBlocksRemaining' = numOfBlocksRemaining - 1
    /\ currentBlockOffset' = currentBlockOffset + 1
    /\ AfterBlock(numOfBlocksRemaining - 1)
    /\ Handled
    /\ UNCHANGED <<bufferData, callbackBuffer, jobDocBuffer, jobVars, fileOpen,
                   verified, running, cloudVars, netVars, faults>>

WriteBlockFails ==
    LET block == bufferData[current.buffer] IN
    /\ Handling("ReceivedFileBlock")
    /\ Accepted(block)
    /\ \/ ~fileOpen /\ UNCHANGED faults
       \/ Fault("write")
    /\ lastReceivedblockId' = block.block
    /\ FreeBuffer(current.buffer)
    /\ AfterBlock(numOfBlocksRemaining)
    /\ Handled
    /\ UNCHANGED <<bufferData, callbackBuffer, jobDocBuffer, jobVars,
                   numOfBlocksRemaining, currentBlockOffset, palVars,
                   cloudVars, netVars>>

(* Mutant: an ignored block's buffer is not freed.                          *)
IgnoreBlockKeepsBuffer ==
    /\ Handling("ReceivedFileBlock")
    /\ ~Accepted(bufferData[current.buffer])
    /\ AfterBlock(numOfBlocksRemaining)
    /\ Handled
    /\ UNCHANGED <<bufferVars, jobDocBuffer, jobVars, progressVars, palVars,
                   cloudVars, netVars, faults>>

IgnoreBlock ==
    /\ Handling("ReceivedFileBlock")
    /\ ~Accepted(bufferData[current.buffer])
    /\ FreeBuffer(current.buffer)
    /\ AfterBlock(numOfBlocksRemaining)
    /\ Handled
    /\ UNCHANGED <<bufferData, callbackBuffer, jobDocBuffer, jobVars,
                   progressVars, palVars, cloudVars, netVars, faults>>

(* otaPal_CloseFile checks the file against the signature in jobFields.    *)
FileVerifies ==
    /\ fileOpen
    /\ jobFields.signature # NoJob
    /\ \A i \in BlockIds : file[i] = Block(jobFields.signature, i)

CloseFile ==
    /\ Handling("CloseFile")
    /\ IF FileVerifies
          THEN verified' = jobFields.signature /\ Send(Event("ActivateImage"))
          ELSE UNCHANGED <<verified, events>>
    /\ fileOpen' = FALSE /\ file' = EmptyFile
    /\ Handled
    /\ UNCHANGED <<bufferVars, jobDocBuffer, jobVars, progressVars, running,
                   cloudVars, netVars, faults>>

(* Activation resets the device: it boots the new image.                   *)
ActivateImage ==
    /\ Handling("ActivateImage")
    /\ verified # NoJob
    /\ running' = verified
    /\ taskPc' = "start"
    /\ current' = NoEvent
    /\ events' = <<Event("RequestJobDocument")>>
    /\ lastRecvEventId' = "Start"
    /\ xSuspendOta' = TRUE
    /\ session' = "new"
    /\ notifySubscribed' = FALSE
    /\ streamSubscribed' = {}
    /\ bufferUsed' = [b \in Buffers |-> FALSE]
    /\ bufferData' = [b \in Buffers |-> Doc(NoJob)]
    /\ callbackBuffer' = NoBuffer
    /\ jobDocBuffer' = NoJob
    /\ globalJobId' = NoJob
    /\ jobFields' = ZeroedFields
    /\ stream' = NoJob
    /\ numOfBlocksRemaining' = 0
    /\ currentBlockOffset' = 0
    /\ lastReceivedblockId' = -1
    /\ fileOpen' = FALSE
    /\ file' = EmptyFile
    /\ verified' = NoJob
    /\ inbound' = <<>>
    /\ UNCHANGED <<cloudVars, faults>>

(* When it fails the task ends: the state is Stopped.                      *)
ActivateImageFails ==
    /\ Handling("ActivateImage")
    /\ \/ verified = NoJob /\ UNCHANGED faults
       \/ Fault("activate")
    /\ taskPc' = "stopped"
    /\ current' = NoEvent
    /\ UNCHANGED <<lastRecvEventId, events, bufferVars, jobDocBuffer, jobVars,
                   progressVars, palVars, cloudVars, netVars>>

-----------------------------------------------------------------------------
(* vOTAProcessMessage, in the coreMQTT-Agent task.                         *)

Arrives(kind) ==
    /\ ~xSuspendOta /\ callbackBuffer = NoBuffer
    /\ inbound # <<>> /\ Head(inbound).kind = kind

(* Mutant: getOtaDataEventBuffer does not look at bufferUsed.               *)
AnyBuffer == Buffers

FreeBuffers == {b \in Buffers : ~bufferUsed[b]}

TakeBuffer ==
    /\ Arrives("block") /\ Head(inbound).job = stream
    /\ \E b \in FreeBuffers :
          /\ bufferUsed' = [bufferUsed EXCEPT ![b] = TRUE]
          /\ bufferData' = [bufferData EXCEPT ![b] = Head(inbound)]
          /\ callbackBuffer' = b
    /\ inbound' = Tail(inbound)
    /\ UNCHANGED <<taskVars, events, jobDocBuffer, jobVars, progressVars,
                   palVars, cloudVars, sessionVars, faults>>

(* Mutant: the result of OtaSendEvent_FreeRTOS is ignored.                  *)
QueueBlockUnchecked ==
    /\ callbackBuffer # NoBuffer
    /\ Send([id |-> "ReceivedFileBlock", buffer |-> callbackBuffer])
    /\ callbackBuffer' = NoBuffer
    /\ UNCHANGED <<taskVars, bufferUsed, bufferData, jobDocBuffer, jobVars,
                   progressVars, palVars, cloudVars, netVars, faults>>

QueueBlock ==
    /\ callbackBuffer # NoBuffer
    /\ Send([id |-> "ReceivedFileBlock", buffer |-> callbackBuffer])
    /\ IF HasRoom THEN UNCHANGED bufferUsed ELSE FreeBuffer(callbackBuffer)
    /\ callbackBuffer' = NoBuffer
    /\ UNCHANGED <<taskVars, bufferData, jobDocBuffer, jobVars, progressVars,
                   palVars, cloudVars, netVars, faults>>

(* No free buffer, or not the stream the downloader is set up for.         *)
DropBlock ==
    /\ Arrives("block")
    /\ Head(inbound).job # stream \/ FreeBuffers = {}
    /\ inbound' = Tail(inbound)
    /\ UNCHANGED <<taskVars, events, bufferVars, jobDocBuffer, jobVars,
                   progressVars, palVars, cloudVars, sessionVars, faults>>

(* start-next/accepted and notify-next.  A document of a job that is still *)
(* waiting in the buffer is overwritten.                                   *)
QueueJobDocument ==
    /\ Arrives("doc")
    /\ jobDocBuffer' = Head(inbound).job
    /\ Send(Event("ReceivedJobDocument"))
    /\ inbound' = Tail(inbound)
    /\ UNCHANGED <<taskVars, bufferVars, jobVars, progressVars, palVars,
                   cloudVars, sessionVars, faults>>

-----------------------------------------------------------------------------
(* The connection and the cloud.                                           *)

(* The first session is a clean one, which the broker forgets with its     *)
(* subscriptions when the connection ends; later ones are kept, and an     *)
(* unacknowledged notification (QoS 1) with them.                          *)
LinkDrops ==
    /\ ~xSuspendOta /\ Fault("link")
    /\ xSuspendOta' = TRUE
    /\ session' = "kept"
    /\ IF session = "clean"
          THEN notifySubscribed' = FALSE /\ streamSubscribed' = {}
          ELSE UNCHANGED <<notifySubscribed, streamSubscribed>>
    /\ \/ inbound' = <<>>
       \/ notifySubscribed' /\ serverJob # NoJob /\ inbound' = <<Doc(serverJob)>>
    /\ UNCHANGED <<taskVars, events, bufferVars, jobDocBuffer, jobVars,
                   progressVars, palVars, cloudVars>>

LinkComesUp ==
    /\ xSuspendOta
    /\ xSuspendOta' = FALSE
    /\ session' = IF session = "new" THEN "clean" ELSE session
    /\ UNCHANGED <<taskVars, events, bufferVars, jobDocBuffer, jobVars,
                   progressVars, palVars, cloudVars, notifySubscribed,
                   streamSubscribed, inbound, faults>>

(* A job is created and is the next one: the first, or in place of a job   *)
(* that is cancelled.  The broker notifies a subscribed device, and keeps  *)
(* the notification for a kept session.                                    *)
JobChanges ==
    \E j \in Jobs \ offered :
        /\ serverJob' = j
        /\ offered' = offered \cup {j}
        /\ IF notifySubscribed THEN Deliver(Doc(j)) ELSE UNCHANGED inbound
        /\ UNCHANGED <<taskVars, events, bufferVars, jobDocBuffer, jobVars,
                       progressVars, palVars, succeeded, sessionVars, faults>>

(* notify-next is subscribed with QoS 1: the broker may send it again.     *)
NotifyAgain ==
    /\ ~xSuspendOta /\ notifySubscribed /\ serverJob # NoJob
    /\ Fault("redeliver")
    /\ Deliver(Doc(serverJob))
    /\ UNCHANGED <<taskVars, events, bufferVars, jobDocBuffer, jobVars,
                   progressVars, palVars, cloudVars, sessionVars>>

-----------------------------------------------------------------------------
OtaTask ==
    \/ TaskSubscribeNotifyNext \/ ReceiveEvent \/ ReceiveTimesOut
    \/ WaitForResume \/ RequestJobDocument \/ JobDocumentNotNew
    \/ ParseJobDocument \/ SubscribeStream \/ CreateFile
    \/ SignatureUnreadable \/ ReportSuccess \/ DelayOver \/ RequestFileBlock
    \/ WriteBlock \/ WriteBlockFails \/ IgnoreBlock
    \/ CloseFile \/ ActivateImage \/ ActivateImageFails

Callback == TakeBuffer \/ QueueBlock \/ DropBlock \/ QueueJobDocument

Next == OtaTask \/ Callback \/ LinkDrops \/ LinkComesUp \/ JobChanges \/ NotifyAgain

Spec == Init /\ [][Next]_vars

(* FreeRTOS runs both tasks, and the agent manager reconnects for ever.    *)
FairSpec == Spec /\ WF_vars(OtaTask) /\ WF_vars(Callback) /\ WF_vars(LinkComesUp)

-----------------------------------------------------------------------------
QueuedEvents ==
    [id : {"ReceivedFileBlock"}, buffer : Buffers]
      \cup [id : EventIds \ {"ReceivedFileBlock"}, buffer : {NoBuffer}]

TaskTypeOK ==
    /\ taskPc \in {"start", "idle", "waitResume", "handle", "subscribe",
                   "create", "reportSuccess", "delay", "stopped"}
    /\ current \in QueuedEvents \cup {NoEvent}
    /\ lastRecvEventId \in EventIds \cup {"Start"}
    /\ faults \in 0 .. MaxFaults
QueueTypeOK ==
    /\ events \in Seq(QueuedEvents)
    /\ Len(events) <= QueueLength
BufferTypeOK ==
    /\ bufferUsed \in [Buffers -> BOOLEAN]
    /\ bufferData \in [Buffers -> Messages]
    /\ callbackBuffer \in Buffers \cup {NoBuffer}
JobTypeOK ==
    /\ jobDocBuffer \in MaybeJob
    /\ globalJobId \in MaybeJob
    /\ jobFields \in [job : MaybeJob, signature : MaybeJob]
    /\ stream \in MaybeJob
ProgressTypeOK ==
    /\ numOfBlocksRemaining \in 0 .. NumBlocks
    /\ currentBlockOffset \in 0 .. NumBlocks
    /\ lastReceivedblockId \in -1 .. NumBlocks - 1
PalTypeOK ==
    /\ fileOpen \in BOOLEAN
    /\ file \in [BlockIds -> Messages \cup {Hole}]
    /\ verified \in MaybeJob
    /\ running \in MaybeJob
CloudTypeOK ==
    /\ xSuspendOta \in BOOLEAN
    /\ session \in {"new", "clean", "kept"}
    /\ notifySubscribed \in BOOLEAN
    /\ streamSubscribed \subseteq Jobs
    /\ inbound \in Seq(Messages)
    /\ serverJob \in MaybeJob
    /\ offered \subseteq Jobs
    /\ succeeded \subseteq MaybeJob

(* Every variable keeps its type, the event queue its capacity and the     *)
(* 32-bit block counters their range: numOfBlocksRemaining is never        *)
(* decremented below zero, nor a block written past the end of the file.   *)
TypeOK ==
    /\ TaskTypeOK /\ QueueTypeOK /\ BufferTypeOK /\ JobTypeOK
    /\ ProgressTypeOK /\ PalTypeOK /\ CloudTypeOK

QueuedBuffers == {events[i].buffer : i \in DOMAIN events} \ {NoBuffer}

(* A data buffer has one owner: the callback between taking and queueing   *)
(* it, one event in the queue, or the OTA task while it handles that       *)
(* event.  An owned buffer is marked used, so no other block is copied     *)
(* over it.                                                                *)
BufferOwnership ==
    /\ QueuedBuffers \cup ({current.buffer, callbackBuffer} \ {NoBuffer})
          \subseteq {b \in Buffers : bufferUsed[b]}
    /\ current.buffer = callbackBuffer => current.buffer = NoBuffer
    /\ QueuedBuffers \cap {current.buffer, callbackBuffer} = {}
    /\ \A i, j \in DOMAIN events :
          events[i].buffer = events[j].buffer /\ events[i].buffer # NoBuffer
             => i = j

(* A used buffer has an owner that will free it: none is leaked, whatever  *)
(* is dropped, ignored or fails.                                           *)
NoBufferLeaked ==
    \A b \in Buffers :
        bufferUsed[b] => b \in QueuedBuffers \cup {current.buffer, callbackBuffer}

(* The log line "Downloaded block %lu of %lu" adds currentBlockOffset and  *)
(* numOfBlocksRemaining: once a job is accepted they add up to the file,   *)
(* through retries, duplicates, failed writes and changes of job.          *)
BlocksAccountedFor ==
    stream # NoJob => currentBlockOffset + numOfBlocksRemaining = NumBlocks

(* No duplicate, late or skipped block of the job being downloaded is ever *)
(* written at another position than its own.                               *)
BlocksLandInPlace ==
    \A i \in BlockIds :
        file[i] # Hole /\ file[i].job = stream => file[i].block = i

(* While a block is outstanding something will bring the next one: an      *)
(* event in hand or in the queue, a block on its way, or a receive timeout *)
(* that requests again (the comment at the resend).                        *)
Downloading(j) == globalJobId = j /\ stream = j /\ running # j
OutstandingBlockRetried ==
    (\E j \in Jobs : Downloading(j)) /\ numOfBlocksRemaining > 0
       /\ taskPc = "idle" /\ events = <<>> /\ callbackBuffer = NoBuffer
       /\ inbound = <<>>
     => lastRecvEventId = "RequestFileBlock"

(* A block that is about to be written is of the job being downloaded, as  *)
(* the comment on the file ID check has it ("the file ID doesn't match     *)
(* with the one we received in the job document").                         *)
BlocksOfCurrentJobOnly ==
    LET block == bufferData[current.buffer] IN
    Handling("ReceivedFileBlock") /\ Accepted(block) => block.job = stream

(* The first CloseFile of a download finds the whole image in the file,    *)
(* each block once and in its place, after any retries and duplicates.     *)
ClosedFileIsComplete ==
    Handling("CloseFile") /\ verified = NoJob
       /\ jobFields.signature = globalJobId
     => FileVerifies

(* A download whose stream the broker has subscribed reaches its last      *)
(* block, through lost and late blocks and failed requests, unless another *)
(* job takes its place or the subscription is lost.                        *)
SubscribedDownload(j) == Downloading(j) /\ j \in streamSubscribed
SubscribedDownloadCompletes ==
    \A j \in Jobs :
        SubscribedDownload(j)
          ~> currentBlockOffset = NumBlocks \/ ~SubscribedDownload(j)

(* A job whose notification made the agent set up its stream is downloaded *)
(* to the last block, unless another job takes its place.                  *)
DownloadCompletes ==
    \A j \in Jobs :
        Downloading(j) ~> currentBlockOffset = NumBlocks \/ ~Downloading(j)

(* Once every block is downloaded the device runs the new image, unless    *)
(* another job takes the job's place.                                      *)
RebootsIntoNewImage ==
    \A j \in Jobs :
        Downloading(j) /\ numOfBlocksRemaining = 0 ~> ~Downloading(j)
=============================================================================
