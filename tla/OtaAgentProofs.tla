------------------------------ MODULE OtaAgentProofs ------------------------------
(***************************************************************************)
(* What holds of the OTA agent for every number of jobs, blocks, buffers,  *)
(* queue slots and faults.                                                 *)
(***************************************************************************)
EXTENDS OtaAgent, TLAPS

-----------------------------------------------------------------------------
(* The steps every action is made of.                                      *)

\* OtaSendEvent_FreeRTOS keeps the queue within its capacity.
LEMMA SendTyped ==
  ASSUME QueueTypeOK, NEW e \in QueuedEvents, Send(e)
  PROVE  QueueTypeOK'
BY ConstantsAssumption DEF ConstantsAssumption, QueueTypeOK, Send, HasRoom

\* The event a handler makes is one of OtaEvents, whatever it carries.
LEMMA EventTyped ==
  ASSUME NEW id \in EventIds \ {"ReceivedFileBlock"}
  PROVE  Event(id) \in QueuedEvents
BY DEF Event, QueuedEvents

\* A message put into the inbound queue keeps it within its bound.
LEMMA DeliverTyped ==
  ASSUME inbound \in Seq(Messages), NEW m \in Messages, Deliver(m)
  PROVE  inbound' \in Seq(Messages)
BY DEF Deliver

\* One message on its way is a sequence of messages, and so is none.
LEMMA OneMessage ==
  /\ <<>> \in Seq(Messages)
  /\ \A m \in Messages : <<m>> \in Seq(Messages)
OBVIOUS

\* What is taken from a queue is of the type of what was put into it.
LEMMA MessageArrives ==
  ASSUME inbound \in Seq(Messages), NEW kind, Arrives(kind)
  PROVE  Head(inbound) \in Messages /\ Head(inbound).job \in MaybeJob
<1>1. Head(inbound) \in Messages
  BY DEF Arrives
<1> QED
  BY <1>1 DEF Messages, MaybeJob

\* The head of the event queue is an event.
LEMMA HeadEventTyped ==
  ASSUME QueueTypeOK, events # <<>>
  PROVE  /\ Head(events) \in QueuedEvents /\ Head(events).id \in EventIds
         /\ Tail(events) \in Seq(QueuedEvents)
         /\ Len(events) \in Nat /\ Len(Tail(events)) = Len(events) - 1
<1>1. Head(events) \in QueuedEvents
  BY DEF QueueTypeOK
<1>2. /\ Tail(events) \in Seq(QueuedEvents)
      /\ Len(events) \in Nat /\ Len(Tail(events)) = Len(events) - 1
  BY DEF QueueTypeOK
<1> QED
  BY <1>1, <1>2 DEF QueuedEvents, EventIds

\* The head of the inbound queue is a message.
LEMMA MessageTyped ==
  ASSUME NEW j \in MaybeJob
  PROVE  /\ Doc(j) \in Messages
         /\ \A k \in Jobs, b \in BlockIds : Block(k, b) \in Messages
BY DEF Doc, Block, Messages

\* A fault spends one unit of the budget and never overdraws it.
LEMMA FaultTyped ==
  ASSUME faults \in 0 .. MaxFaults, NEW kind, Fault(kind)
  PROVE  faults' \in 0 .. MaxFaults
BY ConstantsAssumption DEF ConstantsAssumption, Fault

\* A buffer found free is one of the buffers.
LEMMA FreeBufferTyped ==
  ASSUME bufferUsed \in [Buffers -> BOOLEAN], NEW b, FreeBuffer(b)
  PROVE  bufferUsed' \in [Buffers -> BOOLEAN]
BY DEF FreeBuffer

\* The block an event carries is one of the file's.
LEMMA BlockInHand ==
  ASSUME TypeOK, Handling("ReceivedFileBlock")
  PROVE  /\ current.buffer \in Buffers
         /\ bufferData[current.buffer] \in Messages
         /\ bufferData[current.buffer].block \in BlockIds
<1>1. current.buffer \in Buffers
  BY DEF TypeOK, TaskTypeOK, Handling, QueuedEvents, NoEvent, Event
<1>2. bufferData[current.buffer] \in Messages
  BY <1>1 DEF TypeOK, BufferTypeOK
<1> QED
  BY <1>1, <1>2, ConstantsAssumption DEF ConstantsAssumption, Messages,
     BlockIds

-----------------------------------------------------------------------------
(* The counters of the download: a block is only written past the last one *)
(* (Headroom), into a file that belongs to a job.                          *)
Headroom ==
    /\ currentBlockOffset <= lastReceivedblockId + 1
    /\ fileOpen \/ taskPc \in {"subscribe", "create"} => stream # NoJob

TypeInv == TypeOK /\ BlocksAccountedFor /\ Headroom

\* The boot state is typed, whatever job the cloud has for the thing.
LEMMA InitTyped == Init => TypeInv
<1> SUFFICES ASSUME Init PROVE TypeInv
  OBVIOUS
<1> USE ConstantsAssumption DEF ConstantsAssumption, Init
<1>1. TaskTypeOK
  BY DEF TaskTypeOK, NoEvent, Event
<1>2. QueueTypeOK
  BY EventTyped DEF QueueTypeOK, EventIds
<1>3. BufferTypeOK
  BY MessageTyped DEF BufferTypeOK, MaybeJob
<1>4. JobTypeOK
  BY DEF JobTypeOK, ZeroedFields, MaybeJob
<1>5. ProgressTypeOK
  BY DEF ProgressTypeOK
<1>6. PalTypeOK
  BY DEF PalTypeOK, EmptyFile, MaybeJob
<1>7. CloudTypeOK
  <2>1. xSuspendOta \in BOOLEAN /\ notifySubscribed \in BOOLEAN
    BY Zenon
  <2>2. /\ session \in {"new", "clean", "kept"} /\ streamSubscribed \subseteq Jobs
        /\ inbound \in Seq(Messages) /\ serverJob \in MaybeJob
        /\ offered \subseteq Jobs /\ succeeded \subseteq MaybeJob
    BY DEF MaybeJob
  <2> QED
    BY <2>1, <2>2 DEF CloudTypeOK
<1>8. BlocksAccountedFor /\ Headroom
  BY DEF BlocksAccountedFor, Headroom
<1> QED
  BY <1>1, <1>2, <1>3, <1>4, <1>5, <1>6, <1>7, <1>8 DEF TypeInv, TypeOK

\* Every step keeps the types and the counters.
LEMMA TypeStep == TypeInv /\ [Next]_vars => TypeInv'
<1> SUFFICES ASSUME TypeInv, [Next]_vars
             PROVE  TypeInv'
  OBVIOUS
<1> USE DEF TypeInv, TypeOK
<1>1. CASE TaskSubscribeNotifyNext
  <2> USE <1>1 DEF TaskSubscribeNotifyNext
  <2>1. TaskTypeOK'
    BY FaultTyped DEF TaskTypeOK, taskVars, EventIds, NoEvent, Event,
       QueuedEvents
  <2>2. CloudTypeOK'
    BY DEF CloudTypeOK, cloudVars
  <2>3. BlocksAccountedFor' /\ Headroom'
    BY DEF BlocksAccountedFor, Headroom, taskVars, jobVars, progressVars,
       palVars
  <2> QED
    BY <2>1, <2>2, <2>3 DEF QueueTypeOK, BufferTypeOK, JobTypeOK,
       ProgressTypeOK, PalTypeOK, taskVars, bufferVars, jobVars,
       progressVars, palVars
<1>2. CASE ReceiveEvent
  <2> USE <1>2 DEF ReceiveEvent
  <2>1. TaskTypeOK'
    BY HeadEventTyped DEF TaskTypeOK, taskVars
  <2>2. QueueTypeOK'
    BY HeadEventTyped, ConstantsAssumption DEF QueueTypeOK, ConstantsAssumption
  <2>3. BlocksAccountedFor' /\ Headroom'
    BY DEF BlocksAccountedFor, Headroom, taskVars, jobVars, progressVars,
       palVars
  <2> QED
    BY <2>1, <2>2, <2>3 DEF BufferTypeOK, JobTypeOK, ProgressTypeOK,
       PalTypeOK, CloudTypeOK, taskVars, bufferVars, jobVars, progressVars,
       palVars, cloudVars, netVars, sessionVars
<1>3. CASE ReceiveTimesOut
  <2> USE <1>3 DEF ReceiveTimesOut
  <2>1. TaskTypeOK'
    BY DEF TaskTypeOK, taskVars, EventIds, NoEvent, Event, QueuedEvents
  <2>2. BlocksAccountedFor' /\ Headroom'
    BY DEF BlocksAccountedFor, Headroom, taskVars, jobVars, progressVars,
       palVars
  <2> QED
    BY <2>1, <2>2 DEF QueueTypeOK, BufferTypeOK, JobTypeOK, ProgressTypeOK,
       PalTypeOK, CloudTypeOK, taskVars, bufferVars, jobVars, progressVars,
       palVars, cloudVars, netVars, sessionVars
<1>4. CASE WaitForResume
  <2> USE <1>4 DEF WaitForResume
  <2>1. TaskTypeOK'
    BY DEF TaskTypeOK, taskVars, EventIds, NoEvent, Event, QueuedEvents
  <2>2. BlocksAccountedFor' /\ Headroom'
    BY DEF BlocksAccountedFor, Headroom, taskVars, jobVars, progressVars,
       palVars
  <2> QED
    BY <2>1, <2>2 DEF QueueTypeOK, BufferTypeOK, JobTypeOK, ProgressTypeOK,
       PalTypeOK, CloudTypeOK, taskVars, bufferVars, jobVars, progressVars,
       palVars, cloudVars, netVars, sessionVars
<1>5. CASE RequestJobDocument
  <2> USE <1>5 DEF RequestJobDocument
  <2>1. TaskTypeOK'
    BY FaultTyped DEF TaskTypeOK, taskVars, EventIds, NoEvent, Event,
       QueuedEvents, Handled, Published, PublishFailed
  <2>2. CloudTypeOK'
    BY DeliverTyped, MessageTyped DEF CloudTypeOK, MaybeJob, BlockIds,
       Published, PublishFailed, netVars, sessionVars, cloudVars
  <2>3. BlocksAccountedFor' /\ Headroom'
    BY DEF BlocksAccountedFor, Headroom, taskVars, jobVars, progressVars,
       palVars, Handled, NoEvent, Event, Handling
  <2> QED
    BY <2>1, <2>2, <2>3 DEF QueueTypeOK, BufferTypeOK, JobTypeOK,
       ProgressTypeOK, PalTypeOK, taskVars, bufferVars, jobVars,
       progressVars, palVars, cloudVars, netVars, sessionVars
<1>6. CASE JobDocumentNotNew
  <2> USE <1>6 DEF JobDocumentNotNew
  <2>1. TaskTypeOK'
    BY DEF TaskTypeOK, taskVars, EventIds, NoEvent, Event, QueuedEvents,
       Handled
  <2>2. QueueTypeOK'
    BY SendTyped, EventTyped DEF QueueTypeOK, EventIds
  <2>3. JobTypeOK'
    BY DEF JobTypeOK, MaybeJob, ZeroedFields
  <2>4. BlocksAccountedFor' /\ Headroom'
    BY DEF BlocksAccountedFor, Headroom, taskVars, jobVars, progressVars,
       palVars, Handled, NoEvent, Event, Handling
  <2> QED
    BY <2>1, <2>2, <2>3, <2>4 DEF BufferTypeOK, ProgressTypeOK, PalTypeOK,
       CloudTypeOK, taskVars, bufferVars, jobVars, progressVars, palVars,
       cloudVars, netVars, sessionVars
<1>7. CASE ParseJobDocument
  <2> USE <1>7 DEF ParseJobDocument
  <2>1. TaskTypeOK'
    BY DEF TaskTypeOK, taskVars, EventIds, NoEvent, Event, QueuedEvents
  <2>2. JobTypeOK'
    BY DEF JobTypeOK, MaybeJob, ZeroedFields
  <2>3. ProgressTypeOK'
    BY ConstantsAssumption DEF ProgressTypeOK, ConstantsAssumption
  <2>4. BlocksAccountedFor' /\ Headroom'
    BY ConstantsAssumption DEF BlocksAccountedFor, Headroom, taskVars,
       jobVars, progressVars, palVars, Handling, ConstantsAssumption,
       ProgressTypeOK
  <2> QED
    BY <2>1, <2>2, <2>3, <2>4 DEF QueueTypeOK, BufferTypeOK, PalTypeOK,
       CloudTypeOK, taskVars, bufferVars, jobVars, progressVars, palVars,
       cloudVars, netVars, sessionVars
<1>8. CASE CreateFile
  <2> USE <1>8 DEF CreateFile
  <2>1. TaskTypeOK'
    BY FaultTyped DEF TaskTypeOK, taskVars, EventIds, NoEvent, Event,
       QueuedEvents, Handled
  <2>2. QueueTypeOK'
    BY SendTyped, EventTyped DEF QueueTypeOK, EventIds
  <2>3. JobTypeOK'
    BY DEF JobTypeOK, MaybeJob, ZeroedFields, SignatureRead
  <2>4. PalTypeOK'
    BY DEF PalTypeOK, EmptyFile, MaybeJob, JobTypeOK, FileVerifies
  <2>5. BlocksAccountedFor' /\ Headroom'
    BY DEF BlocksAccountedFor, Headroom, taskVars, jobVars, progressVars,
       palVars, Handled, NoEvent, Event
  <2> QED
    BY <2>1, <2>2, <2>3, <2>4, <2>5 DEF BufferTypeOK, ProgressTypeOK,
       CloudTypeOK, taskVars, bufferVars, jobVars, progressVars, palVars,
       cloudVars, netVars, sessionVars
<1>9. CASE SignatureUnreadable
  <2> USE <1>9 DEF SignatureUnreadable
  <2>1. TaskTypeOK'
    BY DEF TaskTypeOK, taskVars, EventIds, NoEvent, Event, QueuedEvents,
       Handled
  <2>2. BlocksAccountedFor' /\ Headroom'
    BY DEF BlocksAccountedFor, Headroom, taskVars, jobVars, progressVars,
       palVars, Handled, NoEvent, Event
  <2> QED
    BY <2>1, <2>2 DEF QueueTypeOK, BufferTypeOK, JobTypeOK, ProgressTypeOK,
       PalTypeOK, CloudTypeOK, taskVars, bufferVars, jobVars, progressVars,
       palVars, cloudVars, netVars, sessionVars
<1>10. CASE ReportSuccess
  <2> USE <1>10 DEF ReportSuccess
  <2>1. TaskTypeOK'
    BY FaultTyped DEF TaskTypeOK, taskVars, EventIds, NoEvent, Event,
       QueuedEvents, Published, PublishFailed
  <2>2. JobTypeOK'
    BY DEF JobTypeOK, MaybeJob, ZeroedFields
  <2>3. CloudTypeOK'
    BY DeliverTyped, MessageTyped DEF CloudTypeOK, MaybeJob, BlockIds,
       Published, PublishFailed, JobTypeOK, netVars, sessionVars, cloudVars
  <2>4. BlocksAccountedFor' /\ Headroom'
    BY DEF BlocksAccountedFor, Headroom, taskVars, jobVars, progressVars,
       palVars
  <2> QED
    BY <2>1, <2>2, <2>3, <2>4 DEF QueueTypeOK, BufferTypeOK,
       ProgressTypeOK, PalTypeOK, taskVars, bufferVars, jobVars,
       progressVars, palVars, cloudVars, netVars, sessionVars
<1>11. CASE DelayOver
  <2> USE <1>11 DEF DelayOver
  <2>1. TaskTypeOK'
    BY DEF TaskTypeOK, taskVars, EventIds, NoEvent, Event, QueuedEvents,
       Handled
  <2>2. QueueTypeOK'
    BY SendTyped, EventTyped DEF QueueTypeOK, EventIds
  <2>3. BlocksAccountedFor' /\ Headroom'
    BY DEF BlocksAccountedFor, Headroom, taskVars, jobVars, progressVars,
       palVars, Handled, NoEvent, Event
  <2> QED
    BY <2>1, <2>2, <2>3 DEF BufferTypeOK, JobTypeOK, ProgressTypeOK,
       PalTypeOK, CloudTypeOK, taskVars, bufferVars, jobVars, progressVars,
       palVars, cloudVars, netVars, sessionVars
<1>12. CASE RequestFileBlock
  <2> USE <1>12 DEF RequestFileBlock
  <2>1. TaskTypeOK'
    BY FaultTyped DEF TaskTypeOK, taskVars, EventIds, NoEvent, Event,
       QueuedEvents, Handled, Published, PublishFailed
  <2>2. QueueTypeOK'
    BY SendTyped, EventTyped DEF QueueTypeOK, EventIds
  <2>3. CloudTypeOK'
    BY DeliverTyped, MessageTyped DEF CloudTypeOK, MaybeJob, BlockIds,
       Published, PublishFailed, JobTypeOK, netVars, sessionVars, cloudVars
  <2>4. BlocksAccountedFor' /\ Headroom'
    BY DEF BlocksAccountedFor, Headroom, taskVars, jobVars, progressVars,
       palVars, Handled, NoEvent, Event, Handling
  <2> QED
    BY <2>1, <2>2, <2>3, <2>4 DEF BufferTypeOK, JobTypeOK, ProgressTypeOK,
       PalTypeOK, taskVars, bufferVars, jobVars, progressVars, palVars,
       cloudVars, netVars, sessionVars
<1>13. CASE WriteBlock
  <2> USE <1>13 DEF WriteBlock
  <2>1. TaskTypeOK'
    BY DEF TaskTypeOK, taskVars, EventIds, NoEvent, Event, QueuedEvents,
       Handled
  <2>2. QueueTypeOK'
    BY SendTyped, EventTyped DEF QueueTypeOK, EventIds, AfterBlock
  <2>3. BufferTypeOK'
    BY FreeBufferTyped DEF BufferTypeOK
  <2>4. ProgressTypeOK'
    BY ConstantsAssumption, BlockInHand DEF ProgressTypeOK,
       ConstantsAssumption, Accepted, Headroom, BlocksAccountedFor,
       BlockIds, PalTypeOK
  <2>5. PalTypeOK'
    BY BlockInHand DEF PalTypeOK, EmptyFile, MaybeJob, JobTypeOK, FileVerifies
  <2>6. BlocksAccountedFor' /\ Headroom'
    BY ConstantsAssumption, BlockInHand DEF BlocksAccountedFor, Headroom,
       taskVars, jobVars, progressVars, palVars, Handled, NoEvent, Event,
       Handling, ConstantsAssumption, ProgressTypeOK, Accepted, BlockIds
  <2> QED
    BY <2>1, <2>2, <2>3, <2>4, <2>5, <2>6 DEF JobTypeOK, CloudTypeOK,
       taskVars, bufferVars, jobVars, progressVars, palVars, cloudVars,
       netVars, sessionVars
<1>14. CASE WriteBlockFails
  <2> USE <1>14 DEF WriteBlockFails
  <2>1. TaskTypeOK'
    BY FaultTyped DEF TaskTypeOK, taskVars, EventIds, NoEvent, Event,
       QueuedEvents, Handled
  <2>2. QueueTypeOK'
    BY SendTyped, EventTyped DEF QueueTypeOK, EventIds, AfterBlock
  <2>3. BufferTypeOK'
    BY FreeBufferTyped DEF BufferTypeOK
  <2>4. ProgressTypeOK'
    BY ConstantsAssumption, BlockInHand DEF ProgressTypeOK,
       ConstantsAssumption, Accepted, Headroom, BlocksAccountedFor,
       BlockIds, PalTypeOK
  <2>5. BlocksAccountedFor' /\ Headroom'
    BY ConstantsAssumption, BlockInHand DEF BlocksAccountedFor, Headroom,
       taskVars, jobVars, progressVars, palVars, Handled, NoEvent, Event,
       Handling, ConstantsAssumption, ProgressTypeOK, Accepted, BlockIds
  <2> QED
    BY <2>1, <2>2, <2>3, <2>4, <2>5 DEF JobTypeOK, PalTypeOK, CloudTypeOK,
       taskVars, bufferVars, jobVars, progressVars, palVars, cloudVars,
       netVars, sessionVars
<1>15. CASE IgnoreBlock
  <2> USE <1>15 DEF IgnoreBlock
  <2>1. TaskTypeOK'
    BY DEF TaskTypeOK, taskVars, EventIds, NoEvent, Event, QueuedEvents,
       Handled
  <2>2. QueueTypeOK'
    BY SendTyped, EventTyped DEF QueueTypeOK, EventIds, AfterBlock
  <2>3. BufferTypeOK'
    BY FreeBufferTyped DEF BufferTypeOK
  <2>4. BlocksAccountedFor' /\ Headroom'
    BY DEF BlocksAccountedFor, Headroom, taskVars, jobVars, progressVars,
       palVars, Handled, NoEvent, Event, Handling
  <2> QED
    BY <2>1, <2>2, <2>3, <2>4 DEF JobTypeOK, ProgressTypeOK, PalTypeOK,
       CloudTypeOK, taskVars, bufferVars, jobVars, progressVars, palVars,
       cloudVars, netVars, sessionVars
<1>16. CASE CloseFile
  <2> USE <1>16 DEF CloseFile
  <2>1. TaskTypeOK'
    BY DEF TaskTypeOK, taskVars, EventIds, NoEvent, Event, QueuedEvents,
       Handled
  <2>2. QueueTypeOK'
    BY SendTyped, EventTyped DEF QueueTypeOK, EventIds
  <2>3. PalTypeOK'
    BY DEF PalTypeOK, EmptyFile, MaybeJob, JobTypeOK, FileVerifies
  <2>4. BlocksAccountedFor' /\ Headroom'
    BY DEF BlocksAccountedFor, Headroom, taskVars, jobVars, progressVars,
       palVars, Handled, NoEvent, Event, Handling
  <2> QED
    BY <2>1, <2>2, <2>3, <2>4 DEF BufferTypeOK, JobTypeOK, ProgressTypeOK,
       CloudTypeOK, taskVars, bufferVars, jobVars, progressVars, palVars,
       cloudVars, netVars, sessionVars
<1>17. CASE ActivateImage
  <2> USE <1>17 DEF ActivateImage
  <2>1. TaskTypeOK'
    BY ConstantsAssumption DEF TaskTypeOK, taskVars, EventIds, NoEvent,
       Event, QueuedEvents
  <2>2. QueueTypeOK'
    BY EventTyped, ConstantsAssumption DEF QueueTypeOK, EventIds,
       ConstantsAssumption
  <2>3. BufferTypeOK'
    BY MessageTyped DEF BufferTypeOK, MaybeJob
  <2>4. JobTypeOK'
    BY DEF JobTypeOK, MaybeJob, ZeroedFields
  <2>5. ProgressTypeOK'
    BY ConstantsAssumption DEF ProgressTypeOK, ConstantsAssumption
  <2>6. PalTypeOK'
    BY DEF PalTypeOK, EmptyFile, MaybeJob, JobTypeOK, FileVerifies
  <2>7. CloudTypeOK'
    <3>1. xSuspendOta' \in BOOLEAN /\ notifySubscribed' \in BOOLEAN
      BY Zenon
    <3>2. /\ session' \in {"new", "clean", "kept"} /\ streamSubscribed' \subseteq Jobs
          /\ inbound' \in Seq(Messages)
      OBVIOUS
    <3> QED
      BY <3>1, <3>2 DEF CloudTypeOK, cloudVars
  <2>8. BlocksAccountedFor' /\ Headroom'
    BY ConstantsAssumption DEF BlocksAccountedFor, Headroom, taskVars,
       jobVars, progressVars, palVars, Handling, ConstantsAssumption,
       ProgressTypeOK
  <2> QED
    BY <2>1, <2>2, <2>3, <2>4, <2>5, <2>6, <2>7, <2>8
<1>18. CASE ActivateImageFails
  <2> USE <1>18 DEF ActivateImageFails
  <2>1. TaskTypeOK'
    BY FaultTyped DEF TaskTypeOK, taskVars, EventIds, NoEvent, Event,
       QueuedEvents
  <2>2. BlocksAccountedFor' /\ Headroom'
    BY DEF BlocksAccountedFor, Headroom, taskVars, jobVars, progressVars,
       palVars, Handling
  <2> QED
    BY <2>1, <2>2 DEF QueueTypeOK, BufferTypeOK, JobTypeOK, ProgressTypeOK,
       PalTypeOK, CloudTypeOK, taskVars, bufferVars, jobVars, progressVars,
       palVars, cloudVars, netVars, sessionVars
<1>19. CASE TakeBuffer
  <2> USE <1>19 DEF TakeBuffer
  <2>1. BufferTypeOK'
    BY DEF BufferTypeOK, FreeBuffers, CloudTypeOK, Arrives
  <2>2. CloudTypeOK'
    BY DEF CloudTypeOK, Arrives, netVars, sessionVars, cloudVars
  <2>3. BlocksAccountedFor' /\ Headroom'
    BY DEF BlocksAccountedFor, Headroom, taskVars, jobVars, progressVars,
       palVars
  <2> QED
    BY <2>1, <2>2, <2>3 DEF TaskTypeOK, QueueTypeOK, JobTypeOK,
       ProgressTypeOK, PalTypeOK, taskVars, bufferVars, jobVars,
       progressVars, palVars, cloudVars, netVars, sessionVars
<1>20. CASE QueueBlock
  <2> USE <1>20 DEF QueueBlock
  <2>1. QueueTypeOK'
    BY SendTyped DEF QueueTypeOK, BufferTypeOK, QueuedEvents
  <2>2. BufferTypeOK'
    BY FreeBufferTyped DEF BufferTypeOK
  <2>3. BlocksAccountedFor' /\ Headroom'
    BY DEF BlocksAccountedFor, Headroom, taskVars, jobVars, progressVars,
       palVars
  <2> QED
    BY <2>1, <2>2, <2>3 DEF TaskTypeOK, JobTypeOK, ProgressTypeOK,
       PalTypeOK, CloudTypeOK, taskVars, bufferVars, jobVars, progressVars,
       palVars, cloudVars, netVars, sessionVars
<1>21. CASE DropBlock
  <2> USE <1>21 DEF DropBlock
  <2>1. CloudTypeOK'
    BY DEF CloudTypeOK, Arrives, netVars, sessionVars, cloudVars
  <2>2. BlocksAccountedFor' /\ Headroom'
    BY DEF BlocksAccountedFor, Headroom, taskVars, jobVars, progressVars,
       palVars
  <2> QED
    BY <2>1, <2>2 DEF TaskTypeOK, QueueTypeOK, BufferTypeOK, JobTypeOK,
       ProgressTypeOK, PalTypeOK, taskVars, bufferVars, jobVars,
       progressVars, palVars, cloudVars, netVars, sessionVars
<1>22. CASE QueueJobDocument
  <2> USE <1>22 DEF QueueJobDocument
  <2>1. QueueTypeOK'
    BY SendTyped, EventTyped DEF QueueTypeOK, EventIds
  <2>2. JobTypeOK'
    BY MessageArrives DEF JobTypeOK, CloudTypeOK, jobVars
  <2>3. CloudTypeOK'
    BY DEF CloudTypeOK, Arrives, netVars, sessionVars, cloudVars
  <2>4. BlocksAccountedFor' /\ Headroom'
    BY DEF BlocksAccountedFor, Headroom, taskVars, jobVars, progressVars,
       palVars
  <2> QED
    BY <2>1, <2>2, <2>3, <2>4 DEF TaskTypeOK, BufferTypeOK, ProgressTypeOK,
       PalTypeOK, taskVars, bufferVars, jobVars, progressVars, palVars,
       cloudVars, netVars, sessionVars
<1>23. CASE LinkDrops
  <2> USE <1>23 DEF LinkDrops
  <2>1. TaskTypeOK'
    BY FaultTyped DEF TaskTypeOK, taskVars, EventIds, NoEvent, Event,
       QueuedEvents
  <2>2. CloudTypeOK'
    <3>1. xSuspendOta' \in BOOLEAN /\ notifySubscribed' \in BOOLEAN
      <4>1. CASE session = "clean"
        BY <4>1, Zenon
      <4>2. CASE session # "clean"
        BY <4>2, Zenon DEF CloudTypeOK
      <4> QED
        BY <4>1, <4>2
    <3>2. session' \in {"new", "clean", "kept"} /\ streamSubscribed' \subseteq Jobs
      BY DEF CloudTypeOK
    <3>3. inbound' \in Seq(Messages)
      <4>1. inbound' = <<>> \/ inbound' = <<Doc(serverJob)>>
        BY Zenon
      <4>2. Doc(serverJob) \in Messages
        BY MessageTyped DEF CloudTypeOK
      <4> QED
        BY <4>1, <4>2, OneMessage, Zenon
    <3> QED
      BY <3>1, <3>2, <3>3 DEF CloudTypeOK, cloudVars
  <2>3. BlocksAccountedFor' /\ Headroom'
    BY DEF BlocksAccountedFor, Headroom, taskVars, jobVars, progressVars,
       palVars
  <2> QED
    BY <2>1, <2>2, <2>3 DEF QueueTypeOK, BufferTypeOK, JobTypeOK,
       ProgressTypeOK, PalTypeOK, taskVars, bufferVars, jobVars,
       progressVars, palVars, cloudVars, netVars, sessionVars
<1>24. CASE LinkComesUp
  <2> USE <1>24 DEF LinkComesUp
  <2>1. CloudTypeOK'
    BY DeliverTyped, MessageTyped DEF CloudTypeOK, MaybeJob, BlockIds,
       netVars, sessionVars, cloudVars
  <2>2. BlocksAccountedFor' /\ Headroom'
    BY DEF BlocksAccountedFor, Headroom, taskVars, jobVars, progressVars,
       palVars
  <2> QED
    BY <2>1, <2>2 DEF TaskTypeOK, QueueTypeOK, BufferTypeOK, JobTypeOK,
       ProgressTypeOK, PalTypeOK, taskVars, bufferVars, jobVars,
       progressVars, palVars, cloudVars, netVars, sessionVars
<1>25. CASE JobChanges
  <2> USE <1>25 DEF JobChanges
  <2>1. CloudTypeOK'
    BY DeliverTyped, MessageTyped DEF CloudTypeOK, MaybeJob, BlockIds,
       netVars, sessionVars, cloudVars
  <2>2. BlocksAccountedFor' /\ Headroom'
    BY DEF BlocksAccountedFor, Headroom, taskVars, jobVars, progressVars,
       palVars
  <2> QED
    BY <2>1, <2>2 DEF TaskTypeOK, QueueTypeOK, BufferTypeOK, JobTypeOK,
       ProgressTypeOK, PalTypeOK, taskVars, bufferVars, jobVars,
       progressVars, palVars, cloudVars, netVars, sessionVars
<1>26. CASE NotifyAgain
  <2> USE <1>26 DEF NotifyAgain
  <2>1. TaskTypeOK'
    BY FaultTyped DEF TaskTypeOK, taskVars, EventIds, NoEvent, Event,
       QueuedEvents
  <2>2. CloudTypeOK'
    BY DeliverTyped, MessageTyped DEF CloudTypeOK, MaybeJob, BlockIds,
       netVars, sessionVars, cloudVars
  <2>3. BlocksAccountedFor' /\ Headroom'
    BY DEF BlocksAccountedFor, Headroom, taskVars, jobVars, progressVars,
       palVars
  <2> QED
    BY <2>1, <2>2, <2>3 DEF QueueTypeOK, BufferTypeOK, JobTypeOK,
       ProgressTypeOK, PalTypeOK, taskVars, bufferVars, jobVars,
       progressVars, palVars, cloudVars, netVars, sessionVars
<1>27. CASE SubscribeStream
  <2> USE <1>27 DEF SubscribeStream
  <2>1. TaskTypeOK'
    BY FaultTyped DEF TaskTypeOK, taskVars, EventIds, NoEvent, Event,
       QueuedEvents
  <2>2. CloudTypeOK'
    BY DEF CloudTypeOK, cloudVars, JobTypeOK, MaybeJob, Headroom
  <2>3. BlocksAccountedFor' /\ Headroom'
    BY DEF BlocksAccountedFor, Headroom, taskVars, jobVars, progressVars,
       palVars
  <2> QED
    BY <2>1, <2>2, <2>3 DEF QueueTypeOK, BufferTypeOK, JobTypeOK,
       ProgressTypeOK, PalTypeOK, taskVars, bufferVars, jobVars,
       progressVars, palVars
<1>28. CASE UNCHANGED vars
  BY <1>28 DEF vars, taskVars, bufferVars, jobVars, progressVars, palVars,
     cloudVars, netVars, sessionVars, TaskTypeOK, QueueTypeOK, BufferTypeOK, JobTypeOK,
     ProgressTypeOK, PalTypeOK, CloudTypeOK, BlocksAccountedFor, Headroom
<1> QED
  BY <1>1, <1>2, <1>3, <1>4, <1>5, <1>6, <1>7, <1>8, <1>9, <1>10, <1>11,
     <1>12, <1>13, <1>14, <1>15, <1>16, <1>17, <1>18, <1>19, <1>20, <1>21,
     <1>22, <1>23, <1>24, <1>25, <1>26, <1>27, <1>28 DEF Next, OtaTask, Callback

\* Types, queue capacity and counter ranges hold for every instance.
THEOREM TypeCorrect == Spec => []TypeOK
<1>1. TypeInv => TypeOK
  BY DEF TypeInv
<1> QED
  BY InitTyped, TypeStep, <1>1, PTL DEF Spec

\* Whatever is lost, repeated or fails, the blocks written and the blocks
\* remaining add up to the file.
THEOREM BlocksAddUp == Spec => []BlocksAccountedFor
<1>1. TypeInv => BlocksAccountedFor
  BY DEF TypeInv
<1> QED
  BY InitTyped, TypeStep, <1>1, PTL DEF Spec
=============================================================================
