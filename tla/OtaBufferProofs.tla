-------------------------- MODULE OtaBufferProofs --------------------------
(***************************************************************************)
(* The data buffers of the OTA agent: no buffer ever has two owners, and   *)
(* none is leaked, for every number of buffers, queue slots, jobs, blocks  *)
(* and faults.                                                             *)
(***************************************************************************)
EXTENDS OtaAgentProofs

\* Only an event that carries a block, in the hands of the task, holds a
\* buffer outside the queue and the callback.
Placement ==
    current.buffer # NoBuffer
      => taskPc = "handle" /\ current.id = "ReceivedFileBlock"

\* The two properties, owner by owner.
QueueOwns ==
    \A i \in 1 .. Len(events) :
        events[i].buffer # NoBuffer
          => /\ bufferUsed[events[i].buffer]
             /\ events[i].buffer # current.buffer
             /\ events[i].buffer # callbackBuffer
QueuedOnce ==
    \A i, j \in 1 .. Len(events) :
        events[i].buffer = events[j].buffer /\ events[i].buffer # NoBuffer
          => i = j
TaskOwns ==
    current.buffer # NoBuffer
      => bufferUsed[current.buffer] /\ current.buffer # callbackBuffer
CallbackOwns == callbackBuffer # NoBuffer => bufferUsed[callbackBuffer]
UsedIsOwned ==
    \A b \in Buffers :
        bufferUsed[b] => \/ b = current.buffer \/ b = callbackBuffer
                         \/ \E i \in 1 .. Len(events) : events[i].buffer = b

Owned == QueueOwns /\ QueuedOnce /\ TaskOwns /\ CallbackOwns /\ UsedIsOwned
OwnershipInv == TypeOK /\ Placement /\ Owned

-----------------------------------------------------------------------------
(* What an action may do to the buffers and their owners.                  *)

\* An event without a buffer may be queued, nothing else.
Quiet ==
    /\ UNCHANGED <<bufferUsed, callbackBuffer>>
    /\ current'.buffer = current.buffer
    /\ \/ UNCHANGED events
       \/ \E id \in EventIds : events' = Append(events, Event(id))

\* What the fields of an event and of the buffers may hold.
LEMMA BufferValues ==
  ASSUME TypeOK
  PROVE  /\ current.buffer \in Buffers \cup {NoBuffer}
         /\ callbackBuffer \in Buffers \cup {NoBuffer}
         /\ Len(events) \in Nat
         /\ \A i \in 1 .. Len(events) :
               events[i].buffer \in Buffers \cup {NoBuffer}
         /\ NoBuffer \notin Buffers
<1>1. \A i \in 1 .. Len(events) : events[i] \in QueuedEvents
  BY DEF TypeOK, QueueTypeOK
<1>2. current.buffer \in Buffers \cup {NoBuffer}
  BY DEF TypeOK, TaskTypeOK, QueuedEvents, NoEvent, Event
<1>3. Len(events) \in Nat /\ callbackBuffer \in Buffers \cup {NoBuffer}
  BY DEF TypeOK, QueueTypeOK, BufferTypeOK
<1> QED
  BY <1>1, <1>2, <1>3, ConstantsAssumption
     DEF ConstantsAssumption, QueuedEvents

\* The entries of a queue after an event is appended.
LEMMA AppendedEvents ==
  ASSUME TypeOK, NEW e, events' = Append(events, e)
  PROVE  /\ Len(events') = Len(events) + 1
         /\ \A i \in 1 .. Len(events) : events'[i] = events[i]
         /\ events'[Len(events) + 1] = e
BY DEF TypeOK, QueueTypeOK

\* A step that moves no buffer keeps every buffer with its owner.
LEMMA QuietStep ==
  ASSUME OwnershipInv, Quiet
  PROVE  Owned'
<1>1. CASE UNCHANGED events
  BY <1>1 DEF OwnershipInv, Owned, Quiet, QueueOwns, QueuedOnce, TaskOwns,
     CallbackOwns, UsedIsOwned
<1>2. ASSUME NEW id \in EventIds, events' = Append(events, Event(id))
      PROVE  Owned'
  <2>1. /\ Len(events) \in Nat
        /\ Len(events') = Len(events) + 1
        /\ \A i \in 1 .. Len(events) : events'[i] = events[i]
        /\ events'[Len(events) + 1].buffer = NoBuffer
    BY <1>2, AppendedEvents, BufferValues DEF OwnershipInv, Event
  <2>2. QueueOwns' /\ QueuedOnce'
    BY <2>1 DEF OwnershipInv, Owned, Quiet, QueueOwns, QueuedOnce
  <2>3. TaskOwns' /\ CallbackOwns'
    BY DEF OwnershipInv, Owned, Quiet, TaskOwns, CallbackOwns
  <2>4. UsedIsOwned'
    BY <2>1 DEF OwnershipInv, Owned, Quiet, UsedIsOwned
  <2> QED
    BY <2>2, <2>3, <2>4 DEF Owned
<1> QED
  BY <1>1, <1>2 DEF Quiet

\* The task takes the head of the queue, and with it its buffer.
LEMMA ReceiveStep ==
  ASSUME OwnershipInv, ReceiveEvent
  PROVE  Owned'
<1>1. /\ current.buffer = NoBuffer
      /\ current' = events[1]
      /\ Len(events) \in Nat /\ 1 \in 1 .. Len(events)
      /\ Len(events') = Len(events) - 1
      /\ \A i \in 1 .. Len(events') : events'[i] = events[i + 1]
      /\ UNCHANGED <<bufferUsed, callbackBuffer>>
  BY DEF OwnershipInv, Placement, ReceiveEvent, TypeOK, QueueTypeOK, bufferVars
<1>2. \A b \in Buffers \cup {NoBuffer} : b # NoBuffer <=> b \in Buffers
  BY BufferValues DEF OwnershipInv
<1>3. QueueOwns' /\ QueuedOnce'
  BY <1>1 DEF OwnershipInv, Owned, QueueOwns, QueuedOnce
<1>4. TaskOwns' /\ CallbackOwns'
  BY <1>1 DEF OwnershipInv, Owned, TaskOwns, CallbackOwns, QueueOwns
<1>5. UsedIsOwned'
  <2> SUFFICES ASSUME NEW b \in Buffers, bufferUsed'[b], b # current'.buffer,
                      b # callbackBuffer'
               PROVE  \E i \in 1 .. Len(events') : events'[i].buffer = b
    BY DEF UsedIsOwned
  <2>1. PICK i \in 1 .. Len(events) : events[i].buffer = b
    BY <1>1, <1>2 DEF OwnershipInv, Owned, UsedIsOwned
  <2>2. i - 1 \in 1 .. Len(events') /\ events'[i - 1].buffer = b
    BY <1>1, <2>1
  <2> QED
    BY <2>2
<1> QED
  BY <1>3, <1>4, <1>5 DEF Owned

\* A block is dealt with: its buffer is freed, and no owner keeps it.
LEMMA BlockHandledStep ==
  ASSUME OwnershipInv, Handling("ReceivedFileBlock"),
         FreeBuffer(current.buffer), current' = NoEvent, UNCHANGED callbackBuffer,
         UNCHANGED events \/ \E id \in EventIds :
                               events' = Append(events, Event(id))
  PROVE  Owned'
<1>1. current.buffer \in Buffers /\ NoBuffer \notin Buffers
  BY BlockInHand, BufferValues DEF OwnershipInv
<1>2. /\ current'.buffer = NoBuffer
      /\ \A b \in Buffers : bufferUsed'[b] <=> bufferUsed[b] /\ b # current.buffer
  BY <1>1 DEF OwnershipInv, TypeOK, BufferTypeOK, FreeBuffer, NoEvent, Event
<1>3. /\ Len(events) \in Nat
      /\ \A i \in 1 .. Len(events) : events'[i] = events[i]
      /\ \/ Len(events') = Len(events)
         \/ /\ Len(events') = Len(events) + 1
            /\ events'[Len(events) + 1].buffer = NoBuffer
  <2>1. CASE UNCHANGED events
    BY <2>1, BufferValues DEF OwnershipInv
  <2>2. ASSUME NEW id \in EventIds, events' = Append(events, Event(id))
        PROVE  /\ Len(events') = Len(events) + 1
               /\ \A i \in 1 .. Len(events) : events'[i] = events[i]
               /\ events'[Len(events) + 1].buffer = NoBuffer
    BY <2>2, AppendedEvents DEF OwnershipInv, Event
  <2>3. Len(events) \in Nat
    BY BufferValues DEF OwnershipInv
  <2> QED
    BY <2>1, <2>2, <2>3
<1>4. QueueOwns'
  <2> SUFFICES ASSUME NEW i \in 1 .. Len(events'), events'[i].buffer # NoBuffer
               PROVE  /\ bufferUsed'[events'[i].buffer]
                      /\ events'[i].buffer # callbackBuffer
    BY <1>2 DEF QueueOwns
  <2>1. i \in 1 .. Len(events) /\ events'[i] = events[i]
    BY <1>3
  <2>2. /\ bufferUsed[events[i].buffer]
        /\ events[i].buffer # current.buffer
        /\ events[i].buffer # callbackBuffer
    BY <2>1 DEF OwnershipInv, Owned, QueueOwns
  <2>3. events[i].buffer \in Buffers
    BY <2>1, BufferValues DEF OwnershipInv
  <2> QED
    BY <1>2, <2>1, <2>2, <2>3
<1>5. QueuedOnce'
  BY <1>3 DEF OwnershipInv, Owned, QueuedOnce
<1>6. TaskOwns' /\ CallbackOwns'
  BY <1>1, <1>2, BufferValues
     DEF OwnershipInv, Owned, TaskOwns, CallbackOwns
<1>7. UsedIsOwned'
  BY <1>1, <1>2, <1>3 DEF OwnershipInv, Owned, UsedIsOwned
<1> QED
  BY <1>4, <1>5, <1>6, <1>7 DEF Owned

\* The callback takes a buffer no one owns.
LEMMA TakeStep ==
  ASSUME OwnershipInv, TakeBuffer
  PROVE  Owned'
<1>1. PICK b \in Buffers : /\ ~bufferUsed[b]
                           /\ bufferUsed' = [bufferUsed EXCEPT ![b] = TRUE]
                           /\ callbackBuffer' = b
  BY DEF TakeBuffer, FreeBuffers
<1>2. callbackBuffer = NoBuffer /\ UNCHANGED <<current, events>>
  BY DEF TakeBuffer, Arrives, taskVars
<1>3. \A c \in Buffers : bufferUsed'[c] <=> bufferUsed[c] \/ c = b
  BY <1>1 DEF OwnershipInv, TypeOK, BufferTypeOK
<1>4. QueueOwns' /\ QueuedOnce'
  BY <1>1, <1>2, <1>3, BufferValues
     DEF OwnershipInv, Owned, QueueOwns, QueuedOnce
<1>5. TaskOwns' /\ CallbackOwns'
  BY <1>1, <1>2, <1>3, BufferValues
     DEF OwnershipInv, Owned, TaskOwns, CallbackOwns
<1>6. UsedIsOwned'
  BY <1>1, <1>2, <1>3, BufferValues DEF OwnershipInv, Owned, UsedIsOwned
<1> QED
  BY <1>4, <1>5, <1>6 DEF Owned

\* The callback hands its buffer to the queue, or frees it.
LEMMA QueueBlockStep ==
  ASSUME OwnershipInv, QueueBlock
  PROVE  Owned'
<1>1. /\ callbackBuffer \in Buffers /\ NoBuffer \notin Buffers
      /\ callbackBuffer' = NoBuffer /\ UNCHANGED current
      /\ Len(events) \in Nat
  BY BufferValues DEF OwnershipInv, QueueBlock, taskVars
<1>2. CASE HasRoom
  <2> DEFINE e == [id |-> "ReceivedFileBlock", buffer |-> callbackBuffer]
  <2>1. events' = Append(events, e) /\ UNCHANGED bufferUsed
    BY <1>2 DEF QueueBlock, Send
  <2> HIDE DEF e
  <2>2. /\ Len(events') = Len(events) + 1
        /\ \A i \in 1 .. Len(events) : events'[i] = events[i]
        /\ events'[Len(events) + 1].buffer = callbackBuffer
    BY <2>1, AppendedEvents DEF OwnershipInv, e
  <2>3. QueueOwns'
    BY <1>1, <2>1, <2>2, BufferValues
       DEF OwnershipInv, Owned, QueueOwns, CallbackOwns, TaskOwns
  <2>4. QueuedOnce'
    BY <1>1, <2>2 DEF OwnershipInv, Owned, QueuedOnce, QueueOwns
  <2>5. TaskOwns' /\ CallbackOwns'
    BY <1>1, <2>1 DEF OwnershipInv, Owned, TaskOwns, CallbackOwns
  <2>6. UsedIsOwned'
    BY <1>1, <2>1, <2>2 DEF OwnershipInv, Owned, UsedIsOwned
  <2> QED
    BY <2>3, <2>4, <2>5, <2>6 DEF Owned
<1>3. CASE ~HasRoom
  <2>1. UNCHANGED events /\ FreeBuffer(callbackBuffer)
    BY <1>3 DEF QueueBlock, Send
  <2>2. \A b \in Buffers : bufferUsed'[b] <=> bufferUsed[b] /\ b # callbackBuffer
    BY <1>1, <2>1 DEF OwnershipInv, TypeOK, BufferTypeOK, FreeBuffer
  <2>3. QueueOwns' /\ QueuedOnce'
    BY <1>1, <2>1, <2>2, BufferValues
       DEF OwnershipInv, Owned, QueueOwns, QueuedOnce
  <2>4. TaskOwns' /\ CallbackOwns' /\ UsedIsOwned'
    BY <1>1, <2>1, <2>2, BufferValues
       DEF OwnershipInv, Owned, TaskOwns, CallbackOwns, UsedIsOwned
  <2> QED
    BY <2>3, <2>4 DEF Owned
<1> QED
  BY <1>2, <1>3

\* Sending an event without a buffer moves no buffer.
LEMMA SendIsQuiet ==
  ASSUME NEW id \in EventIds, Send(Event(id))
  PROVE  UNCHANGED events \/ \E i \in EventIds : events' = Append(events, Event(i))
BY DEF Send

-----------------------------------------------------------------------------
\* At boot no buffer is used.
LEMMA BootOwned ==
  ASSUME events = <<Event("RequestJobDocument")>>, current = NoEvent,
         callbackBuffer = NoBuffer, bufferUsed = [b \in Buffers |-> FALSE]
  PROVE  Placement /\ Owned
BY DEF Placement, Owned, QueueOwns, QueuedOnce, TaskOwns, CallbackOwns,
   UsedIsOwned, Event, NoEvent

\* Every buffer has its one owner at boot.
LEMMA OwnershipInit == Init => Placement /\ Owned
BY BootOwned DEF Init

\* Every step keeps every buffer with its owner.
LEMMA OwnershipStep ==
  TypeOK /\ Placement /\ Owned /\ [Next]_vars => Placement' /\ Owned'
<1> SUFFICES ASSUME TypeOK, Placement, Owned, [Next]_vars
             PROVE  Placement' /\ Owned'
  OBVIOUS
<1>a. OwnershipInv
  BY DEF OwnershipInv
<1>b. current.buffer # NoBuffer \/ current.id # "ReceivedFileBlock"
  BY BufferValues DEF TypeOK, TaskTypeOK, QueuedEvents, NoEvent, Event
<1>1. CASE TaskSubscribeNotifyNext
  <2>1. Quiet /\ Placement'
    BY <1>1 DEF TaskSubscribeNotifyNext, Quiet, Placement, taskVars,
       NoEvent, Event, bufferVars
  <2> QED
    BY <1>a, <2>1, QuietStep
<1>2. CASE ReceiveEvent
  <2>1. Placement'
    BY <1>2, HeadEventTyped DEF ReceiveEvent, TypeOK, Placement, QueuedEvents
  <2> QED
    BY <1>2, <1>a, <2>1, ReceiveStep
<1>3. CASE ReceiveTimesOut
  <2>1. Quiet /\ Placement'
    BY <1>3 DEF ReceiveTimesOut, Quiet, Placement, taskVars, NoEvent,
       Event, bufferVars
  <2> QED
    BY <1>a, <2>1, QuietStep
<1>4. CASE WaitForResume
  <2>1. Quiet /\ Placement'
    BY <1>4 DEF WaitForResume, Quiet, Placement, taskVars, NoEvent, Event,
       bufferVars
  <2> QED
    BY <1>a, <2>1, QuietStep
<1>5. CASE RequestJobDocument
  <2>1. Quiet /\ Placement'
    BY <1>5 DEF RequestJobDocument, Quiet, Placement, taskVars, NoEvent,
       Event, Handled, Handling, bufferVars
  <2> QED
    BY <1>a, <2>1, QuietStep
<1>6. CASE JobDocumentNotNew
  <2>1. Quiet /\ Placement'
    BY <1>6, SendIsQuiet DEF JobDocumentNotNew, Quiet, Placement, taskVars,
       NoEvent, Event, Handled, Handling, bufferVars, EventIds
  <2> QED
    BY <1>a, <2>1, QuietStep
<1>7. CASE ParseJobDocument
  <2>1. Quiet /\ Placement'
    BY <1>7 DEF ParseJobDocument, Quiet, Placement, taskVars, NoEvent,
       Event, Handling, bufferVars
  <2> QED
    BY <1>a, <2>1, QuietStep
<1>8. CASE CreateFile
  <2>1. Quiet /\ Placement'
    BY <1>8, SendIsQuiet DEF CreateFile, Quiet, Placement, taskVars,
       NoEvent, Event, Handled, bufferVars, EventIds
  <2> QED
    BY <1>a, <2>1, QuietStep
<1>9. CASE SignatureUnreadable
  <2>1. Quiet /\ Placement'
    BY <1>9 DEF SignatureUnreadable, Quiet, Placement, taskVars, NoEvent,
       Event, Handled, bufferVars
  <2> QED
    BY <1>a, <2>1, QuietStep
<1>10. CASE ReportSuccess
  <2>1. Quiet /\ Placement'
    BY <1>10 DEF ReportSuccess, Quiet, Placement, taskVars, NoEvent, Event,
       bufferVars
  <2> QED
    BY <1>a, <2>1, QuietStep
<1>11. CASE DelayOver
  <2>1. Quiet /\ Placement'
    BY <1>11, SendIsQuiet DEF DelayOver, Quiet, Placement, taskVars,
       NoEvent, Event, Handled, bufferVars, EventIds
  <2> QED
    BY <1>a, <2>1, QuietStep
<1>12. CASE RequestFileBlock
  <2>1. Quiet /\ Placement'
    BY <1>12, SendIsQuiet DEF RequestFileBlock, Quiet, Placement, taskVars,
       NoEvent, Event, Handled, Handling, bufferVars, EventIds
  <2> QED
    BY <1>a, <2>1, QuietStep
<1>13. CASE WriteBlock
  <2>1. /\ Handling("ReceivedFileBlock") /\ FreeBuffer(current.buffer)
        /\ current' = NoEvent /\ UNCHANGED callbackBuffer
    BY <1>13 DEF WriteBlock, Handled
  <2>2. UNCHANGED events \/ \E id \in EventIds : events' = Append(events, Event(id))
    BY <1>13, SendIsQuiet DEF WriteBlock, AfterBlock, EventIds
  <2>3. Placement'
    BY <2>1 DEF Placement, NoEvent, Event
  <2> QED
    BY <1>a, <2>1, <2>2, <2>3, BlockHandledStep
<1>14. CASE WriteBlockFails
  <2>1. /\ Handling("ReceivedFileBlock") /\ FreeBuffer(current.buffer)
        /\ current' = NoEvent /\ UNCHANGED callbackBuffer
    BY <1>14 DEF WriteBlockFails, Handled
  <2>2. UNCHANGED events \/ \E id \in EventIds : events' = Append(events, Event(id))
    BY <1>14, SendIsQuiet DEF WriteBlockFails, AfterBlock, EventIds
  <2>3. Placement'
    BY <2>1 DEF Placement, NoEvent, Event
  <2> QED
    BY <1>a, <2>1, <2>2, <2>3, BlockHandledStep
<1>15. CASE IgnoreBlock
  <2>1. /\ Handling("ReceivedFileBlock") /\ FreeBuffer(current.buffer)
        /\ current' = NoEvent /\ UNCHANGED callbackBuffer
    BY <1>15 DEF IgnoreBlock, Handled
  <2>2. UNCHANGED events \/ \E id \in EventIds : events' = Append(events, Event(id))
    BY <1>15, SendIsQuiet DEF IgnoreBlock, AfterBlock, EventIds
  <2>3. Placement'
    BY <2>1 DEF Placement, NoEvent, Event
  <2> QED
    BY <1>a, <2>1, <2>2, <2>3, BlockHandledStep
<1>16. CASE CloseFile
  <2>1. Quiet /\ Placement'
    BY <1>16, SendIsQuiet DEF CloseFile, Quiet, Placement, taskVars,
       NoEvent, Event, Handled, Handling, bufferVars, EventIds
  <2> QED
    BY <1>a, <2>1, QuietStep
<1>17. CASE ActivateImage
  <2>1. (Placement /\ Owned)'
    <3>1. /\ events' = <<Event("RequestJobDocument")>> /\ current' = NoEvent
          /\ callbackBuffer' = NoBuffer
          /\ bufferUsed' = [b \in Buffers |-> FALSE]
      BY <1>17 DEF ActivateImage
    <3> QED
      BY <3>1 DEF Placement, Owned, QueueOwns, QueuedOnce, TaskOwns,
         CallbackOwns, UsedIsOwned, Event, NoEvent
  <2> QED
    BY <2>1
<1>18. CASE ActivateImageFails
  <2>1. Quiet /\ Placement'
    BY <1>18 DEF ActivateImageFails, Quiet, Placement, taskVars, NoEvent,
       Event, Handling, bufferVars
  <2> QED
    BY <1>a, <2>1, QuietStep
<1>19. CASE TakeBuffer
  <2>1. Placement'
    BY <1>19 DEF TakeBuffer, Placement, taskVars
  <2> QED
    BY <1>19, <1>a, <2>1, TakeStep
<1>20. CASE QueueBlock
  <2>1. Placement'
    BY <1>20 DEF QueueBlock, Placement, taskVars
  <2> QED
    BY <1>20, <1>a, <2>1, QueueBlockStep
<1>21. CASE DropBlock
  <2>1. Quiet /\ Placement'
    BY <1>21 DEF DropBlock, Quiet, Placement, taskVars, NoEvent, Event,
       bufferVars
  <2> QED
    BY <1>a, <2>1, QuietStep
<1>22. CASE QueueJobDocument
  <2>1. Quiet /\ Placement'
    BY <1>22, SendIsQuiet DEF QueueJobDocument, Quiet, Placement, taskVars,
       NoEvent, Event, bufferVars, EventIds
  <2> QED
    BY <1>a, <2>1, QuietStep
<1>23. CASE LinkDrops
  <2>1. Quiet /\ Placement'
    BY <1>23 DEF LinkDrops, Quiet, Placement, taskVars, NoEvent, Event,
       bufferVars
  <2> QED
    BY <1>a, <2>1, QuietStep
<1>24. CASE LinkComesUp
  <2>1. Quiet /\ Placement'
    BY <1>24 DEF LinkComesUp, Quiet, Placement, taskVars, NoEvent, Event,
       bufferVars
  <2> QED
    BY <1>a, <2>1, QuietStep
<1>25. CASE JobChanges
  <2>1. Quiet /\ Placement'
    BY <1>25 DEF JobChanges, Quiet, Placement, taskVars, NoEvent, Event,
       bufferVars
  <2> QED
    BY <1>a, <2>1, QuietStep
<1>26. CASE NotifyAgain
  <2>1. Quiet /\ Placement'
    BY <1>26 DEF NotifyAgain, Quiet, Placement, taskVars, NoEvent, Event,
       bufferVars
  <2> QED
    BY <1>a, <2>1, QuietStep
<1>27. CASE SubscribeStream
  <2>1. Quiet /\ Placement'
    BY <1>27 DEF SubscribeStream, Quiet, Placement, taskVars, NoEvent,
       Event, bufferVars
  <2> QED
    BY <1>a, <2>1, QuietStep
<1>28. CASE UNCHANGED vars
  <2>1. Quiet /\ Placement'
    BY <1>28 DEF vars, Quiet, Placement, taskVars, bufferVars
  <2> QED
    BY <1>a, <2>1, QuietStep
<1> QED
  BY <1>1, <1>2, <1>3, <1>4, <1>5, <1>6, <1>7, <1>8, <1>9, <1>10, <1>11,
     <1>12, <1>13, <1>14, <1>15, <1>16, <1>17, <1>18, <1>19, <1>20, <1>21,
     <1>22, <1>23, <1>24, <1>25, <1>26, <1>27, <1>28 DEF Next, OtaTask, Callback

\* The owner-by-owner invariant says what the two properties say.
LEMMA OwnedMeans ==
  ASSUME TypeOK, Owned
  PROVE  BufferOwnership /\ NoBufferLeaked
<1>1. DOMAIN events = 1 .. Len(events)
  BY DEF TypeOK, QueueTypeOK
<1>2. BufferOwnership
  <2>1. QueuedBuffers \subseteq {b \in Buffers : bufferUsed[b]}
    BY <1>1, BufferValues DEF Owned, QueueOwns, QueuedBuffers
  <2>2. {current.buffer, callbackBuffer} \ {NoBuffer}
           \subseteq {b \in Buffers : bufferUsed[b]}
    BY BufferValues DEF Owned, TaskOwns, CallbackOwns
  <2>3. QueuedBuffers \cap {current.buffer, callbackBuffer} = {}
    BY <1>1 DEF Owned, QueueOwns, QueuedBuffers
  <2>4. current.buffer = callbackBuffer => current.buffer = NoBuffer
    BY DEF Owned, TaskOwns
  <2>5. \A i, j \in DOMAIN events :
           events[i].buffer = events[j].buffer /\ events[i].buffer # NoBuffer
              => i = j
    BY <1>1 DEF Owned, QueuedOnce
  <2> QED
    BY <2>1, <2>2, <2>3, <2>4, <2>5 DEF BufferOwnership
<1>3. NoBufferLeaked
  BY <1>1, BufferValues DEF Owned, UsedIsOwned, NoBufferLeaked, QueuedBuffers
<1> QED
  BY <1>2, <1>3

\* A data buffer never has two owners, and an owned one is never handed out
\* again: no block overwrites another that is still to be written.
THEOREM BuffersHaveOneOwner == Spec => []BufferOwnership
<1>1. TypeOK /\ Owned => BufferOwnership
  BY OwnedMeans
<1> QED
  BY OwnershipInit, OwnershipStep, TypeCorrect, <1>1, PTL DEF Spec

\* No data buffer is leaked, whatever is dropped, ignored or fails.
THEOREM BuffersAreNotLeaked == Spec => []NoBufferLeaked
<1>1. TypeOK /\ Owned => NoBufferLeaked
  BY OwnedMeans
<1> QED
  BY OwnershipInit, OwnershipStep, TypeCorrect, <1>1, PTL DEF Spec
=============================================================================
