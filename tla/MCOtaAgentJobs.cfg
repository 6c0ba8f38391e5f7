\* Two jobs, every fault.
CONSTANTS
    Jobs = {j1, j2}
    Buffers = {b1, b2}
    NumBlocks = 2
    FileId = 0
    QueueLength = 3
    MaxInbound = 2
    MaxFaults = 2
    FaultKinds = {"link", "publish", "subscribe", "redeliver", "create", "write", "activate"}
    NoJob = NoJob
    NoBuffer = NoBuffer
    Hole = Hole
SPECIFICATION Spec
INVARIANT TypeOK
INVARIANT BufferOwnership
INVARIANT NoBufferLeaked
INVARIANT BlocksAccountedFor
INVARIANT BlocksLandInPlace
SYMMETRY Symmetry
CHECK_DEADLOCK FALSE
