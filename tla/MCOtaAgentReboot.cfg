\* One job whose document arrives twice: no fault is needed.
CONSTANTS
    Jobs = {j1}
    Buffers = {b1, b2}
    NumBlocks = 2
    FileId = 0
    QueueLength = 4
    MaxInbound = 2
    MaxFaults = 0
    FaultKinds = {}
    NoJob = NoJob
    NoBuffer = NoBuffer
    Hole = Hole
SPECIFICATION FairSpec
PROPERTY RebootsIntoNewImage
CHECK_DEADLOCK FALSE
