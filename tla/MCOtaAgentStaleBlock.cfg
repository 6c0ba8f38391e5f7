\* A job that replaces another while a block of the old one is queued.
CONSTANTS
    Jobs = {j1, j2}
    Buffers = {b1, b2}
    NumBlocks = 2
    FileId = 0
    QueueLength = 4
    MaxInbound = 2
    MaxFaults = 0
    FaultKinds = {}
    NoJob = NoJob
    NoBuffer = NoBuffer
    Hole = Hole
SPECIFICATION Spec
INVARIANT BlocksOfCurrentJobOnly
CHECK_DEADLOCK FALSE
