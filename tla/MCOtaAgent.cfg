\* One job, no storage faults: the download against a lossy connection.
CONSTANTS
    Jobs = {j1}
    Buffers = {b1, b2}
    NumBlocks = 3
    FileId = 0
    QueueLength = 4
    MaxInbound = 2
    MaxFaults = 2
    FaultKinds = {"link", "publish", "subscribe", "redeliver"}
    NoJob = NoJob
    NoBuffer = NoBuffer
    Hole = Hole
SPECIFICATION FairSpec
INVARIANT OutstandingBlockRetried
INVARIANT ClosedFileIsComplete
PROPERTY SubscribedDownloadCompletes
CHECK_DEADLOCK FALSE
