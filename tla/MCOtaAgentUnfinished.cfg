\* Two jobs and one loss of the connection or failed write: each can leave a
\* download unfinished.  With MaxFaults = 0 only the replaced job is left, with
\* one job and one kind of fault only that fault.
CONSTANTS
    Jobs = {j1, j2}
    Buffers = {b1, b2}
    NumBlocks = 2
    FileId = 0
    QueueLength = 4
    MaxInbound = 2
    MaxFaults = 1
    FaultKinds = {"link", "write"}
    NoJob = NoJob
    NoBuffer = NoBuffer
    Hole = Hole
SPECIFICATION FairSpec
PROPERTY DownloadCompletes
CHECK_DEADLOCK FALSE
