SPECIFICATION Spec

CONSTANTS
    j1 = j1
    j2 = j2
    Jobs = {j1, j2}
    MinTime <- MCMinTime
    QueueInfos <- MCQueueInfos
    MaxDescriptors = 1
    MaxWaiting = 2
    MaxAllocations = 2
    EventCap = 2

INVARIANT ActiveWithinBacklog

CHECK_DEADLOCK FALSE
