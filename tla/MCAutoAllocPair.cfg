\* Two queues with room for one allocation each: the coroutines interleave at
\* every await and share the batch system, and every tick joins both.
SPECIFICATION FairSpec

CONSTANTS
    j1 = j1
    j2 = j2
    Jobs = {j1}
    MinTime <- MCMinTime
    QueueInfos <- MCTightQueueInfo
    MaxDescriptors = 2
    MaxWaiting = 1
    MaxAllocations = 2
    EventCap = 0

INVARIANT QueuedWithinBacklog
INVARIANT TrackedWhileQueueExists
PROPERTY TickTerminates

CHECK_DEADLOCK FALSE
