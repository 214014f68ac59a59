\* One queue at a time, of the two kinds that a user means to add and of the
\* two kinds with a parameter of zero that the client's add_queue lets through.
SPECIFICATION Spec

CONSTANTS
    j1 = j1
    j2 = j2
    Jobs = {j1, j2}
    MinTime <- MCMinTime
    QueueInfos <- MCAllQueueInfos
    MaxDescriptors = 1
    MaxWaiting = 2
    MaxAllocations = 2
    EventCap = 2

INVARIANT TypeOK
INVARIANT QueuedWithinBacklog
INVARIANT TrackedWhileQueueExists
INVARIANT EventLogFollowsLifecycle
INVARIANT TickAllocationsJustified
INVARIANT ShutdownRemovesRecorded
INVARIANT RemovalLosesOneAllocation

CHECK_DEADLOCK FALSE
