\* One queue of either kind and one job: every step of the allocator is a
\* step of AutoAllocAbstract or leaves the descriptors as they are.
SPECIFICATION Spec

CONSTANTS
    j1 = j1
    j2 = j2
    Jobs = {j1}
    MinTime <- MCMinTime
    QueueInfos <- MCQueueInfos
    MaxDescriptors = 1
    MaxWaiting = 2
    MaxAllocations = 2
    EventCap = 2


PROPERTY ImplementsAbstract

CHECK_DEADLOCK FALSE
