\* The unit tests of process.rs on the model: every test from its set-up to
\* its last assertion.  The bounds are the largest numbers of the tests:
\* 1000 waiting tasks, and the 6 allocations of test_keep_backlog_filled.
SPECIFICATION TestSpec

CONSTANTS
    j1 = j1
    j2 = j2
    Jobs = {j1, j2}
    MinTime <- MCTestMinTime
    QueueInfos <- MCTestQueueInfos
    MaxDescriptors = 1
    MaxWaiting = 1000
    MaxAllocations = 6
    EventCap = 8

INVARIANT TestsPass
PROPERTY TestsReturn

\* a test that has made its last assertion returns
CHECK_DEADLOCK FALSE
