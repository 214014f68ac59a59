\* Four tasks of one cpu, the last two of which consume what is before them,
\* and two workers of one cpu, under the fairness of the server and of the
\* workers: whatever is given to a worker comes back, and a task that does
\* not finish takes its consumers and theirs with it.
SPECIFICATION FairSpec
CONSTANTS
    TaskId <- MCDeepTaskId
    Deps <- MCDeepDeps
    Batches <- MCDeepBatches
    Request <- MCUnitRequest
    WorkerCpus = {1}
    MaxWorkers = 2
    MaxSteals = 1
    None = None
PROPERTY AssignmentResolves
PROPERTY ImplementsTaskLife
CHECK_DEADLOCK FALSE
