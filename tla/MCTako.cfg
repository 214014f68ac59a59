\* Three tasks, two of one cpu without deps and one of two cpus that consumes
\* both, two workers of one or two cpus, one steal: a worker holds two tasks,
\* a task fits one worker and not the other, a worker is lost while the other
\* is asked to give up a task, and a steal meets a task that has started.
SPECIFICATION Spec
CONSTANTS
    TaskId <- MCTaskId
    Deps <- MCDeps
    Batches <- MCBatches
    Request <- MCRequest
    WorkerCpus = {1, 2}
    MaxWorkers = 2
    MaxSteals = 1
    None = None
INVARIANT TypeOK
INVARIANT sanity_check
INVARIANT ReactorAssertsHold
INVARIANT HeldByItsWorker
INVARIANT ClientHearsInOrder
PROPERTY EndIsFinal
CHECK_DEADLOCK FALSE
