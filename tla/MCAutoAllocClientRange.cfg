\* The parameters that the client lets through, against the ranges of the
\* interface description.
SPECIFICATION Spec
CONSTANTS
    Clients = {c1}
    Backlogs = {0, 1, 100, 101}
    WorkerCounts = {0, 1}
    FilterTexts = {"queued"}
    MaxQueues = 1
    MaxListed = 0
    None = None
INVARIANTS
    AcceptedParamsInRange
