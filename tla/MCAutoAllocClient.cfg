\* Two commands at a time against one server.  The backlogs stand on both
\* sides of the limit of 100; a response to `info` lists up to two
\* allocations, and a filter keeps one of two or none.
SPECIFICATION Spec
CONSTANTS
    Clients = {c1, c2}
    Backlogs = {100, 101}
    WorkerCounts = {1}
    FilterTexts = {"queued", "running", "Queued"}
    MaxQueues = 2
    MaxListed = 2
    None = None
INVARIANTS
    TypeOK
    ReportMatchesServer
    ErrorWithoutChangeUnlessLost
    InfoShowsMatching
