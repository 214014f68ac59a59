----------------------------- MODULE MCAutoAlloc -----------------------------
(***************************************************************************)
(* AutoAlloc for TLC: the kinds of queue and the jobs of the runs.          *)
(***************************************************************************)
EXTENDS AutoAlloc

CONSTANTS j1, j2

\* a queue of single-worker allocations with room for two, and a queue of
\* two-worker allocations with room for one and a shorter time limit
MCQueueInfos ==
    {[backlog |-> 2, workers_per_alloc |-> 1, timelimit |-> 2],
     [backlog |-> 1, workers_per_alloc |-> 2, timelimit |-> 1]}

\* j1 fits into every queue; j2 needs exactly the time limit of the first
\* queue, which is not enough (min_time < timelimit)
MCMinTime == j1 :> 0 @@ j2 :> 2

\* queues with the zeros that the client's add_queue does not reject: no
\* worker per allocation, and no room for an allocation
MCUncheckedQueueInfos ==
    {[backlog |-> 1, workers_per_alloc |-> 0, timelimit |-> 2],
     [backlog |-> 0, workers_per_alloc |-> 1, timelimit |-> 1]}

\* the queues of the runs on one descriptor: those a user means to add, and
\* those that slip through
MCAllQueueInfos == MCQueueInfos \cup MCUncheckedQueueInfos

\* one kind of queue for the run with two descriptors: room for one
\* allocation, so that the backlog fills
MCTightQueueInfo == {[backlog |-> 1, workers_per_alloc |-> 1, timelimit |-> 1]}

=============================================================================
