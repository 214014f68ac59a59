--------------------------- MODULE MCAutoAllocTests ---------------------------
(***************************************************************************)
(* AutoAllocTests for TLC: the job without time request of create_state,   *)
(* and the job of test_ignore_task_with_high_time_request.                 *)
(***************************************************************************)
EXTENDS AutoAllocTests

CONSTANTS j1, j2

\* min_time in seconds, as the tests give it
MCTestMinTime == j1 :> 0 @@ j2 :> 60 * 60

\* the queues that the tests add
MCTestQueueInfos == {t.descriptors[1].info : t \in Tests}

=============================================================================
