------------------------------- MODULE MCTako -------------------------------
(***************************************************************************)
(* Tako for TLC: the top of the graph of submit_example_1 (tasks 11, 12,   *)
(* 13 and 16 of tests/utils.rs): two tasks without deps, a third one that  *)
(* consumes both, and a fourth one that consumes the third.                *)
(***************************************************************************)
EXTENDS Tako

MCTaskId == 1..3

MCDeps == 1 :> {} @@ 2 :> {} @@ 3 :> {1, 2}

\* a client submits the tasks in any batches
MCBatches == SUBSET MCTaskId

\* TaskBuilder::cpus_compact: the consumer asks for both cpus of a worker
MCRequest == 1 :> 1 @@ 2 :> 1 @@ 3 :> 2

\* the same with the consumer of the consumer, every task asking for one cpu
MCDeepTaskId == 1..4

MCDeepDeps == MCDeps @@ 4 :> {3}

\* the graph is submitted at once, as submit_example_1 does, or its last
\* task after the others, whatever has become of them
MCDeepBatches == {MCDeepTaskId, MCTaskId, {4}}

MCUnitRequest == [t \in MCDeepTaskId |-> 1]

=============================================================================
