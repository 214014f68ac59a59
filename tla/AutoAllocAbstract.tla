-------------------------- MODULE AutoAllocAbstract --------------------------
(***************************************************************************)
(* What the automatic allocator promises to whoever reads the state of an  *)
(* allocation queue (the commands `list`, `info` and `events`): the state  *)
(* of a queue changes only by the steps of the life of an allocation, one  *)
(* allocation at a time, and every step leaves its event.                  *)
(*                                                                         *)
(* There are no ticks, no coroutines, no handler calls and no batch system *)
(* here.  AutoAlloc implements this specification with its descriptors for *)
(* the queues: the steps of process.rs that only move a coroutine, ask the *)
(* handler or change the jobs are steps that leave the queues as they are. *)
(***************************************************************************)
EXTENDS Naturals, Sequences, FiniteSets, Functions, TLC

CONSTANTS
    DescriptorId,  \* the ids of queues
    AllocationId,  \* the ids of allocations
    QueueInfos,    \* the parameters a queue may have
    EventCap       \* capacity of the event log of a queue

VARIABLES
    queues,  \* the queues that exist: their info, allocations and events
    issued   \* the number of ids given to queues so far

vars == <<queues, issued>>

Queue(info) == [info |-> info, allocations |-> <<>>, events |-> <<>>]

Queued(q) == {a \in DOMAIN q.allocations : q.allocations[a] = "Queued"}

Active(q) == {a \in DOMAIN q.allocations : q.allocations[a] \in {"Queued", "Running"}}

\* the log keeps the last EventCap events
Logged(q, kind, a) ==
    LET log == Append(q.events, [kind |-> kind, id |-> a])
    IN  [q EXCEPT !.events =
            SubSeq(log, IF Len(log) > EventCap THEN Len(log) - EventCap + 1 ELSE 1,
                   Len(log))]

\* the steps of the life of an allocation, and the event of each
Lifecycle ==
    {<<"Queued", "Running", "AllocationStarted">>,
     <<"Queued", "Finished", "AllocationFinished">>,
     <<"Queued", "Failed", "AllocationFailed">>,
     <<"Running", "Finished", "AllocationFinished">>,
     <<"Running", "Failed", "AllocationFailed">>}

-----------------------------------------------------------------------------

\* a queue is added under an id that no queue had before
AddQueue(info) ==
    /\ issued + 1 \in DescriptorId
    /\ issued' = issued + 1
    /\ queues' = (issued + 1) :> Queue(info) @@ queues

\* a queue is removed, with what it recorded
RemoveQueue(d) ==
    /\ queues' = Restrict(queues, DOMAIN queues \ {d})
    /\ UNCHANGED issued

\* an allocation is submitted while the backlog has room for it
Submit(d, a) ==
    /\ a \notin DOMAIN queues[d].allocations
    /\ Cardinality(Queued(queues[d])) < queues[d].info.backlog
    /\ queues' = [queues EXCEPT ![d] =
          [Logged(@, "AllocationQueued", a) EXCEPT !.allocations = a :> "Queued" @@ @]]
    /\ UNCHANGED issued

\* an active allocation starts or ends
Advance(d, a) ==
    /\ a \in Active(queues[d])
    /\ \E step \in Lifecycle :
          /\ step[1] = queues[d].allocations[a]
          /\ queues' = [queues EXCEPT ![d] =
                [Logged(@, step[3], a) EXCEPT !.allocations[a] = step[2]]]
    /\ UNCHANGED issued

\* an active allocation is gone from the batch system and from the queue
Disappear(d, a) ==
    /\ a \in Active(queues[d])
    /\ queues' = [queues EXCEPT ![d] =
          [Logged(@, "AllocationDisappeared", a) EXCEPT
              !.allocations = Restrict(@, DOMAIN @ \ {a})]]
    /\ UNCHANGED issued

\* a call of the handler fails: the failure is logged and nothing else changes
Fail(d) ==
    /\ \E kind \in {"QueueFail", "StatusFail"} :
          queues' = [queues EXCEPT ![d] = Logged(@, kind, 0)]
    /\ UNCHANGED issued

Init ==
    /\ queues = <<>>
    /\ issued = 0

Next ==
    \/ \E info \in QueueInfos : AddQueue(info)
    \/ \E d \in DOMAIN queues :
          \/ RemoveQueue(d)
          \/ Fail(d)
          \/ \E a \in AllocationId : Submit(d, a) \/ Advance(d, a) \/ Disappear(d, a)

Spec == Init /\ [][Next]_vars

=============================================================================
