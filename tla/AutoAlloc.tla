------------------------------ MODULE AutoAlloc ------------------------------
(***************************************************************************)
(* The automatic allocator of HyperQueue                                   *)
(* (crates/hyperqueue/src/server/autoalloc/process.rs).                    *)
(*                                                                         *)
(* A background process wakes up in fixed intervals.  In every tick it     *)
(* starts one process_descriptor coroutine per allocation queue            *)
(* ("descriptor") and joins them.  A coroutine first refreshes the status  *)
(* of the descriptor's active allocations by asking the queue handler      *)
(* (PBS/SLURM), then submits new allocations until the backlog of queued   *)
(* allocations is full or the waiting tasks are provided for.  Every       *)
(* handler call is an await: while a coroutine is suspended the other      *)
(* coroutines and the rest of the server run, so the descriptor can be     *)
(* removed, jobs can change and the batch system can move on.  When the    *)
(* server shuts down the tick is abandoned where it stands, and            *)
(* autoalloc_shutdown removes the allocations that are recorded as active. *)
(*                                                                         *)
(* The descriptor state (server/autoalloc/state.rs), the job table and the *)
(* batch system are not part of the sources at hand; they are modelled     *)
(* from the specification, as little as process.rs needs of them.          *)
(***************************************************************************)
EXTENDS Integers, Sequences, FiniteSets, SequencesExt, TLC

CONSTANTS
    MaxDescriptors,  \* bound: number of DescriptorIds the server hands out
    QueueInfos,      \* the QueueInfo values a client may add a queue with
    Jobs,            \* the jobs of the server
    MinTime,         \* job.resources.min_time of every job
    MaxWaiting,      \* bound: n_waiting_tasks of a job
    MaxAllocations,  \* bound: allocations the batch system accepts
    EventCap         \* capacity of a descriptor's event log

ASSUME /\ MaxDescriptors \in Nat \ {0}
       /\ MaxAllocations \in Nat \ {0}
       /\ MaxWaiting \in Nat
       /\ EventCap \in Nat
       /\ IsFiniteSet(Jobs)
       /\ \A job \in Jobs : MinTime[job] \in Nat
       /\ \A info \in QueueInfos :
             /\ info.backlog \in Nat
             /\ info.workers_per_alloc \in Nat
             /\ info.timelimit \in Nat

DescriptorId == 1..MaxDescriptors
AllocationId == 1..MaxAllocations

VARIABLES
    (* server state *)
    descriptors,         \* AutoAllocState: DescriptorId -> descriptor state,
                         \* defined on the queues that exist
    descriptor_counter,  \* number of DescriptorIds handed out so far
    jobs,                \* n_waiting_tasks of every job
    (* the batch system behind the queue handlers *)
    batch,               \* sequence of submitted allocations; the index of
                         \* an allocation is its AllocationId
    (* one process_descriptor coroutine per descriptor *)
    pc,                     \* where the coroutine stands
    allocation_ids,         \* refresh_allocations: ids still to be refreshed
    allocation_id,          \* refresh_allocations: id whose status is awaited
    allocations_to_create,  \* schedule_new_allocations: iterations left
    waiting_tasks,          \* schedule_new_allocations: tasks not provided for
    result,                 \* the answer of the handler call that is awaited
    (* the shutdown *)
    phase,               \* "running", "aborted", "removing" or "stopped"
    removals,            \* autoalloc_shutdown: the remove_allocation calls
                         \* and their results
    (* history, not read by any action *)
    seen,                \* what schedule_new_allocations saw when it took its
                         \* snapshot, and what it has created since
    lost                 \* the allocations that schedule_new_allocations got
                         \* from the handler and returned without recording

server_vars     == <<descriptors, descriptor_counter, jobs>>
refresh_locals  == <<allocation_ids, allocation_id>>
schedule_locals == <<allocations_to_create, waiting_tasks, seen>>
process_vars    == <<pc, refresh_locals, allocations_to_create, waiting_tasks,
                     result>>
shutdown_vars   == <<phase, removals>>
vars == <<server_vars, batch, process_vars, seen, lost, shutdown_vars>>

-----------------------------------------------------------------------------
(* Values *)

AllocationStatus == {"Queued", "Running", "Finished", "Failed"}

\* what the batch system knows of an allocation; "Gone" is an allocation it
\* has forgotten (get_allocation_status answers None)
BatchStatus == AllocationStatus \cup {"Gone"}

EventKind == {"QueueFail", "AllocationQueued", "AllocationStarted",
              "AllocationFinished", "AllocationFailed",
              "AllocationDisappeared", "StatusFail"}

\* the error text of QueueFail and StatusFail is left out; their id is 0
AllocationEvent == [kind : EventKind, id : AllocationId \cup {0}]

Event(kind, id) == [kind |-> kind, id |-> id]

PC == {"idle", "refresh", "status_call", "status_wait",
       "schedule", "queue_call", "queue_wait"}

\* What a handler call gives back.  "none": no call is awaited; "pending": the
\* handler has not answered yet; "Err": the call failed; "None" or a status:
\* the answer of get_allocation_status; "Created" with the id of the new
\* allocation: the answer of schedule_allocation.
Answer == [kind : {"none", "pending", "Err", "None", "Created"} \cup AllocationStatus,
           id   : AllocationId \cup {0}]

NoResult       == [kind |-> "none", id |-> 0]
Pending        == [kind |-> "pending", id |-> 0]
Answered(kind) == [kind |-> kind, id |-> 0]
Created(id)    == [kind |-> "Created", id |-> id]

Phase == {"running", "aborted", "removing", "stopped"}

NoSnapshot == [queued |-> 0, servable |-> 0, created |-> 0]

-----------------------------------------------------------------------------
(* The descriptor state, as process.rs uses it *)

is_active(status) == status \in {"Queued", "Running"}

active_allocations(descriptor) ==
    {a \in DOMAIN descriptor.allocations : is_active(descriptor.allocations[a])}

queued_allocations(descriptor) ==
    {a \in DOMAIN descriptor.allocations : descriptor.allocations[a] = "Queued"}

\* the event log is a ring: at capacity the oldest event is dropped
add_event(descriptor, event) ==
    LET log == Append(descriptor.events, event)
    IN  [descriptor EXCEPT
            !.events = SubSeq(log, Len(log) - Min({Len(log), EventCap}) + 1, Len(log))]

add_allocation(descriptor, id) ==
    [descriptor EXCEPT !.allocations = id :> "Queued" @@ @]

remove_allocation(descriptor, id) ==
    [descriptor EXCEPT !.allocations = Restrict(@, DOMAIN @ \ {id})]

\* get_or_continue!(descriptor.get_allocation_mut(id)).status = status
set_status(descriptor, id, status) ==
    IF id \in DOMAIN descriptor.allocations
    THEN [descriptor EXCEPT !.allocations[id] = status]
    ELSE descriptor

\* variant: a subtraction that does not saturate
unchecked_sub(a, b) == a - b

\* u32::saturating_sub, u64::saturating_sub
saturating_sub(a, b) == IF a > b THEN a - b ELSE 0

\* Reference for the history variable: the waiting tasks, counted one by
\* one, of the jobs that fit into an allocation of the queue.
ServableTasks(queue_info) ==
    Cardinality({<<job, n>> \in Jobs \X (1..MaxWaiting) :
                    n <= jobs[job] /\ MinTime[job] < queue_info.timelimit})

-----------------------------------------------------------------------------
(* The coroutine's bookkeeping *)

goto(d, label) == pc' = [pc EXCEPT ![d] = label]

await(d, answer) == result' = [result EXCEPT ![d] = answer]

exists(d) == d \in DOMAIN descriptors

\* what a coroutine does not touch
outside == <<batch, shutdown_vars, lost>>

-----------------------------------------------------------------------------
(* The tick *)

\* autoalloc_process wakes up and autoalloc_tick starts a coroutine for every
\* descriptor; the next tick starts only when all of them have returned.
autoalloc_tick ==
    /\ phase = "running"
    /\ \A d \in DescriptorId : pc[d] = "idle"
    /\ pc' = [d \in DescriptorId |-> IF exists(d) THEN "refresh" ELSE "idle"]
    /\ seen' = [d \in DescriptorId |-> NoSnapshot]
    /\ UNCHANGED <<server_vars, outside, refresh_locals, allocations_to_create,
                   waiting_tasks, result>>

-----------------------------------------------------------------------------
(* refresh_allocations *)

\* the ids of the active allocations are collected before the first await
refresh_snapshot(d) ==
    /\ pc[d] = "refresh"
    /\ \/ /\ ~exists(d)
          /\ goto(d, "schedule")
          /\ UNCHANGED allocation_ids
       \/ /\ exists(d)
          /\ allocation_ids' =
                [allocation_ids EXCEPT ![d] = active_allocations(descriptors[d])]
          /\ goto(d, "status_call")
    /\ UNCHANGED <<server_vars, outside, allocation_id, result, schedule_locals>>

\* the head of the loop: the handler is looked up again for every id, and
\* the coroutine is suspended until the handler has answered
refresh_call(d) ==
    /\ pc[d] = "status_call"
    /\ \/ /\ allocation_ids[d] = {}
          /\ goto(d, "schedule")
          /\ UNCHANGED <<refresh_locals, result>>
       \/ /\ allocation_ids[d] # {}
          /\ ~exists(d)
          /\ goto(d, "schedule")
          /\ allocation_ids' = [allocation_ids EXCEPT ![d] = {}]
          /\ UNCHANGED <<allocation_id, result>>
       \/ /\ exists(d)
          /\ \E id \in allocation_ids[d] :
                /\ allocation_id' = [allocation_id EXCEPT ![d] = id]
                /\ allocation_ids' = [allocation_ids EXCEPT ![d] = @ \ {id}]
          /\ await(d, Pending)
          /\ goto(d, "status_wait")
    /\ UNCHANGED <<server_vars, outside, schedule_locals>>

\* QueueHandler::get_allocation_status: an error, or what the batch system
\* knows of the allocation when it is asked
get_allocation_status(id) ==
    {"Err"} \cup {IF batch[id].status = "Gone" THEN "None" ELSE batch[id].status}

\* the handler answers while the coroutine is suspended
handler_get_allocation_status(d) ==
    /\ pc[d] = "status_wait"
    /\ result[d] = Pending
    /\ \E answer \in get_allocation_status(allocation_id[d]) :
          await(d, Answered(answer))
    /\ UNCHANGED <<server_vars, outside, pc, refresh_locals, schedule_locals>>

\* Ok(Some(status)), variant that reports a start whatever the allocation
\* was recorded as
on_status_every_running(descriptor, id, status) ==
    LET known  == id \in DOMAIN descriptor.allocations
        logged == CASE status = "Running"  ->
                         IF known THEN add_event(descriptor, Event("AllocationStarted", id))
                                  ELSE descriptor
                    [] status = "Finished" -> add_event(descriptor, Event("AllocationFinished", id))
                    [] status = "Failed"   -> add_event(descriptor, Event("AllocationFailed", id))
                    [] status = "Queued"   -> descriptor
    IN  IF status = "Running" /\ ~known THEN descriptor
        ELSE set_status(logged, id, status)

\* Ok(Some(status)): log the transition, then record the status
on_status(descriptor, id, status) ==
    LET known  == id \in DOMAIN descriptor.allocations
        queued == known /\ descriptor.allocations[id] = "Queued"
        logged == CASE status = "Running"  ->
                         IF queued THEN add_event(descriptor, Event("AllocationStarted", id))
                                   ELSE descriptor
                    [] status = "Finished" -> add_event(descriptor, Event("AllocationFinished", id))
                    [] status = "Failed"   -> add_event(descriptor, Event("AllocationFailed", id))
                    [] status = "Queued"   -> descriptor
    IN  IF status = "Running" /\ ~known THEN descriptor
        ELSE set_status(logged, id, status)

\* Ok(None): the batch system does not know the allocation any more
on_status_none(descriptor, id) ==
    add_event(remove_allocation(descriptor, id), Event("AllocationDisappeared", id))

\* Err, variant that also forgets the allocation
on_status_error_forget(descriptor, id) ==
    add_event(remove_allocation(descriptor, id), Event("StatusFail", 0))

\* Err: the failure is logged and the allocation keeps its status
on_status_error(descriptor, id) ==
    add_event(descriptor, Event("StatusFail", 0))

\* after the await: the state is borrowed again and the answer applied.  A
\* descriptor that was removed meanwhile is skipped (get_or_continue!).  The
\* loop variable allocation_id goes out of scope: it returns to its initial
\* value.
refresh_resume(d) ==
    /\ pc[d] = "status_wait"
    /\ result[d] # Pending
    /\ LET id     == allocation_id[d]
           answer == result[d].kind
           applied(descriptor) ==
               CASE answer = "Err"  -> on_status_error(descriptor, id)
                 [] answer = "None" -> on_status_none(descriptor, id)
                 [] OTHER           -> on_status(descriptor, id, answer)
       IN  descriptors' = IF exists(d)
                          THEN [descriptors EXCEPT ![d] = applied(@)]
                          ELSE descriptors
    /\ allocation_id' = [allocation_id EXCEPT ![d] = 1]
    /\ await(d, NoResult)
    /\ goto(d, "status_call")
    /\ UNCHANGED <<descriptor_counter, jobs, outside, allocation_ids,
                   schedule_locals>>

refresh_allocations(d) ==
    refresh_snapshot(d) \/ refresh_call(d) \/ refresh_resume(d)

-----------------------------------------------------------------------------
(* schedule_new_allocations *)

\* variant that also serves a job whose min_time equals the time limit
can_provide_worker_inclusive(job, queue_info) ==
    MinTime[job] <= queue_info.timelimit

can_provide_worker(job, queue_info) ==
    MinTime[job] < queue_info.timelimit

count_available_tasks(state, queue_info) ==
    MapThenSumSet(LAMBDA job : IF can_provide_worker(job, queue_info)
                               THEN state[job] ELSE 0,
                  Jobs)

\* variant that fills the whole backlog in every tick
backlog_left_ignoring_queue(descriptor) ==
    descriptor.info.backlog

\* info.backlog().saturating_sub(allocs_in_queue)
backlog_left(descriptor) ==
    saturating_sub(descriptor.info.backlog,
                   Cardinality(queued_allocations(descriptor)))

\* the snapshot: taken once, used across all awaits of the loop
schedule_snapshot(d) ==
    /\ pc[d] = "schedule"
    /\ \/ /\ ~exists(d)
          /\ goto(d, "idle")
          /\ UNCHANGED schedule_locals
       \/ /\ exists(d)
          /\ count_available_tasks(jobs, descriptors[d].info) = 0
          /\ goto(d, "idle")
          /\ UNCHANGED schedule_locals
       \/ /\ exists(d)
          /\ count_available_tasks(jobs, descriptors[d].info) > 0
          /\ allocations_to_create' =
                [allocations_to_create EXCEPT ![d] = backlog_left(descriptors[d])]
          /\ waiting_tasks' =
                [waiting_tasks EXCEPT
                    ![d] = count_available_tasks(jobs, descriptors[d].info)]
          /\ seen' = [seen EXCEPT ![d] =
                [queued   |-> Cardinality(queued_allocations(descriptors[d])),
                 servable |-> ServableTasks(descriptors[d].info),
                 created  |-> 0]]
          /\ goto(d, "queue_call")
    /\ UNCHANGED <<server_vars, outside, refresh_locals, result>>

\* variant of the loop head that does not count the iteration
iterations_left_uncounted(n) == n

\* for _ in 0..allocations_to_create
iterations_left(n) == n - 1

\* the locals of a coroutine that returns go out of scope
return(d) ==
    /\ goto(d, "idle")
    /\ allocations_to_create' = [allocations_to_create EXCEPT ![d] = 0]
    /\ waiting_tasks' = [waiting_tasks EXCEPT ![d] = 0]

\* the head of the loop: the handler is called with the descriptor's info,
\* and the coroutine is suspended until the handler has answered
schedule_call(d) ==
    /\ pc[d] = "queue_call"
    /\ \/ /\ allocations_to_create[d] = 0 \/ ~exists(d)
          /\ return(d)
          /\ UNCHANGED result
       \/ /\ allocations_to_create[d] > 0
          /\ exists(d)
          /\ allocations_to_create' =
                [allocations_to_create EXCEPT ![d] = iterations_left(@)]
          /\ await(d, Pending)
          /\ goto(d, "queue_wait")
          /\ UNCHANGED waiting_tasks
    /\ UNCHANGED <<server_vars, outside, refresh_locals, seen>>

\* the batch system has a new queued allocation, whose id is the next one of
\* its counter
submitted(d) == Append(batch, [queue |-> d, status |-> "Queued"])

\* QueueHandler::schedule_allocation answers while the coroutine is
\* suspended: the submission failed, or the allocation is in the queue
handler_schedule_allocation(d) ==
    /\ pc[d] = "queue_wait"
    /\ result[d] = Pending
    /\ \/ /\ await(d, Answered("Err"))
          /\ UNCHANGED batch
       \/ /\ Len(batch) < MaxAllocations
          /\ batch' = submitted(d)
          /\ await(d, Created(Len(batch) + 1))
    /\ UNCHANGED <<server_vars, shutdown_vars, lost, pc, refresh_locals,
                   schedule_locals>>

\* after the await, Ok(created): the allocation is logged and recorded, and
\* the loop stops when every waiting task has a worker.  Nothing is recorded
\* for a descriptor that was removed meanwhile (get_or_return!).
\* workers_per_alloc is read from the descriptor's info, which never changes.
schedule_resume_ok(d) ==
    /\ pc[d] = "queue_wait"
    /\ result[d].kind = "Created"
    /\ await(d, NoResult)
    /\ LET id   == result[d].id
           left == saturating_sub(waiting_tasks[d],
                                  descriptors[d].info.workers_per_alloc)
       IN  \/ /\ ~exists(d)
              /\ return(d)
              /\ lost' = lost \cup {id}
              /\ UNCHANGED <<descriptors, seen>>
           \/ /\ exists(d)
              /\ descriptors' = [descriptors EXCEPT ![d] =
                    add_allocation(add_event(@, Event("AllocationQueued", id)), id)]
              /\ seen' = [seen EXCEPT ![d].created = @ + 1]
              /\ UNCHANGED lost
              /\ \/ /\ left = 0
                    /\ return(d)
                 \/ /\ left # 0
                    /\ waiting_tasks' = [waiting_tasks EXCEPT ![d] = left]
                    /\ goto(d, "queue_call")
                    /\ UNCHANGED allocations_to_create
    /\ UNCHANGED <<descriptor_counter, jobs, batch, shutdown_vars, refresh_locals>>

\* after the await, Err: the failure is logged and the loop goes on
schedule_resume_err(d) ==
    /\ pc[d] = "queue_wait"
    /\ result[d].kind = "Err"
    /\ await(d, NoResult)
    /\ \/ /\ ~exists(d)
          /\ return(d)
          /\ UNCHANGED descriptors
       \/ /\ exists(d)
          /\ descriptors' = [descriptors EXCEPT ![d] =
                add_event(@, Event("QueueFail", 0))]
          /\ goto(d, "queue_call")
          /\ UNCHANGED <<allocations_to_create, waiting_tasks>>
    /\ UNCHANGED <<descriptor_counter, jobs, outside, refresh_locals, seen>>

schedule_new_allocations(d) ==
    \/ schedule_snapshot(d)
    \/ schedule_call(d)
    \/ schedule_resume_ok(d)
    \/ schedule_resume_err(d)

process_descriptor(d) ==
    refresh_allocations(d) \/ schedule_new_allocations(d)

-----------------------------------------------------------------------------
(* The rest of the server and the batch system *)

\* variant that gives the id of a removed queue to the next one
add_queue_reusing_id(info) ==
    /\ phase = "running"
    /\ DOMAIN descriptors # DescriptorId
    /\ LET id == Min(DescriptorId \ DOMAIN descriptors)
       IN  /\ descriptor_counter' = Max({descriptor_counter, id})
           /\ descriptors' = id :> [info |-> info, allocations |-> <<>>,
                                    events |-> <<>>]
                             @@ descriptors
    /\ UNCHANGED <<jobs, outside, process_vars, seen>>

\* AutoAllocRequest::AddQueue: a new descriptor under the next DescriptorId
add_queue(info) ==
    /\ phase = "running"
    /\ descriptor_counter < MaxDescriptors
    /\ descriptor_counter' = descriptor_counter + 1
    /\ descriptors' = (descriptor_counter + 1) :>
                         [info |-> info, allocations |-> <<>>, events |-> <<>>]
                      @@ descriptors
    /\ UNCHANGED <<jobs, outside, process_vars, seen>>

\* AutoAllocRequest::RemoveQueue: the descriptor leaves the state
remove_queue(d) ==
    /\ phase = "running"
    /\ exists(d)
    /\ descriptors' = Restrict(descriptors, DOMAIN descriptors \ {d})
    /\ UNCHANGED <<descriptor_counter, jobs, outside, process_vars, seen>>

\* tasks are submitted, start, finish or are cancelled
jobs_change(job) ==
    /\ phase = "running"
    /\ \E n \in (0..MaxWaiting) \ {jobs[job]} :
          jobs' = [jobs EXCEPT ![job] = n]
    /\ UNCHANGED <<descriptors, descriptor_counter, outside, process_vars, seen>>

\* the life of an allocation in the batch system: it starts, ends, fails, is
\* cancelled from outside or reaped
BatchSuccessors(status) ==
    CASE status = "Queued"  -> {"Running", "Failed", "Gone"}
      [] status = "Running" -> {"Finished", "Failed", "Gone"}
      [] status \in {"Finished", "Failed"} -> {"Gone"}
      [] status = "Gone"    -> {}

batch_step(id) ==
    /\ \E status \in BatchSuccessors(batch[id].status) :
          batch' = [batch EXCEPT ![id].status = status]
    /\ UNCHANGED <<server_vars, process_vars, seen, lost, shutdown_vars>>

-----------------------------------------------------------------------------
(* The shutdown *)

\* The server stops: the future of autoalloc_process is dropped, and with it
\* the coroutines of the tick, wherever they are suspended.  What they have
\* written stays; an answer that was on its way is lost.
root_shutdown ==
    /\ phase = "running"
    /\ phase' = "aborted"
    /\ pc' = [d \in DescriptorId |-> "idle"]
    /\ allocation_ids' = [d \in DescriptorId |-> {}]
    /\ allocation_id' = [d \in DescriptorId |-> 1]
    /\ allocations_to_create' = [d \in DescriptorId |-> 0]
    /\ waiting_tasks' = [d \in DescriptorId |-> 0]
    /\ result' = [d \in DescriptorId |-> NoResult]
    /\ seen' = [d \in DescriptorId |-> NoSnapshot]
    /\ UNCHANGED <<server_vars, batch, removals, lost>>

\* variant that removes the allocations that still wait only
shutdown_targets_queued(state) ==
    UNION {queued_allocations(state[d]) : d \in DOMAIN state}

\* .descriptors().flat_map(.. all_allocations().filter(is_active) ..)
shutdown_targets(state) ==
    UNION {active_allocations(state[d]) : d \in DOMAIN state}

\* autoalloc_shutdown up to its await: one remove_allocation call for every
\* allocation that some descriptor records as active
autoalloc_shutdown_snapshot ==
    /\ phase = "aborted"
    /\ phase' = "removing"
    /\ removals' = [id \in shutdown_targets(descriptors) |-> "pending"]
    /\ UNCHANGED <<server_vars, batch, process_vars, seen, lost>>

\* QueueHandler::remove_allocation answers: the allocation is cancelled, which
\* does no harm to one that has ended already, or the call failed
handler_remove_allocation(id) ==
    /\ removals[id] = "pending"
    /\ \/ /\ removals' = [removals EXCEPT ![id] = "Ok"]
          /\ batch' = [batch EXCEPT ![id].status = "Gone"]
       \/ /\ removals' = [removals EXCEPT ![id] = "Err"]
          /\ UNCHANGED batch
    /\ UNCHANGED <<server_vars, process_vars, seen, lost, phase>>

\* join_all has every result; they are logged and the server is gone
autoalloc_shutdown_join ==
    /\ phase = "removing"
    /\ \A id \in DOMAIN removals : removals[id] # "pending"
    /\ phase' = "stopped"
    /\ UNCHANGED <<server_vars, batch, process_vars, seen, lost, removals>>

autoalloc_shutdown == autoalloc_shutdown_snapshot \/ autoalloc_shutdown_join

-----------------------------------------------------------------------------
(* The specification *)

Init ==
    /\ descriptors = <<>>
    /\ descriptor_counter = 0
    /\ jobs = [job \in Jobs |-> 0]
    /\ batch = <<>>
    /\ pc = [d \in DescriptorId |-> "idle"]
    /\ allocation_ids = [d \in DescriptorId |-> {}]
    /\ allocation_id = [d \in DescriptorId |-> 1]
    /\ allocations_to_create = [d \in DescriptorId |-> 0]
    /\ waiting_tasks = [d \in DescriptorId |-> 0]
    /\ result = [d \in DescriptorId |-> NoResult]
    /\ phase = "running"
    /\ removals = <<>>
    /\ seen = [d \in DescriptorId |-> NoSnapshot]
    /\ lost = {}

\* the queue handler of a descriptor, while its coroutine is suspended
handler(d) ==
    handler_get_allocation_status(d) \/ handler_schedule_allocation(d)

Environment ==
    \/ \E info \in QueueInfos : add_queue(info)
    \/ \E d \in DescriptorId : remove_queue(d)
    \/ \E job \in Jobs : jobs_change(job)
    \/ \E id \in DOMAIN batch : batch_step(id)
    \/ root_shutdown
    \/ \E id \in DOMAIN removals : handler_remove_allocation(id)

Next ==
    \/ autoalloc_tick
    \/ \E d \in DescriptorId : process_descriptor(d)
    \/ \E d \in DescriptorId : handler(d)
    \/ autoalloc_shutdown
    \/ Environment

Spec == Init /\ [][Next]_vars

\* A coroutine that can take a step takes one: the executor polls every
\* future of join_all.  A call of the queue handler returns.  Nothing is
\* assumed of the clients, the jobs, the batch system or the timer.
Fairness ==
    \A d \in DescriptorId :
        /\ WF_vars(process_descriptor(d))
        /\ WF_vars(handler(d))

FairSpec == Spec /\ Fairness

-----------------------------------------------------------------------------
(* The specification that the allocator implements *)

\* the queues of AutoAllocAbstract are the descriptors; the coroutines, the
\* batch system, the jobs and the shutdown are hidden
Abstract == INSTANCE AutoAllocAbstract
                WITH queues <- descriptors, issued <- descriptor_counter

-----------------------------------------------------------------------------
(* Properties *)

DescriptorState ==
    [info        : QueueInfos,
     allocations : UNION {[ids -> AllocationStatus] : ids \in SUBSET AllocationId},
     events      : BoundedSeq(AllocationEvent, EventCap)]

\* The type invariant.
TypeOK ==
    /\ descriptor_counter \in 0..MaxDescriptors
    /\ DOMAIN descriptors \subseteq 1..descriptor_counter
    /\ \A d \in DOMAIN descriptors : descriptors[d] \in DescriptorState
    /\ jobs \in [Jobs -> 0..MaxWaiting]
    /\ Len(batch) <= MaxAllocations
    /\ \A id \in DOMAIN batch :
          batch[id] \in [queue : DescriptorId, status : BatchStatus]
    /\ pc \in [DescriptorId -> PC]
    /\ allocation_ids \in [DescriptorId -> SUBSET AllocationId]
    /\ allocation_id \in [DescriptorId -> AllocationId]
    /\ allocations_to_create \in [DescriptorId -> Nat]
    /\ waiting_tasks \in [DescriptorId -> 0..(Cardinality(Jobs) * MaxWaiting)]
    /\ result \in [DescriptorId -> Answer]
    /\ phase \in Phase
    /\ DOMAIN removals \subseteq AllocationId
    /\ \A id \in DOMAIN removals : removals[id] \in {"pending", "Ok", "Err"}
    /\ seen \in [DescriptorId -> [queued : Nat, servable : Nat, created : Nat]]
    /\ lost \subseteq DOMAIN batch

\* The backlog bounds the allocations that wait in the batch system: however
\* the ticks, the status answers and the handler failures fall, the loop of
\* schedule_new_allocations never records more queued allocations than
\* info.backlog.
QueuedWithinBacklog ==
    \A d \in DOMAIN descriptors :
        Cardinality(queued_allocations(descriptors[d])) <= descriptors[d].info.backlog

\* What the glossary and the testable properties of the specification say of
\* the backlog: it bounds the active (queued or running) allocations of a
\* descriptor.  schedule_new_allocations counts queued_allocations() only.
ActiveWithinBacklog ==
    \A d \in DOMAIN descriptors :
        Cardinality(active_allocations(descriptors[d])) <= descriptors[d].info.backlog

\* While the server runs and its queue exists, no allocation is lost: what
\* schedule_allocation created for the queue and the batch system still
\* knows is in the descriptor's map, so that refresh_allocations follows it,
\* or is the answer that schedule_new_allocations is about to record.  Only
\* an answer None of get_allocation_status removes an allocation; a failed or
\* an outdated answer does not.
TrackedWhileQueueExists ==
    phase = "running" =>
        \A id \in DOMAIN batch :
            LET d == batch[id].queue
            IN  exists(d) /\ batch[id].status # "Gone"
                    => \/ id \in DOMAIN descriptors[d].allocations
                       \/ result[d] = Created(id)

EventRank(kind) ==
    CASE kind = "AllocationQueued"  -> 0
      [] kind = "AllocationStarted" -> 1
      [] OTHER                      -> 2

\* The event log of a descriptor tells the life of every allocation in order
\* and once: AllocationQueued, then at most one AllocationStarted, then at
\* most one of AllocationFinished, AllocationFailed, AllocationDisappeared.
\* refresh_allocations must report a start only for an allocation recorded
\* as queued, and never refreshes an allocation it recorded as ended.
EventLogFollowsLifecycle ==
    \A d \in DOMAIN descriptors :
        LET log == descriptors[d].events
        IN  \A i, j \in DOMAIN log :
                i < j /\ log[i].id # 0 /\ log[i].id = log[j].id
                    => EventRank(log[i].kind) < EventRank(log[j].kind)

\* In one tick schedule_new_allocations creates no more allocations than the
\* backlog had room for at its snapshot, and no more than the waiting tasks
\* it saw need when every worker takes one task: with 5 servable tasks and
\* 2 workers per allocation it stops after 3.  A job whose min_time does not
\* fit into the queue's time limit justifies no allocation.
TickAllocationsJustified ==
    \A d \in DOMAIN descriptors :
        /\ seen[d].queued + seen[d].created <= descriptors[d].info.backlog
        /\ seen[d].created > 0 =>
              (seen[d].created - 1) * descriptors[d].info.workers_per_alloc
                  < seen[d].servable

\* What a queue costs that is removed while schedule_allocation is awaited:
\* the coroutine finds no descriptor to record the new allocation in and
\* returns (process.rs:220), and the allocation stays in the batch system
\* with nobody to poll or remove it.  It is one allocation for a queue and
\* no more, since the loop ends at the first lookup that fails, and it is
\* never an allocation of a queue that exists: a DescriptorId is not handed
\* out twice, so the lookup after the await finds the queue that the call
\* was made for or none.
RemovalLosesOneAllocation ==
    \A d \in DescriptorId :
        LET dropped == {id \in lost : batch[id].queue = d}
        IN  /\ Cardinality(dropped) <= 1
            /\ dropped # {} => ~exists(d) /\ pc[d] = "idle"

\* autoalloc_shutdown leaves no allocation behind that the server knows of:
\* when it has returned, an allocation that a descriptor holds and that still
\* waits or runs in the batch system is one whose remove_allocation call
\* failed.  The status a descriptor records is as old as its last refresh, so
\* the filter is_active of the snapshot must let through every allocation
\* that may still be alive, and the aborted tick must record nothing after
\* the snapshot is taken.
ShutdownRemovesRecorded ==
    phase = "stopped" =>
        \A id \in DOMAIN batch :
            LET d == batch[id].queue
                tracked == exists(d) /\ id \in DOMAIN descriptors[d].allocations
            IN  tracked /\ is_active(batch[id].status)
                    => id \in DOMAIN removals /\ removals[id] = "Err"

\* What the comment of autoalloc_shutdown says: "Removes all remaining active
\* allocations".  When every remove_allocation call succeeded, no allocation
\* of a queue that exists waits or runs in the batch system.
ShutdownRemovesActive ==
    (phase = "stopped" /\ \A id \in DOMAIN removals : removals[id] = "Ok") =>
        \A id \in DOMAIN batch :
            exists(batch[id].queue) => ~is_active(batch[id].status)

\* The allocator implements AutoAllocAbstract: whatever the interleaving of
\* the coroutines, the handler's answers and the requests of clients, a step
\* changes the descriptors by one step of the life of one allocation, with
\* its event, or not at all.  An answer of get_allocation_status is as old
\* as its await, and is applied to what the descriptor records now
\* (process.rs:106-157): it must not take an allocation back in its life,
\* report a start twice, or submit beyond the backlog that the snapshot of
\* schedule_new_allocations saw (process.rs:185-247).
ImplementsAbstract == Abstract!Spec

\* Every tick ends: join_all returns, so that the next tick can start.  The
\* loop of refresh_allocations runs over a snapshot of ids and the loop of
\* schedule_new_allocations counts its iterations whether the handler
\* succeeds or fails, so a handler that keeps failing, or a batch system that
\* keeps changing, cannot hold a coroutine forever.
TickTerminates ==
    (\E d \in DescriptorId : pc[d] # "idle")
        ~> (\A d \in DescriptorId : pc[d] = "idle")

=============================================================================
