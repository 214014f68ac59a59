--------------------------- MODULE AutoAllocTests ---------------------------
(***************************************************************************)
(* The unit tests of the automatic allocator (mod tests of                 *)
(* crates/hyperqueue/src/server/autoalloc/process.rs), run on the model.   *)
(*                                                                         *)
(* A test builds a state with one job, adds one descriptor with a handler  *)
(* of its own, awaits autoalloc_tick a number of times and asserts how     *)
(* many allocations the descriptor holds.  Here the coroutine is the one   *)
(* of AutoAlloc, step for step; the batch system and the clients of        *)
(* AutoAlloc are replaced by the handler of the test, which answers from   *)
(* its custom_state, and by the test itself, which awaits every tick       *)
(* before it goes on.  What the tests assert of the code is a property of  *)
(* the model: a model that disagreed with the code on a scenario that the  *)
(* code's authors wrote down would fail here.                              *)
(*                                                                         *)
(* The descriptor 0 of the tests is the DescriptorId 1, and the allocation *)
(* ids "0", "1", ... of the handlers are the AllocationIds 1, 2, ...       *)
(***************************************************************************)
EXTENDS AutoAlloc

VARIABLES
    test,          \* the test that runs
    ticks,         \* the calls of autoalloc_tick that the test has made
    custom_state   \* Handler::custom_state: the counter of ids, and the
                   \* number of checks every allocation still waits for

test_vars == <<test, ticks, custom_state>>
all_vars  == <<vars, test_vars>>

-----------------------------------------------------------------------------
(* The helpers of the tests *)

\* a job that waits with all of its tasks: the job of that min_time
create_job(tasks, min_time) ==
    [job \in {j \in Jobs : MinTime[j] = min_time} |-> tasks]

\* a server state, with a job without time request when tasks wait
create_state(n_waiting_tasks) ==
    IF n_waiting_tasks > 0
    THEN create_job(n_waiting_tasks, 0) @@ [job \in Jobs |-> 0]
    ELSE [job \in Jobs |-> 0]

\* a PBS queue is added under the number of descriptors as its id
add_descriptor(state, backlog, workers_per_alloc, timelimit) ==
    (Cardinality(DOMAIN state) + 1) :>
        [info |-> [backlog |-> backlog, workers_per_alloc |-> workers_per_alloc,
                   timelimit |-> timelimit],
         allocations |-> <<>>, events |-> <<>>]
    @@ state

\* the closures of a handler are named by what they do; remove_fn, which
\* answers Ok(()) in every test, is never called by a tick
Handler(state, schedule_fn, status_fn) ==
    [custom_state |-> state, schedule_fn |-> schedule_fn, status_fn |-> status_fn]

NoQueueTimes == [id \in {} |-> 0]

\* every submission succeeds under the next id, every allocation waits
always_queued_handler ==
    Handler([id |-> 0, queue |-> NoQueueTimes], "next_id", "Queued")

get_allocations(state, descriptor) == state[descriptor].allocations

\* assert_eq!(get_allocations(..).len(), n) after so many ticks
len_is(after, n) ==
    {[after |-> after, status |-> AllocationStatus, count |-> n]}

check_allocation_count(after, queued, running) ==
    {[after |-> after, status |-> {"Queued"}, count |-> queued],
     [after |-> after, status |-> {"Running"}, count |-> running]}

-----------------------------------------------------------------------------
(* The tests: what they set up, how many ticks they await, what they assert *)

\* the handler fails every submission.  The test reads the first event and
\* compares it with QueueFail in a matches! whose value it drops; the
\* comparison is asserted here.
test_log_failed_allocation_attempt ==
    [state       |-> create_state(1000),
     handler     |-> Handler([id |-> 0, queue |-> NoQueueTimes], "bail", "Queued"),
     descriptors |-> add_descriptor(<<>>, 1, 1, 60),
     ticks       |-> 1,
     asserts     |-> {},
     events      |-> {[after |-> 1, index |-> 1, kind |-> "QueueFail"]}]

\* the worker_count of the allocations, which the test also compares with
\* workers_per_alloc, is not part of the state of the model
test_fill_backlog ==
    [state       |-> create_state(1000),
     handler     |-> always_queued_handler,
     descriptors |-> add_descriptor(<<>>, 4, 2, 60),
     ticks       |-> 1,
     asserts     |-> len_is(1, 4),
     events      |-> {}]

test_do_nothing_on_full_backlog ==
    [state       |-> create_state(1000),
     handler     |-> always_queued_handler,
     descriptors |-> add_descriptor(<<>>, 4, 1, 60),
     ticks       |-> 4,
     asserts     |-> len_is(4, 4),
     events      |-> {}]

\* the first allocation runs at its first check, the second after two
\* checks, the third after three, every later one after a thousand
test_keep_backlog_filled ==
    [state       |-> create_state(1000),
     handler     |-> Handler([id |-> 0, queue |-> 1 :> 0 @@ 2 :> 2 @@ 3 :> 3],
                             "next_id", "queue_time"),
     descriptors |-> add_descriptor(<<>>, 3, 1, 60),
     ticks       |-> 5,
     asserts     |-> UNION {check_allocation_count(1, 3, 0),
                            check_allocation_count(2, 3, 1),
                            check_allocation_count(3, 3, 1),
                            check_allocation_count(4, 3, 2),
                            check_allocation_count(5, 3, 3)},
     events      |-> {}]

test_do_not_create_allocations_without_tasks ==
    [state       |-> create_state(0),
     handler     |-> always_queued_handler,
     descriptors |-> add_descriptor(<<>>, 3, 1, 60),
     ticks       |-> 1,
     asserts     |-> len_is(1, 0),
     events      |-> {}]

\* 5 tasks, 3 * 2 workers: the last two allocations are not created
test_do_not_fill_backlog_when_tasks_run_out ==
    [state       |-> create_state(5),
     handler     |-> always_queued_handler,
     descriptors |-> add_descriptor(<<>>, 5, 2, 60),
     ticks       |-> 1,
     asserts     |-> len_is(1, 3),
     events      |-> {}]

\* allocations last for 30 minutes, the job needs 60
test_ignore_task_with_high_time_request ==
    [state       |-> create_job(1, 60 * 60) @@ create_state(0),
     handler     |-> always_queued_handler,
     descriptors |-> add_descriptor(<<>>, 1, 1, 60 * 30),
     ticks       |-> 1,
     asserts     |-> len_is(1, 0),
     events      |-> {}]

Tests ==
    {test_log_failed_allocation_attempt, test_fill_backlog,
     test_do_nothing_on_full_backlog, test_keep_backlog_filled,
     test_do_not_create_allocations_without_tasks,
     test_do_not_fill_backlog_when_tasks_run_out,
     test_ignore_task_with_high_time_request}

-----------------------------------------------------------------------------
(* The handler of the test *)

\* Handler::schedule_allocation calls schedule_fn with the custom state: it
\* bails out, or hands out the next id of its counter
test_schedule_allocation(d) ==
    /\ pc[d] = "queue_wait"
    /\ result[d] = Pending
    /\ \/ /\ test.handler.schedule_fn = "bail"
          /\ await(d, Answered("Err"))
          /\ UNCHANGED custom_state
       \/ /\ test.handler.schedule_fn = "next_id"
          /\ custom_state' = [custom_state EXCEPT !.id = @ + 1]
          /\ await(d, Created(custom_state.id + 1))
    /\ UNCHANGED <<server_vars, outside, pc, refresh_locals, schedule_locals,
                   test, ticks>>

\* the time an allocation still waits, 1000 checks when nothing is noted
queue_time(id) ==
    IF id \in DOMAIN custom_state.queue THEN custom_state.queue[id] ELSE 1000

\* Handler::get_allocation_status calls status_fn with the custom state: the
\* allocation waits, or it waits until its queue time, one less at every
\* check, is used up
test_get_allocation_status(d) ==
    /\ pc[d] = "status_wait"
    /\ result[d] = Pending
    /\ LET id == allocation_id[d]
       IN  \/ /\ test.handler.status_fn = "Queued"
              /\ await(d, Answered("Queued"))
              /\ UNCHANGED custom_state
           \/ /\ test.handler.status_fn = "queue_time"
              /\ custom_state' =
                    [custom_state EXCEPT !.queue = id :> (queue_time(id) - 1) @@ @]
              /\ await(d, Answered(IF queue_time(id) <= 0 THEN "Running"
                                                          ELSE "Queued"))
    /\ UNCHANGED <<server_vars, outside, pc, refresh_locals, schedule_locals,
                   test, ticks>>

test_handler(d) == test_schedule_allocation(d) \/ test_get_allocation_status(d)

-----------------------------------------------------------------------------
(* The run of a test *)

\* the state that the test has built when it awaits its first tick
TestInit ==
    /\ test \in Tests
    /\ ticks = 0
    /\ custom_state = test.handler.custom_state
    /\ descriptors = test.descriptors
    /\ descriptor_counter = Cardinality(DOMAIN test.descriptors)
    /\ jobs = test.state
    /\ batch = <<>>
    /\ pc = [d \in DescriptorId |-> "idle"]
    /\ allocation_ids = [d \in DescriptorId |-> {}]
    /\ allocation_id = [d \in DescriptorId |-> 1]
    /\ allocations_to_create = [d \in DescriptorId |-> 0]
    /\ waiting_tasks = [d \in DescriptorId |-> 0]
    /\ result = [d \in DescriptorId |-> NoResult]
    /\ phase = "running"
    /\ removals = <<>>
    /\ seen = [d \in DescriptorId |-> NoSnapshot]
    /\ lost = {}

\* autoalloc_tick(&state).await: the next tick of the test
test_tick ==
    /\ ticks < test.ticks
    /\ ticks' = ticks + 1
    /\ autoalloc_tick
    /\ UNCHANGED <<test, custom_state>>

TestNext ==
    \/ test_tick
    \/ \E d \in DescriptorId : process_descriptor(d) /\ UNCHANGED test_vars
    \/ \E d \in DescriptorId : test_handler(d)

\* A test is one task of a single-threaded runtime that is driven until the
\* test returns: a step that can be taken is taken.
TestSpec == TestInit /\ [][TestNext]_all_vars /\ WF_all_vars(TestNext)

-----------------------------------------------------------------------------
(* Properties *)

\* the test has awaited so many ticks, and the last of them has returned
awaited(n) == ticks = n /\ \A d \in DescriptorId : pc[d] = "idle"

\* The assertions of the tests of process.rs hold: after the ticks that a
\* test awaits, the descriptor holds as many allocations, queued and
\* running, as the test expects of autoalloc_tick: a full backlog is filled
\* once and not again, an allocation that started makes room for another, no
\* allocation is created without a task that it can serve, and a failed
\* submission is logged.
TestsPass ==
    LET allocations == get_allocations(descriptors, 1)
        log         == descriptors[1].events
    IN  /\ \A a \in test.asserts :
              awaited(a.after) =>
                  Cardinality({id \in DOMAIN allocations :
                                  allocations[id] \in a.status}) = a.count
        /\ \A e \in test.events :
              awaited(e.after) =>
                  e.index \in DOMAIN log /\ log[e.index].kind = e.kind

\* Every test returns: each of its ticks ends, whatever its handler answers,
\* so that the test reaches its last assertion (autoalloc_tick joins the
\* coroutines of process_descriptor, process.rs:70-80).
TestsReturn == <>awaited(test.ticks)

=============================================================================
